---------------------------- MODULE ChatRingProofs ----------------------------
(***************************************************************************)
(* The chat server, and the ring buffer behind the sockets of the servers. *)
(* First the ring: it is a bounded first-in first-out queue for every      *)
(* size, whatever the interleaving of the writer with the reader.  Then    *)
(* the server: whatever handler runs, and however it ends, the tables of   *)
(* sessions and rooms, the disconnect queue and what each client has been  *)
(* told stay consistent, for any number of sessions, rooms and messages.   *)
(***************************************************************************)
EXTENDS ChatServer, RingBuffer, SequenceTheorems, FiniteSetTheorems, TLAPS

(* The ring buffer *)

Held == put - taken

\* What is in the ring, by the position of front alone.
Positions ==
  /\ Held >= 0 /\ Held <= Size - 1
  /\ writePos = Masked(Masked(front + Held) + 1)
  /\ pAt # "write" => rear = Masked(front + Held)
  /\ pAt = "write" => rear = Masked(front + (Held + n))
  /\ cAt # "read" => readPos = Masked(front + 1)

\* The cells after front hold the queue, then what Enqueue has copied and
\* not shown yet.
Contents ==
  /\ \A i \in 1..Held : buf[Masked(front + i)] = taken + i
  /\ pAt \in {"rear", "write"} =>
       \A i \in (Held + 1)..(Held + n) : buf[Masked(front + i)] = taken + i

\* What Enqueue has read is old, but never too much: front only runs away.
ProducerOK ==
  /\ use = "recv" => pAt = "idle"
  /\ pAt = "freeRemain" => free <= IF front < writePos THEN Size - writePos
                                                       ELSE front - writePos
  /\ pAt \in {"direct", "copy", "rear", "write"} => size + Held <= Size - 1
  /\ pAt \in {"copy", "rear", "write"} =>
       /\ n <= size
       /\ writePos + n <= Size
       /\ n < size => writePos + n = Size

\* What IOCP_Send has read is old, but a prefix of what is there.
ConsumerOK ==
  /\ use = "recv" => cAt = "idle"
  /\ cAt = "direct" => (remain > 0 => writePos < readPos /\ remain <= writePos)
  /\ cAt = "sending" =>
       /\ directOut + remain <= Held
       /\ readPos + directOut <= Size
       /\ remain > 0 => readPos + directOut = Size
  /\ cAt = "front" => looked = sent
  /\ looked <= Held
  /\ use = "send" /\ looked > 0 => cAt = "front"

RInv == RingTypeOK /\ Positions /\ Contents /\ ProducerOK /\ ConsumerOK

-----------------------------------------------------------------------------
(* Offsets *)

\* Moving twice is moving by the sum, up to a whole turn.
LEMMA MaskedSum ==
  \A f \in Offsets : \A a, b \in Nat :
    a + b <= Size => Masked(Masked(f + a) + b) = Masked(f + (a + b))
BY SizeAssumption DEF Offsets, Masked

LEMMA MaskedOffset ==
  \A f \in Offsets : \A a \in 0..Size : Masked(f + a) \in Offsets
BY SizeAssumption DEF Offsets, Masked

\* Less than a turn apart, two cells differ.
LEMMA MaskedApart ==
  \A f \in Offsets : \A a, b \in 0..(Size - 1) :
    a # b => Masked(f + a) # Masked(f + b)
BY SizeAssumption DEF Offsets, Masked

\* GetFreeSize and GetUseSize say what there is.
LEMMA FreeAndUse ==
  RingTypeOK /\ Positions => /\ GetFreeSize = Size - 1 - Held
                             /\ cAt # "read" => GetUseSize = Held
BY SizeAssumption DEF RingTypeOK, Positions, Held, Offsets, Masked, GetFreeSize,
  GetUseSize, DirectEnqueueSize, RemainEnqueueSize, DirectDequeueSize,
  RemainDequeueSize

\* What is sent or dequeued is a prefix of the queue.
LEMMA GatheredIsFirst ==
  ASSUME RingTypeOK, Positions, Contents, cAt # "read",
         NEW d \in Nat, NEW k \in Nat, k <= Held,
         readPos + d <= Size, k > d => readPos + d = Size
  PROVE  Gathered(d, k) = Queue!First(k)
<1> SUFFICES ASSUME NEW i \in 1..k
             PROVE  (IF i <= d THEN buf[readPos + i - 1]
                               ELSE buf[i - d - 1]) = taken + i
  BY DEF Gathered, Queue!First
<1>1. buf[Masked(front + i)] = taken + i
  BY DEF Contents, RingTypeOK, Held
<1>2. i <= d => Masked(front + i) = readPos + i - 1
  BY SizeAssumption DEF RingTypeOK, Positions, Held, Offsets, Masked
<1>3. ~(i <= d) => Masked(front + i) = i - d - 1
  BY SizeAssumption DEF RingTypeOK, Positions, Held, Offsets, Masked
<1>4. QED
  BY <1>1, <1>2, <1>3

-----------------------------------------------------------------------------
(* The inductive invariant *)

LEMMA RInvInit == RingInit => RInv
BY SizeAssumption DEF RingInit, RInv, RingTypeOK, Positions, Contents, ProducerOK,
  ConsumerOK, Held, Offsets, Masked

LEMMA EnqueueCalledKeeps == RInv /\ EnqueueCalled => RInv'
<1> SUFFICES ASSUME RInv, EnqueueCalled PROVE RInv'
  OBVIOUS
<1>1. RingTypeOK'
  BY SizeAssumption DEF RInv, RingTypeOK, Positions, ProducerOK, ConsumerOK,
    Held, EnqueueCalled, producer, consumer, Offsets, Masked
<1>2. Positions'
  BY SizeAssumption DEF RInv, RingTypeOK, Positions, ProducerOK, ConsumerOK,
    Held, EnqueueCalled, producer, consumer, Offsets, Masked
<1>3. Contents'
  BY DEF RInv, RingTypeOK, Positions, Contents, ProducerOK, ConsumerOK, Held,
    EnqueueCalled, producer, consumer
<1>4. ProducerOK'
  BY SizeAssumption DEF RInv, RingTypeOK, Positions, ProducerOK, ConsumerOK,
    Held, EnqueueCalled, producer, consumer, Offsets, Masked
<1>5. ConsumerOK'
  BY SizeAssumption DEF RInv, RingTypeOK, Positions, ProducerOK, ConsumerOK,
    Held, EnqueueCalled, producer, consumer, Offsets, Masked
<1>6. QED
  BY <1>1, <1>2, <1>3, <1>4, <1>5 DEF RInv

LEMMA FreeDirectKeeps == RInv /\ FreeDirect => RInv'
<1> SUFFICES ASSUME RInv, FreeDirect PROVE RInv'
  OBVIOUS
<1>1. RingTypeOK'
  BY SizeAssumption DEF RInv, RingTypeOK, Positions, ProducerOK, ConsumerOK,
    Held, FreeDirect, producer, consumer, Offsets, Masked, DirectEnqueueSize
<1>2. Positions'
  BY SizeAssumption DEF RInv, RingTypeOK, Positions, ProducerOK, ConsumerOK,
    Held, FreeDirect, producer, consumer, Offsets, Masked, DirectEnqueueSize
<1>3. Contents'
  BY DEF RInv, RingTypeOK, Positions, Contents, ProducerOK, ConsumerOK, Held,
    FreeDirect, producer, consumer
<1>4. ProducerOK'
  BY SizeAssumption DEF RInv, RingTypeOK, Positions, ProducerOK, ConsumerOK,
    Held, FreeDirect, producer, consumer, Offsets, Masked, DirectEnqueueSize
<1>5. ConsumerOK'
  BY SizeAssumption DEF RInv, RingTypeOK, Positions, ProducerOK, ConsumerOK,
    Held, FreeDirect, producer, consumer, Offsets, Masked, DirectEnqueueSize
<1>6. QED
  BY <1>1, <1>2, <1>3, <1>4, <1>5 DEF RInv

LEMMA FreeRemainKeeps == RInv /\ FreeRemain => RInv'
<1> SUFFICES ASSUME RInv, FreeRemain PROVE RInv'
  OBVIOUS
<1>1. RingTypeOK'
  BY SizeAssumption DEF RInv, RingTypeOK, Positions, ProducerOK, ConsumerOK,
    Held, FreeRemain, producer, consumer, Offsets, Masked, RemainEnqueueSize,
    Least
<1>2. Positions'
  BY SizeAssumption DEF RInv, RingTypeOK, Positions, ProducerOK, ConsumerOK,
    Held, FreeRemain, producer, consumer, Offsets, Masked, RemainEnqueueSize,
    Least
<1>3. Contents'
  BY DEF RInv, RingTypeOK, Positions, Contents, ProducerOK, ConsumerOK, Held,
    FreeRemain, producer, consumer
<1>4. ProducerOK'
  BY SizeAssumption DEF RInv, RingTypeOK, Positions, ProducerOK, ConsumerOK,
    Held, FreeRemain, producer, consumer, Offsets, Masked, RemainEnqueueSize,
    Least
<1>5. ConsumerOK'
  BY SizeAssumption DEF RInv, RingTypeOK, Positions, ProducerOK, ConsumerOK,
    Held, FreeRemain, producer, consumer, Offsets, Masked, RemainEnqueueSize,
    Least
<1>6. QED
  BY <1>1, <1>2, <1>3, <1>4, <1>5 DEF RInv

LEMMA DirectReadKeeps == RInv /\ DirectRead => RInv'
<1> SUFFICES ASSUME RInv, DirectRead PROVE RInv'
  OBVIOUS
<1>1. RingTypeOK'
  BY SizeAssumption DEF RInv, RingTypeOK, Positions, ProducerOK, ConsumerOK,
    Held, DirectRead, producer, consumer, Offsets, Masked, DirectEnqueueSize,
    Least
<1>2. Positions'
  BY SizeAssumption DEF RInv, RingTypeOK, Positions, ProducerOK, ConsumerOK,
    Held, DirectRead, producer, consumer, Offsets, Masked, DirectEnqueueSize,
    Least
<1>3. Contents'
  BY DEF RInv, RingTypeOK, Positions, Contents, ProducerOK, ConsumerOK, Held,
    DirectRead, producer, consumer
<1>4. ProducerOK'
  BY SizeAssumption DEF RInv, RingTypeOK, Positions, ProducerOK, ConsumerOK,
    Held, DirectRead, producer, consumer, Offsets, Masked, DirectEnqueueSize,
    Least
<1>5. ConsumerOK'
  BY SizeAssumption DEF RInv, RingTypeOK, Positions, ProducerOK, ConsumerOK,
    Held, DirectRead, producer, consumer, Offsets, Masked, DirectEnqueueSize,
    Least
<1>6. QED
  BY <1>1, <1>2, <1>3, <1>4, <1>5 DEF RInv

LEMMA CopyKeeps == RInv /\ Copy => RInv'
<1> SUFFICES ASSUME RInv, Copy PROVE RInv'
  OBVIOUS
<1>1. RingTypeOK'
  BY SizeAssumption DEF RInv, RingTypeOK, Positions, ProducerOK, ConsumerOK,
    Held, Copy, producer, consumer, Offsets, Masked, Written
<1>2. Positions'
  BY SizeAssumption DEF RInv, RingTypeOK, Positions, ProducerOK, ConsumerOK,
    Held, Copy, producer, consumer, Offsets, Masked
<1>3. Contents'
  <2>1. \A i \in 1..Held : buf'[Masked(front + i)] = taken + i
    <3> SUFFICES ASSUME NEW i \in 1..Held
                 PROVE  buf'[Masked(front + i)] = taken + i
      OBVIOUS
    <3>1. Masked(front + i) \in Offsets
      BY SizeAssumption DEF RInv, RingTypeOK, Positions, Held, Offsets, Masked
    <3>2. ~(writePos <= Masked(front + i) /\ Masked(front + i) < writePos + n)
      BY SizeAssumption DEF RInv, RingTypeOK, Positions, ProducerOK, Held, Copy,
        Offsets, Masked
    <3>3. QED
      BY <3>1, <3>2 DEF RInv, Contents, Copy, Written
  <2>2. \A i \in (Held + 1)..(Held + n) :
          buf'[Masked(front + i)] = taken + i
    <3> SUFFICES ASSUME NEW i \in (Held + 1)..(Held + n)
                 PROVE  buf'[Masked(front + i)] = taken + i
      OBVIOUS
    <3>1. Masked(front + i) = writePos + (i - Held - 1)
      BY SizeAssumption DEF RInv, RingTypeOK, Positions, ProducerOK, Held, Copy,
        Offsets, Masked
    <3>2. Masked(front + i) \in Offsets
      BY SizeAssumption DEF RInv, RingTypeOK, Positions, ProducerOK, Held, Copy,
        Offsets, Masked
    <3>3. QED
      BY <3>1, <3>2 DEF RInv, RingTypeOK, Copy, Written, Held, Offsets
  <2>3. QED
    BY <2>1, <2>2 DEF Contents, Copy, Held
<1>4. ProducerOK'
  BY SizeAssumption DEF RInv, RingTypeOK, Positions, ProducerOK, ConsumerOK,
    Held, Copy, producer, consumer, Offsets, Masked
<1>5. ConsumerOK'
  BY SizeAssumption DEF RInv, RingTypeOK, Positions, ProducerOK, ConsumerOK,
    Held, Copy, producer, consumer, Offsets, Masked
<1>6. QED
  BY <1>1, <1>2, <1>3, <1>4, <1>5 DEF RInv

LEMMA MoveRearKeeps == RInv /\ MoveRear => RInv'
<1> SUFFICES ASSUME RInv, MoveRear PROVE RInv'
  OBVIOUS
<1>1. RingTypeOK'
  BY SizeAssumption DEF RInv, RingTypeOK, Positions, ProducerOK, ConsumerOK,
    Held, MoveRear, producer, consumer, Offsets, Masked
<1>2. Positions'
  BY SizeAssumption DEF RInv, RingTypeOK, Positions, ProducerOK, ConsumerOK,
    Held, MoveRear, producer, consumer, Offsets, Masked
<1>3. Contents'
  BY DEF RInv, RingTypeOK, Positions, Contents, ProducerOK, ConsumerOK, Held,
    MoveRear, producer, consumer
<1>4. ProducerOK'
  BY SizeAssumption DEF RInv, RingTypeOK, Positions, ProducerOK, ConsumerOK,
    Held, MoveRear, producer, consumer, Offsets, Masked
<1>5. ConsumerOK'
  BY SizeAssumption DEF RInv, RingTypeOK, Positions, ProducerOK, ConsumerOK,
    Held, MoveRear, producer, consumer, Offsets, Masked
<1>6. QED
  BY <1>1, <1>2, <1>3, <1>4, <1>5 DEF RInv

LEMMA SetWritePosKeeps == RInv /\ SetWritePos => RInv'
<1> SUFFICES ASSUME RInv, SetWritePos PROVE RInv'
  OBVIOUS
<1>1. RingTypeOK'
  BY SizeAssumption DEF RInv, RingTypeOK, Positions, ProducerOK, ConsumerOK,
    Held, SetWritePos, producer, consumer, Offsets, Masked
<1>2. Positions'
  BY SizeAssumption DEF RInv, RingTypeOK, Positions, ProducerOK, ConsumerOK,
    Held, SetWritePos, producer, consumer, Offsets, Masked
<1>3. Contents'
  <2>1. Held' = Held + n /\ pAt' \notin {"rear", "write"}
    BY DEF RInv, RingTypeOK, SetWritePos, Held
  <2>2. ASSUME NEW i \in 1..(Held + n)
        PROVE  buf[Masked(front + i)] = taken + i
    <3>1. CASE i <= Held
      BY <3>1 DEF RInv, RingTypeOK, Positions, Contents, Held
    <3>2. CASE i > Held
      BY <3>2 DEF RInv, RingTypeOK, Positions, Contents, SetWritePos, Held
    <3>3. QED
      BY <3>1, <3>2 DEF RInv, RingTypeOK, Positions, Held
  <2>3. QED
    BY <2>1, <2>2 DEF Contents, SetWritePos
<1>4. ProducerOK'
  BY SizeAssumption DEF RInv, RingTypeOK, Positions, ProducerOK, ConsumerOK,
    Held, SetWritePos, producer, consumer, Offsets, Masked
<1>5. ConsumerOK'
  BY SizeAssumption DEF RInv, RingTypeOK, Positions, ProducerOK, ConsumerOK,
    Held, SetWritePos, producer, consumer, Offsets, Masked
<1>6. QED
  BY <1>1, <1>2, <1>3, <1>4, <1>5 DEF RInv

LEMMA PostRemainKeeps == RInv /\ PostRemain => RInv'
<1> SUFFICES ASSUME RInv, PostRemain PROVE RInv'
  OBVIOUS
<1>1. RingTypeOK'
  BY SizeAssumption DEF RInv, RingTypeOK, Positions, ProducerOK, ConsumerOK,
    Held, PostRemain, producer, consumer, Offsets, Masked, RemainDequeueSize
<1>2. Positions'
  BY SizeAssumption DEF RInv, RingTypeOK, Positions, ProducerOK, ConsumerOK,
    Held, PostRemain, producer, consumer, Offsets, Masked, RemainDequeueSize
<1>3. Contents'
  BY DEF RInv, RingTypeOK, Positions, Contents, ProducerOK, ConsumerOK, Held,
    PostRemain, producer, consumer
<1>4. ProducerOK'
  BY SizeAssumption DEF RInv, RingTypeOK, Positions, ProducerOK, ConsumerOK,
    Held, PostRemain, producer, consumer, Offsets, Masked, RemainDequeueSize
<1>5. ConsumerOK'
  BY SizeAssumption DEF RInv, RingTypeOK, Positions, ProducerOK, ConsumerOK,
    Held, PostRemain, producer, consumer, Offsets, Masked, RemainDequeueSize
<1>6. QED
  BY <1>1, <1>2, <1>3, <1>4, <1>5 DEF RInv

LEMMA PostDirectKeeps == RInv /\ PostDirect => RInv'
<1> SUFFICES ASSUME RInv, PostDirect PROVE RInv'
  OBVIOUS
<1>1. RingTypeOK'
  BY SizeAssumption DEF RInv, RingTypeOK, Positions, ProducerOK, ConsumerOK,
    Held, PostDirect, producer, consumer, Offsets, Masked, DirectDequeueSize
<1>2. Positions'
  BY SizeAssumption DEF RInv, RingTypeOK, Positions, ProducerOK, ConsumerOK,
    Held, PostDirect, producer, consumer, Offsets, Masked, DirectDequeueSize
<1>3. Contents'
  BY DEF RInv, RingTypeOK, Positions, Contents, ProducerOK, ConsumerOK, Held,
    PostDirect, producer, consumer
<1>4. ProducerOK'
  BY SizeAssumption DEF RInv, RingTypeOK, Positions, ProducerOK, ConsumerOK,
    Held, PostDirect, producer, consumer, Offsets, Masked, DirectDequeueSize
<1>5. ConsumerOK'
  BY SizeAssumption DEF RInv, RingTypeOK, Positions, ProducerOK, ConsumerOK,
    Held, PostDirect, producer, consumer, Offsets, Masked, DirectDequeueSize
<1>6. QED
  BY <1>1, <1>2, <1>3, <1>4, <1>5 DEF RInv

LEMMA SentKeeps == RInv /\ Sent => RInv'
<1> SUFFICES ASSUME RInv, Sent PROVE RInv'
  OBVIOUS
<1>1. RingTypeOK'
  BY SizeAssumption DEF RInv, RingTypeOK, Positions, ProducerOK, ConsumerOK,
    Held, Sent, producer, consumer, Offsets, Masked
<1>2. Positions'
  BY SizeAssumption DEF RInv, RingTypeOK, Positions, ProducerOK, ConsumerOK,
    Held, Sent, producer, consumer, Offsets, Masked
<1>3. Contents'
  BY DEF RInv, RingTypeOK, Positions, Contents, ProducerOK, ConsumerOK, Held,
    Sent, producer, consumer
<1>4. ProducerOK'
  BY SizeAssumption DEF RInv, RingTypeOK, Positions, ProducerOK, ConsumerOK,
    Held, Sent, producer, consumer, Offsets, Masked
<1>5. ConsumerOK'
  BY SizeAssumption DEF RInv, RingTypeOK, Positions, ProducerOK, ConsumerOK,
    Held, Sent, producer, consumer, Offsets, Masked
<1>6. QED
  BY <1>1, <1>2, <1>3, <1>4, <1>5 DEF RInv

LEMMA MoveFrontKeeps == RInv /\ MoveFront => RInv'
<1> SUFFICES ASSUME RInv, MoveFront PROVE RInv'
  OBVIOUS
<1>1. RingTypeOK'
  BY SizeAssumption DEF RInv, RingTypeOK, Positions, ProducerOK, ConsumerOK,
    Held, MoveFront, producer, consumer, Offsets, Masked
<1>2. Positions'
  BY SizeAssumption DEF RInv, RingTypeOK, Positions, ProducerOK, ConsumerOK,
    Held, MoveFront, producer, consumer, Offsets, Masked
<1>3. Contents'
  <2>1. sent \in 0..Held /\ Held' = Held - sent /\ taken' = taken + sent
    BY DEF RInv, RingTypeOK, Positions, ConsumerOK, Held, MoveFront
  <2>2. ASSUME NEW i \in Nat, i + sent <= Size - 1
        PROVE  Masked(front' + i) = Masked(front + (sent + i))
    BY <2>1, <2>2, MaskedSum, SizeAssumption
      DEF RInv, RingTypeOK, MoveFront, Held, Positions
  <2>3. \A i \in 1..Held' : buf'[Masked(front' + i)] = taken' + i
    <3> SUFFICES ASSUME NEW i \in 1..Held'
                 PROVE  buf'[Masked(front' + i)] = taken' + i
      OBVIOUS
    <3>1. buf[Masked(front + (sent + i))] = taken + (sent + i)
      BY <2>1 DEF RInv, RingTypeOK, Positions, Contents, Held
    <3>2. i \in Nat /\ i + sent <= Size - 1
      BY <2>1, SizeAssumption DEF RInv, RingTypeOK, Positions, Held
    <3>3. Masked(front' + i) = Masked(front + (sent + i))
      BY <2>2, <3>2
    <3>4. QED
      BY <2>1, <3>1, <3>3 DEF RInv, RingTypeOK, MoveFront
  <2>4. ASSUME pAt \in {"rear", "write"}
        PROVE  \A i \in (Held' + 1)..(Held' + n) :
                 buf'[Masked(front' + i)] = taken' + i
    <3> SUFFICES ASSUME NEW i \in (Held' + 1)..(Held' + n)
                 PROVE  buf'[Masked(front' + i)] = taken' + i
      OBVIOUS
    <3>1. buf[Masked(front + (sent + i))] = taken + (sent + i)
      BY <2>1, <2>4 DEF RInv, RingTypeOK, Positions, Contents, Held
    <3>2. i \in Nat /\ i + sent <= Size - 1
      BY <2>1, <2>4, SizeAssumption DEF RInv, RingTypeOK, Positions, ProducerOK,
        Held
    <3>3. Masked(front' + i) = Masked(front + (sent + i))
      BY <2>2, <3>2
    <3>4. QED
      BY <2>1, <3>1, <3>3 DEF RInv, RingTypeOK, MoveFront
  <2>5. QED
    BY <2>3, <2>4 DEF Contents, MoveFront, producer
<1>4. ProducerOK'
  BY SizeAssumption DEF RInv, RingTypeOK, Positions, ProducerOK, ConsumerOK,
    Held, MoveFront, producer, consumer, Offsets, Masked
<1>5. ConsumerOK'
  BY SizeAssumption DEF RInv, RingTypeOK, Positions, ProducerOK, ConsumerOK,
    Held, MoveFront, producer, consumer, Offsets, Masked
<1>6. QED
  BY <1>1, <1>2, <1>3, <1>4, <1>5 DEF RInv

LEMMA SetReadPosKeeps == RInv /\ SetReadPos => RInv'
<1> SUFFICES ASSUME RInv, SetReadPos PROVE RInv'
  OBVIOUS
<1>1. RingTypeOK'
  BY SizeAssumption DEF RInv, RingTypeOK, Positions, ProducerOK, ConsumerOK,
    Held, SetReadPos, producer, consumer, Offsets, Masked
<1>2. Positions'
  BY SizeAssumption DEF RInv, RingTypeOK, Positions, ProducerOK, ConsumerOK,
    Held, SetReadPos, producer, consumer, Offsets, Masked
<1>3. Contents'
  BY DEF RInv, RingTypeOK, Positions, Contents, ProducerOK, ConsumerOK, Held,
    SetReadPos, producer, consumer
<1>4. ProducerOK'
  BY SizeAssumption DEF RInv, RingTypeOK, Positions, ProducerOK, ConsumerOK,
    Held, SetReadPos, producer, consumer, Offsets, Masked
<1>5. ConsumerOK'
  BY SizeAssumption DEF RInv, RingTypeOK, Positions, ProducerOK, ConsumerOK,
    Held, SetReadPos, producer, consumer, Offsets, Masked
<1>6. QED
  BY <1>1, <1>2, <1>3, <1>4, <1>5 DEF RInv

\* recv: the bytes go to writePos and, past the end, to begin.
LEMMA ReceivedKeeps == RInv /\ Received => RInv'
<1> SUFFICES ASSUME RInv, Received PROVE RInv'
  OBVIOUS
<1>1. pAt = "idle" /\ cAt = "idle"
  BY DEF RInv, ProducerOK, ConsumerOK, Received
<1>2. PICK k \in 1..GetFreeSize :
        LET d == Least(k, DirectEnqueueSize) IN
        /\ buf' = Written(Written(buf, writePos, put + 1, d),
                          0, put + 1 + d, k - d)
        /\ rear' = Masked(rear + k)
        /\ put' = put + k
  BY DEF Received
<1> DEFINE d == Least(k, DirectEnqueueSize)
<1>3. k \in Nat /\ k > 0 /\ Held + k <= Size - 1 /\ GetFreeSize \in Nat
  BY <1>2, FreeAndUse, SizeAssumption DEF RInv, RingTypeOK, Positions, Held
<1>4. /\ d \in 0..k /\ writePos + d <= Size
      /\ d < k => writePos + d = Size
  BY <1>3, SizeAssumption DEF RInv, RingTypeOK, Positions, Held, Offsets, Masked,
    Least, DirectEnqueueSize
<1>5. Held' = Held + k
  BY <1>2, <1>3 DEF RInv, RingTypeOK, Held, Received
<1>buf. buf' = Written(Written(buf, writePos, put + 1, d), 0, put + 1 + d, k - d)
  BY <1>2
<1> HIDE DEF d
<1>6. RingTypeOK'
  <2>1. buf' \in [Offsets -> Nat]
    BY <1>3, <1>4, <1>buf DEF RInv, RingTypeOK, Offsets, Written
  <2>2. rear' \in Offsets /\ writePos' \in Offsets
    BY <1>2, <1>3, SizeAssumption DEF RInv, RingTypeOK, Positions, Held, Received,
      Offsets, Masked
  <2>3. QED
    BY <1>2, <1>3, <2>1, <2>2 DEF RInv, RingTypeOK, Received, producer, consumer
<1>7. Positions'
  BY <1>1, <1>2, <1>3, <1>5, SizeAssumption DEF RInv, RingTypeOK, Positions, Held,
    Received, producer, consumer, Offsets, Masked
<1>8. Contents'
  <2> SUFFICES ASSUME NEW i \in 1..(Held + k)
               PROVE  buf'[Masked(front + i)] = taken + i
    BY <1>1, <1>5 DEF Contents, Received, producer
  <2>1. Masked(front + i) \in Offsets
    BY <1>3, SizeAssumption DEF RInv, RingTypeOK, Positions, Held, Offsets, Masked
  <2>2. CASE i <= Held
    <3>1. /\ ~(writePos <= Masked(front + i)
                /\ Masked(front + i) < writePos + d)
          /\ ~(0 <= Masked(front + i) /\ Masked(front + i) < 0 + (k - d))
      BY <1>3, <1>4, <2>2, SizeAssumption DEF RInv, RingTypeOK, Positions, Held,
        Offsets, Masked
    <3>2. buf'[Masked(front + i)] = buf[Masked(front + i)]
      BY <1>buf, <2>1, <3>1 DEF Written
    <3>3. QED
      BY <2>2, <3>2 DEF RInv, Contents, RingTypeOK, Positions, Held
  <2>3. CASE i > Held /\ i <= Held + d
    <3>1. /\ Masked(front + i) = writePos + (i - Held - 1)
          /\ ~(0 <= Masked(front + i) /\ Masked(front + i) < 0 + (k - d))
      BY <1>1, <1>3, <1>4, <2>3, SizeAssumption DEF RInv, RingTypeOK, Positions,
        Held, Offsets, Masked
    <3>2. writePos <= Masked(front + i) /\ Masked(front + i) < writePos + d
      <4>1. writePos \in Int /\ Held \in Int /\ i \in Int /\ d \in Int
        BY <1>3, <1>4, SizeAssumption DEF RInv, RingTypeOK, Held, Offsets
      <4> HIDE DEF Held
      <4>2. QED
        BY <2>3, <3>1, <4>1
    <3>3. buf'[Masked(front + i)] = put + 1 + Masked(front + i) - writePos
      BY <1>buf, <2>1, <3>1, <3>2 DEF Written
    <3>4. QED
      BY <3>1, <3>3, SizeAssumption DEF RInv, RingTypeOK, Held, Offsets
  <2>4. CASE i > Held + d
    <3>1. Masked(front + i) = i - Held - d - 1
      BY <1>1, <1>3, <1>4, <2>4, SizeAssumption DEF RInv, RingTypeOK, Positions,
        Held, Offsets, Masked
    <3>2. buf'[Masked(front + i)] = put + 1 + d + Masked(front + i) - 0
      BY <1>buf, <1>3, <1>4, <2>1, <2>4, <3>1 DEF Written, RInv, RingTypeOK, Held
    <3>3. QED
      BY <1>4, <3>1, <3>2 DEF RInv, RingTypeOK, Held
  <2>5. QED
    BY <1>4, <2>2, <2>3, <2>4 DEF RInv, RingTypeOK, Positions, Held
<1>9. ProducerOK' /\ ConsumerOK'
  BY <1>1, <1>3, <1>5 DEF RInv, RingTypeOK, ProducerOK, ConsumerOK, Received,
    producer, consumer, Held
<1>10. QED
  BY <1>6, <1>7, <1>8, <1>9 DEF RInv

LEMMA PeekKeeps == RInv /\ Peek => RInv'
<1> SUFFICES ASSUME RInv, Peek PROVE RInv'
  OBVIOUS
<1>1. RingTypeOK'
  BY SizeAssumption DEF RInv, RingTypeOK, Positions, ProducerOK, ConsumerOK,
    Held, Peek, producer, consumer, Offsets, Masked, GetFreeSize, GetUseSize,
    DirectEnqueueSize, RemainEnqueueSize, DirectDequeueSize,
    RemainDequeueSize, Least
<1>2. Positions'
  BY SizeAssumption DEF RInv, RingTypeOK, Positions, ProducerOK, ConsumerOK,
    Held, Peek, producer, consumer, Offsets, Masked, GetFreeSize, GetUseSize,
    DirectEnqueueSize, RemainEnqueueSize, DirectDequeueSize,
    RemainDequeueSize, Least
<1>3. Contents'
  BY DEF RInv, RingTypeOK, Positions, Contents, ProducerOK, ConsumerOK, Held,
    Peek, producer, consumer
<1>4. ProducerOK'
  BY SizeAssumption DEF RInv, RingTypeOK, Positions, ProducerOK, ConsumerOK,
    Held, Peek, producer, consumer, Offsets, Masked, GetFreeSize, GetUseSize,
    DirectEnqueueSize, RemainEnqueueSize, DirectDequeueSize,
    RemainDequeueSize, Least
<1>5. ConsumerOK'
  BY SizeAssumption DEF RInv, RingTypeOK, Positions, ProducerOK, ConsumerOK,
    Held, Peek, producer, consumer, Offsets, Masked, GetFreeSize, GetUseSize,
    DirectEnqueueSize, RemainEnqueueSize, DirectDequeueSize,
    RemainDequeueSize, Least
<1>6. QED
  BY <1>1, <1>2, <1>3, <1>4, <1>5 DEF RInv

LEMMA SkipKeeps == RInv /\ Skip => RInv'
<1> SUFFICES ASSUME RInv, Skip PROVE RInv'
  OBVIOUS
<1>1. RingTypeOK'
  BY SizeAssumption DEF RInv, RingTypeOK, Positions, ProducerOK, ConsumerOK,
    Held, Skip, producer, consumer, Offsets, Masked
<1>2. Positions'
  BY SizeAssumption DEF RInv, RingTypeOK, Positions, ProducerOK, ConsumerOK,
    Held, Skip, producer, consumer, Offsets, Masked
<1>3. Contents'
  <2>1. looked \in 0..Held /\ Held' = Held - looked /\ taken' = taken + looked
    BY DEF RInv, RingTypeOK, Positions, ConsumerOK, Held, Skip
  <2>2. ASSUME NEW i \in Nat, i + looked <= Size - 1
        PROVE  Masked(front' + i) = Masked(front + (looked + i))
    BY <2>1, <2>2, MaskedSum, SizeAssumption
      DEF RInv, RingTypeOK, Skip, Held, Positions
  <2>3. \A i \in 1..Held' : buf'[Masked(front' + i)] = taken' + i
    <3> SUFFICES ASSUME NEW i \in 1..Held'
                 PROVE  buf'[Masked(front' + i)] = taken' + i
      OBVIOUS
    <3>1. buf[Masked(front + (looked + i))] = taken + (looked + i)
      BY <2>1 DEF RInv, RingTypeOK, Positions, Contents, Held
    <3>2. i \in Nat /\ i + looked <= Size - 1
      BY <2>1, SizeAssumption DEF RInv, RingTypeOK, Positions, Held
    <3>3. Masked(front' + i) = Masked(front + (looked + i))
      BY <2>2, <3>2
    <3>4. QED
      BY <2>1, <3>1, <3>3 DEF RInv, RingTypeOK, Skip
  <2>4. pAt' \notin {"rear", "write"}
    BY DEF RInv, ProducerOK, Skip, producer
  <2>5. QED
    BY <2>3, <2>4 DEF Contents, Skip, producer
<1>4. ProducerOK'
  BY SizeAssumption DEF RInv, RingTypeOK, Positions, ProducerOK, ConsumerOK,
    Held, Skip, producer, consumer, Offsets, Masked
<1>5. ConsumerOK'
  BY SizeAssumption DEF RInv, RingTypeOK, Positions, ProducerOK, ConsumerOK,
    Held, Skip, producer, consumer, Offsets, Masked
<1>6. QED
  BY <1>1, <1>2, <1>3, <1>4, <1>5 DEF RInv

\* Dequeue: both parts together are one move of front.
LEMMA DequeueKeeps == RInv /\ Dequeue => RInv'
<1> SUFFICES ASSUME RInv, Dequeue PROVE RInv'
  OBVIOUS
<1>1. pAt = "idle" /\ cAt = "idle"
  BY DEF RInv, ProducerOK, ConsumerOK, Dequeue
<1>2. PICK k \in 1..MaxChunk :
        LET all == Least(k, GetUseSize)
            d == Least(all, DirectDequeueSize) IN
        /\ out' = Gathered(DirectDequeueSize, all)
        /\ front' = Masked(Masked(front + d) + (all - d))
        /\ taken' = taken + all
  BY DEF Dequeue
<1> DEFINE all == Least(k, GetUseSize)
           d == Least(all, DirectDequeueSize)
<1>3. all \in 0..Held
  <2>1. GetUseSize = Held
    BY <1>1, FreeAndUse DEF RInv
  <2>2. Held \in Nat /\ k \in Nat
    BY BoundsAssumption DEF RInv, RingTypeOK, Positions, Held
  <2>3. QED
    BY <2>1, <2>2 DEF Least
<1>4. d \in 0..all
  <2>1. DirectDequeueSize \in Nat
    BY SizeAssumption DEF RInv, RingTypeOK, Offsets, DirectDequeueSize
  <2>2. all \in Nat
    BY <1>3 DEF RInv, RingTypeOK, Held
  <2> HIDE DEF all
  <2>3. QED
    BY <2>1, <2>2 DEF Least
<1> HIDE DEF all, d
<1>5. front' = Masked(front + all)
  <2>1. /\ d \in Nat /\ all - d \in Nat /\ d + (all - d) = all
        /\ all <= Size
    BY <1>3, <1>4, SizeAssumption DEF RInv, RingTypeOK, Positions, Held
  <2>2. Masked(Masked(front + d) + (all - d)) = Masked(front + all)
    BY <2>1, MaskedSum DEF RInv, RingTypeOK
  <2>3. QED
    BY <1>2, <2>2 DEF all, d
<1>6. /\ taken' = taken + all /\ Held' = Held - all
      /\ readPos' = Masked(front' + 1)
      /\ UNCHANGED <<use, buf, rear, writePos, producer, consumer, put>>
      /\ looked' = 0
  BY <1>2, <1>3 DEF all, RInv, RingTypeOK, Held, Dequeue
<1>7. RingTypeOK'
  BY <1>3, <1>5, <1>6, SizeAssumption DEF RInv, RingTypeOK, Positions, Held,
    producer, consumer, Offsets, Masked
<1>8. Positions'
  BY <1>1, <1>3, <1>5, <1>6, SizeAssumption DEF RInv, RingTypeOK, Positions, Held,
    producer, consumer, Offsets, Masked
<1>9. Contents'
  <2> SUFFICES ASSUME NEW i \in 1..Held'
               PROVE  buf[Masked(front' + i)] = taken' + i
    BY <1>1, <1>6 DEF Contents, producer
  <2>1. buf[Masked(front + (all + i))] = taken + (all + i)
    BY <1>3, <1>6 DEF RInv, RingTypeOK, Positions, Contents, Held
  <2>2. Masked(front' + i) = Masked(front + (all + i))
    BY <1>3, <1>5, <1>6, MaskedSum, SizeAssumption DEF RInv, RingTypeOK,
      Positions, Held
  <2>3. QED
    BY <1>3, <1>6, <2>1, <2>2 DEF RInv, RingTypeOK, Held
<1>10. ProducerOK' /\ ConsumerOK'
  BY <1>1, <1>3, <1>6 DEF RInv, RingTypeOK, Positions, ProducerOK, ConsumerOK,
    producer, consumer, Held
<1>11. QED
  BY <1>7, <1>8, <1>9, <1>10 DEF RInv

LEMMA ClearKeeps == RInv /\ Clear => RInv'
<1> SUFFICES ASSUME RInv, Clear PROVE RInv'
  OBVIOUS
<1>1. RingTypeOK'
  BY SizeAssumption DEF RInv, RingTypeOK, Positions, ProducerOK, ConsumerOK,
    Held, Clear, producer, consumer, Offsets, Masked
<1>2. Positions'
  BY SizeAssumption DEF RInv, RingTypeOK, Positions, ProducerOK, ConsumerOK,
    Held, Clear, producer, consumer, Offsets, Masked
<1>3. Contents'
  BY DEF RInv, RingTypeOK, Positions, Contents, ProducerOK, ConsumerOK, Held,
    Clear, producer, consumer
<1>4. ProducerOK'
  BY SizeAssumption DEF RInv, RingTypeOK, Positions, ProducerOK, ConsumerOK,
    Held, Clear, producer, consumer, Offsets, Masked
<1>5. ConsumerOK'
  BY SizeAssumption DEF RInv, RingTypeOK, Positions, ProducerOK, ConsumerOK,
    Held, Clear, producer, consumer, Offsets, Masked
<1>6. QED
  BY <1>1, <1>2, <1>3, <1>4, <1>5 DEF RInv

LEMMA RInvStep == RInv /\ [RingNext]_ringVars => RInv'
<1> SUFFICES ASSUME RInv, [RingNext]_ringVars PROVE RInv'
  OBVIOUS
<1>1. CASE EnqueueCalled
  BY <1>1, EnqueueCalledKeeps
<1>2. CASE FreeDirect
  BY <1>2, FreeDirectKeeps
<1>3. CASE FreeRemain
  BY <1>3, FreeRemainKeeps
<1>4. CASE DirectRead
  BY <1>4, DirectReadKeeps
<1>5. CASE Copy
  BY <1>5, CopyKeeps
<1>6. CASE MoveRear
  BY <1>6, MoveRearKeeps
<1>7. CASE SetWritePos
  BY <1>7, SetWritePosKeeps
<1>8. CASE PostRemain
  BY <1>8, PostRemainKeeps
<1>9. CASE PostDirect
  BY <1>9, PostDirectKeeps
<1>10. CASE Sent
  BY <1>10, SentKeeps
<1>11. CASE MoveFront
  BY <1>11, MoveFrontKeeps
<1>12. CASE SetReadPos
  BY <1>12, SetReadPosKeeps
<1>13. CASE Received
  BY <1>13, ReceivedKeeps
<1>14. CASE Peek
  BY <1>14, PeekKeeps
<1>15. CASE Skip
  BY <1>15, SkipKeeps
<1>16. CASE Dequeue
  BY <1>16, DequeueKeeps
<1>17. CASE Clear
  BY <1>17, ClearKeeps
<1>18. CASE UNCHANGED ringVars
  BY <1>18 DEF RInv, RingTypeOK, Positions, Contents, ProducerOK, ConsumerOK, Held,
    ringVars, producer, consumer
<1>19. QED
  BY <1>1, <1>2, <1>3, <1>4, <1>5, <1>6, <1>7, <1>8, <1>9, <1>10, <1>11,
    <1>12, <1>13, <1>14, <1>15, <1>16, <1>17, <1>18 DEF RingNext, EnqueueStep,
    SendStep

\* The inductive invariant holds throughout, for every size of the ring.
THEOREM RInvariance == RingSpec => []RInv
<1>1. RingInit => RInv
  BY RInvInit
<1>2. RInv /\ [RingNext]_ringVars => RInv'
  BY RInvStep
<1>3. QED
  BY <1>1, <1>2, PTL DEF RingSpec

\* memmove and WSASend stay inside the allocation, and Enqueue writes no byte
\* over one that has not left.
THEOREM Inside == RingSpec => []CopiesInside
<1>1. RInv => CopiesInside
  BY SizeAssumption DEF RInv, RingTypeOK, Positions, ProducerOK, ConsumerOK, Held,
    Offsets, CopiesInside
<1>2. QED
  BY <1>1, RInvariance, PTL

-----------------------------------------------------------------------------
(* The queue *)

\* A step of the ring is a step of the queue, or none.
LEMMA QueueStep == RInv /\ [RingNext]_ringVars => [Queue!QNext]_(Queue!qvars)
<1> SUFFICES ASSUME RInv, [RingNext]_ringVars
             PROVE  [Queue!QNext]_(Queue!qvars)
  OBVIOUS
<1> USE DEF Queue!QNext, Queue!qvars, Queue!Held
<1>1. CASE SetWritePos
  <2>1. n \in Nat /\ n <= Size - 1 - (put - taken)
    BY <1>1, SizeAssumption DEF RInv, RingTypeOK, Positions, ProducerOK, Held,
      SetWritePos
  <2>2. put' = put + n /\ UNCHANGED <<taken, looked, out>>
    BY <1>1 DEF SetWritePos
  <2>3. CASE n = 0
    BY <2>2, <2>3 DEF RInv, RingTypeOK
  <2>4. CASE n # 0
    <3>1. n \in 1..((Size - 1) - (put - taken))
      BY <2>1, <2>4, SizeAssumption DEF RInv, RingTypeOK
    <3>2. QED
      BY <2>2, <3>1 DEF Queue!Put
  <2>5. QED
    BY <2>3, <2>4
<1>2. CASE Sent
  <2>1. CASE remain + directOut = 0
    BY <1>2, <2>1 DEF Sent
  <2>2. CASE remain + directOut # 0
    <3>1. PICK k \in 1..(remain + directOut) :
            looked' = k /\ out' = Gathered(directOut, k)
      BY <1>2, <2>2 DEF Sent
    <3>2. /\ k \in 0..Held /\ k \in Nat /\ directOut \in Nat
          /\ readPos + directOut <= Size /\ cAt # "read"
          /\ k > directOut => readPos + directOut = Size
      BY <1>2, <3>1 DEF RInv, RingTypeOK, ConsumerOK, Sent, Held
    <3>3. Gathered(directOut, k) = Queue!First(k)
      BY <3>2, GatheredIsFirst DEF RInv, RingTypeOK, Held
    <3>4. QED
      BY <1>2, <3>1, <3>2, <3>3 DEF Queue!Look, Sent, Held
  <2>3. QED
    BY <2>1, <2>2
<1>3. CASE MoveFront
  <2>1. looked = sent
    BY <1>3 DEF MoveFront, RInv, ConsumerOK
  <2>2. CASE looked > 0
    BY <1>3, <2>1, <2>2 DEF MoveFront, Queue!Drop
  <2>3. CASE looked = 0
    BY <1>3, <2>1, <2>3 DEF MoveFront, RInv, RingTypeOK
  <2>4. QED
    BY <2>2, <2>3 DEF RInv, RingTypeOK
<1>4. CASE Received
  <2>1. PICK k \in 1..GetFreeSize : put' = put + k
    BY <1>4 DEF Received
  <2>2. k \in 1..((Size - 1) - (put - taken))
    BY <2>1, FreeAndUse DEF RInv, Held
  <2>3. QED
    BY <1>4, <2>1, <2>2 DEF Received, Queue!Put
<1>5. ASSUME use = "recv", NEW all \in 0..GetUseSize
      PROVE  /\ all \in 0..(put - taken)
             /\ Gathered(DirectDequeueSize, all) = Queue!First(all)
  <2>1. cAt # "read" /\ GetUseSize = Held
    BY <1>5, FreeAndUse DEF RInv, ConsumerOK
  <2>2. all \in Nat /\ all <= Held
    BY <1>5, <2>1 DEF RInv, RingTypeOK, Positions, Held
  <2>3. /\ DirectDequeueSize \in Nat
        /\ readPos + DirectDequeueSize <= Size
        /\ all > DirectDequeueSize => readPos + DirectDequeueSize = Size
    BY <2>1, <2>2, SizeAssumption DEF RInv, RingTypeOK, Positions, Held, Offsets,
      Masked, DirectDequeueSize
  <2>4. QED
    BY <2>1, <2>2, <2>3, GatheredIsFirst DEF RInv, Held, RingTypeOK
<1>6. ASSUME use = "recv", NEW k \in 1..MaxChunk
      PROVE  /\ Least(k, GetUseSize) \in 0..(put - taken)
             /\ Gathered(DirectDequeueSize, Least(k, GetUseSize))
                  = Queue!First(Least(k, GetUseSize))
  <2>1. GetUseSize \in Nat
    BY <1>6, FreeAndUse DEF RInv, RingTypeOK, ConsumerOK, Positions, Held
  <2>2. Least(k, GetUseSize) \in 0..GetUseSize
    BY <2>1, BoundsAssumption DEF Least
  <2>3. QED
    BY <1>5, <1>6, <2>2
<1>7. CASE Peek
  <2>1. PICK k \in 1..MaxChunk :
          /\ out' = Gathered(DirectDequeueSize, Least(k, GetUseSize))
          /\ looked' = Least(k, GetUseSize)
    BY <1>7 DEF Peek
  <2>2. QED
    BY <1>6, <1>7, <2>1 DEF Peek, Queue!Look
<1>8. CASE Dequeue
  <2>1. PICK k \in 1..MaxChunk :
          /\ out' = Gathered(DirectDequeueSize, Least(k, GetUseSize))
          /\ taken' = taken + Least(k, GetUseSize)
    BY <1>8 DEF Dequeue
  <2>2. QED
    BY <1>6, <1>8, <2>1 DEF Dequeue, Queue!Get
<1>9. CASE Skip
  BY <1>9 DEF Skip, Queue!Drop
<1>10. CASE Clear
  BY <1>10 DEF Clear, Queue!Clear
<1>11. CASE \/ EnqueueCalled \/ FreeDirect \/ FreeRemain \/ DirectRead
            \/ Copy \/ MoveRear \/ PostRemain \/ PostDirect \/ SetReadPos
            \/ UNCHANGED ringVars
  BY <1>11 DEF EnqueueCalled, FreeDirect, FreeRemain, DirectRead, Copy,
    MoveRear, PostRemain, PostDirect, SetReadPos, ringVars
<1>12. QED
  BY <1>1, <1>2, <1>3, <1>4, <1>7, <1>8, <1>9, <1>10, <1>11
    DEF RingNext, EnqueueStep, SendStep

\* The ring buffer implements the queue of Size - 1 bytes.
THEOREM RingIsQueue == RingSpec => IsByteQueue
<1>1. RingInit => Queue!QInit
  BY DEF RingInit, Queue!QInit
<1>2. RInv /\ [RingNext]_ringVars => [Queue!QNext]_(Queue!qvars)
  BY QueueStep
<1>3. QED
  BY <1>1, <1>2, RInvariance, PTL DEF RingSpec, IsByteQueue, Queue!QSpec

-----------------------------------------------------------------------------
(* The chat server: loops *)


\* A set of naturals has a least one.
LEMMA LeastOf ==
  ASSUME NEW B, B \subseteq Nat, B # {}
  PROVE  \E k \in B : \A j \in B : k <= j
<1> DEFINE T == {0 .. k : k \in B}
           R == StrictSubsetOrdering(Nat)
<1>1. IsWellFoundedOn(R, FiniteSubsetsOf(Nat))
  BY FS_StrictSubsetOrderingWellFounded
<1>2. T \subseteq FiniteSubsetsOf(Nat)
  <2>1. \A k \in Nat : 0 .. k \subseteq Nat /\ IsFiniteSet(0 .. k)
    BY FS_Interval
  <2>2. ASSUME NEW S \in T PROVE S \in SUBSET Nat /\ IsFiniteSet(S)
    BY <2>1
  <2> QED BY <2>2 DEF FiniteSubsetsOf
<1>3. T # {}
  OBVIOUS
<1> HIDE DEF R
<1>4. PICK S \in T : \A U \in T : ~(<<U, S>> \in R)
  <2> HIDE DEF T
  <2> QED BY <1>1, <1>2, <1>3, WFMin
<1>5. PICK k \in B : S = 0 .. k
  OBVIOUS
<1>6. ASSUME NEW j \in B, ~(k <= j) PROVE FALSE
  <2>1. j \in Nat /\ k \in Nat /\ j < k
    BY <1>6
  <2>2. 0 .. j \in T
    OBVIOUS
  <2>3. 0 .. j \subseteq 0 .. k /\ 0 .. j \subseteq Nat /\ 0 .. k \subseteq Nat /\ 0 .. j # 0 .. k
    <3>1. k \in 0 .. k /\ k \notin 0 .. j
      BY <2>1
    <3>2. 0 .. j \subseteq 0 .. k /\ 0 .. j \subseteq Nat /\ 0 .. k \subseteq Nat
      BY <2>1
    <3> QED BY <3>1, <3>2
  <2>4. <<0 .. j, 0 .. k>> \in R
    BY <2>3 DEF R, StrictSubsetOrdering
  <2> QED BY <1>4, <1>5, <2>2, <2>4
<1> QED BY <1>6

\* What holds at first and after each step holds after every step.
LEMMA Steps ==
  ASSUME NEW k \in Nat, NEW P, 0 \in P, \A c \in 1 .. k : c - 1 \in P => c \in P
  PROVE  \A c \in 0 .. k : c \in P
<1> DEFINE B == {c \in 0 .. k : c \notin P}
<1>1. SUFFICES ASSUME B # {} PROVE FALSE
  OBVIOUS
<1>2. B \subseteq Nat
  OBVIOUS
<1>3. PICK c \in B : \A j \in B : c <= j
  <2> HIDE DEF B
  <2> QED BY <1>1, <1>2, LeastOf
<1>4. c \in 1 .. k /\ c - 1 \in 0 .. k /\ ~(c <= c - 1)
  OBVIOUS
<1>5. c - 1 \in P
  BY <1>3, <1>4
<1> QED BY <1>4, <1>5

\* A loop that takes k steps from s, the n-th by F[n], has states in S.
Runs(S, k, F, s) ==
  \E f \in [0 .. k -> S] : f[0] = s /\ \A c \in 1 .. k : f[c] = F[c][f[c - 1]]

LEMMA LoopRuns ==
  ASSUME NEW S, NEW k \in Nat, NEW F \in [1 .. k -> [S -> S]], NEW s \in S
  PROVE  Runs(S, k, F, s)
<1> DEFINE Till(c, f) == f[0] = s /\ \A i \in 1 .. c : f[i] = F[i][f[i - 1]]
           P == {c \in 0 .. k : \E f \in [0 .. c -> S] : Till(c, f)}
<1>1. 0 \in P
  <2> DEFINE f == [i \in 0 .. 0 |-> s]
  <2>1. f \in [0 .. 0 -> S] /\ f[0] = s
    OBVIOUS
  <2>2. 0 \in 0 .. k /\ Till(0, f)
    BY <2>1
  <2> HIDE DEF f, Till
  <2> QED BY <2>1, <2>2
<1>2. ASSUME NEW c \in 1 .. k, c - 1 \in P PROVE c \in P
  <2>1. PICK f \in [0 .. c - 1 -> S] : Till(c - 1, f)
    BY <1>2
  <2> DEFINE x == F[c][f[c - 1]]
             g == [i \in 0 .. c |-> IF i = c THEN x ELSE f[i]]
  <2>2. x \in S
    OBVIOUS
  <2> HIDE DEF x
  <2>3. g \in [0 .. c -> S]
    BY <2>2
  <2>4. g[c] = x /\ \A i \in 0 .. c - 1 : g[i] = f[i]
    OBVIOUS
  <2> HIDE DEF g
  <2>5. ASSUME NEW i \in 1 .. c PROVE g[i] = F[i][g[i - 1]]
    <3>1. CASE i = c
      BY <2>4, <3>1 DEF x
    <3>2. CASE i # c
      <4>1. i \in 1 .. c - 1 /\ i \in 0 .. c - 1 /\ i - 1 \in 0 .. c - 1
        BY <3>2
      <4> QED BY <2>1, <2>4, <4>1
    <3> QED BY <3>1, <3>2
  <2>6. g[0] = s
    BY <2>1, <2>4
  <2>7. Till(c, g)
    BY <2>5, <2>6
  <2> HIDE DEF Till
  <2> QED BY <2>3, <2>7
<1>3. k \in P
  <2> HIDE DEF P
  <2>1. \A c \in 1 .. k : c - 1 \in P => c \in P
    BY <1>2
  <2>2. \A c \in 0 .. k : c \in P
    BY <1>1, <2>1, Steps
  <2> QED BY <2>2
<1> QED BY <1>3 DEF Runs

-----------------------------------------------------------------------------
(* Types *)

Told == [listed : BOOLEAN, known : SUBSET Nat, view : SUBSET Nat]
Session == [no : Nat, disconnect_flag : BOOLEAN, send_buf : Nat, sock : BOOLEAN, told : Told]
ChatRoom == [name : RoomNames, session_list : Seq(Nat)]
TableOf(S) == UNION {[D -> S] : D \in SUBSET Nat}

Server ==
  [session_map : TableOf(Session), disconnect_queue : Seq(Nat),
   chatRoom_map : TableOf(ChatRoom), nickName_table : [Names -> Nat],
   session_pool : Seq(Nat), id : Nat, room_id : Nat,
   down : {"no", "ghost", "no room", "roomless", "erased"}, broke : BOOLEAN]

\* What Learn reads of a message.
MessageOK(m) ==
  /\ m.type = "RES_ROOM_LIST" => m.rooms \in SUBSET Nat
  /\ m.type \in {"RES_ROOM_CREATE", "RES_ROOM_DELETE"} => m.no \in Nat
  /\ m.type = "RES_ROOM_ENTER" => m.members \in SUBSET Nat
  /\ m.type \in {"RES_USER_ENTER", "RES_ROOM_LEAVE"} => m.id \in Nat

LEMMA TableType ==
  ASSUME NEW S, NEW f
  PROVE  f \in TableOf(S) <=>
           f = [i \in DOMAIN f |-> f[i]] /\ DOMAIN f \subseteq Nat /\ \A i \in DOMAIN f : f[i] \in S
<1>1. ASSUME f \in TableOf(S)
      PROVE  f = [i \in DOMAIN f |-> f[i]] /\ DOMAIN f \subseteq Nat /\ \A i \in DOMAIN f : f[i] \in S
  <2>1. PICK D \in SUBSET Nat : f \in [D -> S]
    BY <1>1 DEF TableOf
  <2> QED BY <2>1
<1>2. ASSUME f = [i \in DOMAIN f |-> f[i]], DOMAIN f \subseteq Nat, \A i \in DOMAIN f : f[i] \in S
      PROVE  f \in TableOf(S)
  <2>1. f \in [DOMAIN f -> S]
    BY <1>2
  <2> QED BY <1>2, <2>1 DEF TableOf
<1> QED BY <1>1, <1>2

\* One entry of a table replaced.
LEMMA TableExcept ==
  ASSUME NEW S, NEW f \in TableOf(S), NEW i \in DOMAIN f, NEW x \in S
  PROVE  /\ [f EXCEPT ![i] = x] \in TableOf(S)
         /\ DOMAIN [f EXCEPT ![i] = x] = DOMAIN f
         /\ [f EXCEPT ![i] = x][i] = x
         /\ \A j \in DOMAIN f : j # i => [f EXCEPT ![i] = x][j] = f[j]
<1> DEFINE g == [f EXCEPT ![i] = x]
<1>1. /\ f = [j \in DOMAIN f |-> f[j]] /\ DOMAIN f \subseteq Nat
      /\ \A j \in DOMAIN f : f[j] \in S
  BY TableType
<1>2. /\ g = [j \in DOMAIN g |-> g[j]] /\ DOMAIN g = DOMAIN f /\ g[i] = x
      /\ \A j \in DOMAIN f : j # i => g[j] = f[j]
  BY <1>1
<1> HIDE DEF g
<1>3. \A j \in DOMAIN g : g[j] \in S
  BY <1>1, <1>2
<1>4. g \in TableOf(S)
  BY <1>1, <1>2, <1>3, TableType
<1> QED BY <1>2, <1>4 DEF g

LEMMA LearnType ==
  ASSUME NEW told \in Told, NEW i \in Nat, NEW m, MessageOK(m)
  PROVE  Learn(told, i, m) \in Told
<1>1. told.listed \in BOOLEAN /\ told.known \in SUBSET Nat /\ told.view \in SUBSET Nat
  BY DEF Told
<1>2. told = [listed |-> told.listed, known |-> told.known, view |-> told.view]
  BY DEF Told
<1> QED BY <1>1, <1>2 DEF Learn, MessageOK, Told

-----------------------------------------------------------------------------
(* Sending *)

SameTables(s, t) ==
  /\ t.chatRoom_map = s.chatRoom_map /\ t.nickName_table = s.nickName_table
  /\ t.session_pool = s.session_pool /\ t.id = s.id /\ t.room_id = s.room_id
  /\ t.broke = s.broke /\ DOMAIN t.session_map = DOMAIN s.session_map

\* What became of the queue and of session i.
Flagged(s, t, i) ==
  /\ t.session_map[i].disconnect_flag = TRUE
  /\ t.session_map[i].told = s.session_map[i].told
  /\ t.disconnect_queue = IF s.session_map[i].disconnect_flag THEN s.disconnect_queue
                          ELSE Append(s.disconnect_queue, i)

OthersKept(s, t, i) ==
  /\ t.session_map[i].no = s.session_map[i].no
  /\ t.session_map[i].sock = s.session_map[i].sock
  /\ \A j \in DOMAIN s.session_map : j # i => t.session_map[j] = s.session_map[j]

LEMMA QueueFacts ==
  ASSUME NEW s \in Server, NEW i \in DOMAIN s.session_map,
         NEW t, t = emplace_disconnect_queue(s, i)
  PROVE  /\ t \in Server /\ SameTables(s, t) /\ t.down = s.down
         /\ Flagged(s, t, i) /\ OthersKept(s, t, i)
<1> DEFINE x == [s.session_map[i] EXCEPT !.disconnect_flag = TRUE]
           f == [s.session_map EXCEPT ![i] = x]
           q == Append(s.disconnect_queue, i)
<1>1. s.session_map \in TableOf(Session) /\ s.disconnect_queue \in Seq(Nat)
  BY DEF Server
<1>2. s.session_map[i] \in Session /\ i \in Nat
  BY <1>1, TableType
<1>3. /\ x \in Session /\ x.disconnect_flag = TRUE /\ x.told = s.session_map[i].told
      /\ x.no = s.session_map[i].no /\ x.sock = s.session_map[i].sock
  BY <1>2 DEF Session
<1>4. q \in Seq(Nat)
  BY <1>1, <1>2, AppendProperties
<1>7. s.session_map[i].disconnect_flag \in BOOLEAN
  BY <1>2 DEF Session
<1>5. CASE s.session_map[i].disconnect_flag = TRUE
  <2>1. t = s
    BY <1>5 DEF emplace_disconnect_queue
  <2> QED BY <1>2, <1>5, <2>1 DEF SameTables, Flagged, OthersKept
<1>6. CASE s.session_map[i].disconnect_flag = FALSE
  <2> HIDE DEF x
  <2>1. /\ f \in TableOf(Session) /\ DOMAIN f = DOMAIN s.session_map /\ f[i] = x
        /\ \A j \in DOMAIN s.session_map : j # i => f[j] = s.session_map[j]
    BY <1>1, <1>3, TableExcept
  <2>2. t = [s EXCEPT !.session_map = f, !.disconnect_queue = q]
    BY <1>6 DEF emplace_disconnect_queue, x, Server
  <2> HIDE DEF f, q
  <2>3. /\ t \in Server /\ t.session_map = f /\ t.disconnect_queue = q /\ t.down = s.down
        /\ SameTables(s, t)
    BY <1>4, <2>1, <2>2 DEF Server, SameTables
  <2> QED BY <1>3, <1>6, <2>1, <2>3 DEF Flagged, OthersKept, q
<1> QED BY <1>5, <1>6, <1>7

\* One message: who gets it learns it, or is queued for disconnection.
LEMMA UnicastFacts ==
  ASSUME NEW s \in Server, s.down = "no", NEW i \in Nat, NEW m, MessageOK(m),
         NEW t, t = Unicast(s, i, m)
  PROVE  /\ t \in Server /\ SameTables(s, t)
         /\ i \notin DOMAIN s.session_map =>
              /\ t.session_map = s.session_map /\ t.disconnect_queue = s.disconnect_queue
              /\ t.down = "ghost"
         /\ i \in DOMAIN s.session_map =>
              /\ t.down = "no" /\ OthersKept(s, t, i)
              /\ \/ Flagged(s, t, i)
                 \/ /\ t.session_map[i].disconnect_flag = s.session_map[i].disconnect_flag
                    /\ t.session_map[i].told = Learn(s.session_map[i].told, i, m)
                    /\ t.disconnect_queue = s.disconnect_queue
<1> DEFINE x == [s.session_map[i] EXCEPT !.send_buf = @ + 1,
                                         !.told = Learn(@, i, m)]
           f == [s.session_map EXCEPT ![i] = x]
<1>1. s.session_map \in TableOf(Session) /\ s.disconnect_queue \in Seq(Nat)
  BY DEF Server
<1>2. CASE i \notin DOMAIN s.session_map
  <2>1. t = Down(s, "ghost")
    BY <1>2 DEF Unicast
  <2>2. /\ t \in Server /\ SameTables(s, t) /\ t.session_map = s.session_map
        /\ t.disconnect_queue = s.disconnect_queue /\ t.down = "ghost"
    BY <2>1 DEF Down, Server, SameTables
  <2> QED BY <1>2, <2>2
<1>3. CASE i \in DOMAIN s.session_map /\ s.session_map[i].send_buf = BufMax
  <2>1. t = emplace_disconnect_queue(s, i)
    BY <1>3 DEF Unicast
  <2> QED BY <1>3, <2>1, QueueFacts
<1>4. CASE i \in DOMAIN s.session_map /\ s.session_map[i].send_buf # BufMax
  <2>1. s.session_map[i] \in Session
    BY <1>1, <1>4, TableType
  <2>2. s.session_map[i].told \in Told
    BY <2>1 DEF Session
  <2> DEFINE told == Learn(s.session_map[i].told, i, m)
  <2>3. told \in Told
    BY <2>2, LearnType
  <2> DEFINE y == [s.session_map[i] EXCEPT !.send_buf = @ + 1]
  <2>9. /\ y \in Session /\ y.no = s.session_map[i].no /\ y.sock = s.session_map[i].sock
        /\ y.disconnect_flag = s.session_map[i].disconnect_flag
    BY <2>1 DEF Session
  <2>4. x = [y EXCEPT !.told = told]
    BY <2>1 DEF Session
  <2> HIDE DEF told, x, y
  <2>5. /\ x \in Session /\ x.told = told /\ x.no = s.session_map[i].no
        /\ x.sock = s.session_map[i].sock
        /\ x.disconnect_flag = s.session_map[i].disconnect_flag
    BY <2>3, <2>4, <2>9 DEF Session
  <2>6. /\ f \in TableOf(Session) /\ DOMAIN f = DOMAIN s.session_map /\ f[i] = x
        /\ \A j \in DOMAIN s.session_map : j # i => f[j] = s.session_map[j]
    BY <1>1, <1>4, <2>5, TableExcept
  <2>7. t = [s EXCEPT !.session_map = f]
    BY <1>4 DEF Unicast, x, Server
  <2> HIDE DEF f
  <2>8. /\ t \in Server /\ SameTables(s, t) /\ t.session_map = f /\ t.down = "no"
        /\ t.disconnect_queue = s.disconnect_queue
    BY <2>6, <2>7 DEF Server, SameTables
  <2> QED BY <1>4, <2>5, <2>6, <2>8 DEF OthersKept, told
<1> QED BY <1>2, <1>3, <1>4

\* The queue holds the sessions that are flagged, each of them once.
Queued(s) ==
  /\ IsInjective(s.disconnect_queue)
  /\ ToSet(s.disconnect_queue) = {i \in DOMAIN s.session_map : s.session_map[i].disconnect_flag}

\* One more at the end of a list.
LEMMA PushBack ==
  ASSUME NEW V, NEW s \in Seq(V), NEW e \in V
  PROVE  /\ Append(s, e) \in Seq(V) /\ Len(Append(s, e)) = Len(s) + 1 /\ Len(s) \in Nat
         /\ ToSet(Append(s, e)) = ToSet(s) \union {e}
         /\ IsInjective(s) /\ e \notin ToSet(s) => IsInjective(Append(s, e))
<1> DEFINE r == Append(s, e)
<1>1. /\ r \in Seq(V) /\ Len(r) = Len(s) + 1
      /\ \A i \in 1 .. Len(s) : r[i] = s[i]
      /\ r[Len(s) + 1] = e
  BY AppendProperties
<1> HIDE DEF r
<1>2. Len(s) \in Nat /\ DOMAIN s = 1 .. Len(s) /\ DOMAIN r = 1 .. Len(s) + 1
  BY <1>1, LenProperties
<1>3. 1 .. Len(s) + 1 = (1 .. Len(s)) \union {Len(s) + 1} /\ Len(s) + 1 \notin 1 .. Len(s)
  BY <1>2
<1>4. \A x : x \in ToSet(r) <=> x \in ToSet(s) \union {e}
  BY <1>1, <1>2, <1>3 DEF ToSet
<1>5. ToSet(r) = ToSet(s) \union {e}
  BY <1>4
<1>6. ASSUME IsInjective(s), e \notin ToSet(s) PROVE IsInjective(r)
  <2>1. \A i \in 1 .. Len(s) : s[i] # e
    BY <1>2, <1>6 DEF ToSet
  <2> QED BY <1>1, <1>2, <1>3, <1>6, <2>1 DEF IsInjective
<1> QED BY <1>1, <1>2, <1>5, <1>6 DEF r

\* t is s after message m was sent to the ids of J, one after the other.
Reached(s, t, J, m) ==
  LET live == DOMAIN s.session_map IN
  /\ t \in Server /\ SameTables(s, t)
  /\ t.down \in {"no", "ghost"}
  /\ t.down = "ghost" => \E j \in J : j \notin live
  /\ t.down = "no" => J \subseteq live
  /\ Queued(s) => Queued(t)
  /\ \A i \in live :
       /\ t.session_map[i].no = s.session_map[i].no
       /\ t.session_map[i].sock = s.session_map[i].sock
       /\ s.session_map[i].disconnect_flag => t.session_map[i].disconnect_flag
       /\ i \notin J => t.session_map[i] = s.session_map[i]
       /\ i \in J /\ t.down = "no" =>
            \/ t.session_map[i].disconnect_flag
            \/ t.session_map[i].told = Learn(s.session_map[i].told, i, m)

LEMMA ReachedNone ==
  ASSUME NEW s \in Server, s.down = "no", NEW m
  PROVE  Reached(s, s, {}, m)
BY DEF Reached, SameTables

\* The flag is a truth value.
LEMMA SessionOf ==
  ASSUME NEW s \in Server
  PROVE  \A i \in DOMAIN s.session_map :
           /\ i \in Nat /\ s.session_map[i] \in Session
           /\ s.session_map[i].disconnect_flag \in BOOLEAN
           /\ s.session_map[i].no \in Nat /\ s.session_map[i].told \in Told
<1>1. s.session_map \in TableOf(Session)
  BY DEF Server
<1>2. \A i \in DOMAIN s.session_map : i \in Nat /\ s.session_map[i] \in Session
  BY <1>1, TableType
<1> QED BY <1>2 DEF Session

LEMMA QueuedMore ==
  ASSUME NEW s \in Server, NEW t \in Server, Queued(s), NEW i \in DOMAIN s.session_map,
         SameTables(s, t), Flagged(s, t, i), OthersKept(s, t, i)
  PROVE  Queued(t)
<1> DEFINE q == s.disconnect_queue
           r == t.disconnect_queue
<1>1. q \in Seq(Nat) /\ i \in Nat
  BY SessionOf DEF Server
<1>2. /\ DOMAIN t.session_map = DOMAIN s.session_map
      /\ t.session_map[i].disconnect_flag = TRUE
      /\ \A j \in DOMAIN s.session_map : j # i => t.session_map[j] = s.session_map[j]
      /\ r = IF s.session_map[i].disconnect_flag THEN q ELSE Append(q, i)
  BY DEF SameTables, Flagged, OthersKept
<1>3. /\ \A j \in DOMAIN s.session_map : s.session_map[j].disconnect_flag \in BOOLEAN
      /\ \A j \in DOMAIN t.session_map : t.session_map[j].disconnect_flag \in BOOLEAN
  BY SessionOf
<1>4. IsInjective(q) /\ ToSet(q) = {j \in DOMAIN s.session_map : s.session_map[j].disconnect_flag}
  BY DEF Queued
<1>5. ASSUME s.session_map[i].disconnect_flag = TRUE
      PROVE  IsInjective(r) /\ ToSet(r) = ToSet(q) \union {i}
  BY <1>2, <1>4, <1>5
<1>6. ASSUME s.session_map[i].disconnect_flag = FALSE
      PROVE  IsInjective(r) /\ ToSet(r) = ToSet(q) \union {i}
  <2>1. i \notin ToSet(q) /\ r = Append(q, i)
    BY <1>2, <1>4, <1>6
  <2> QED BY <1>1, <1>4, <2>1, PushBack
<1>7. IsInjective(r) /\ ToSet(r) = ToSet(q) \union {i}
  BY <1>3, <1>5, <1>6
<1>8. \A j : j \in ToSet(r) <=>
               j \in DOMAIN t.session_map /\ t.session_map[j].disconnect_flag
  BY <1>2, <1>4, <1>7
<1> HIDE DEF q, r
<1>9. ToSet(r) = {j \in DOMAIN t.session_map : t.session_map[j].disconnect_flag}
  BY <1>8
<1> QED BY <1>7, <1>9 DEF Queued, r

LEMMA ReachedMore ==
  ASSUME NEW s \in Server, NEW t, NEW J, NEW m, MessageOK(m), Reached(s, t, J, m),
         NEW i \in Nat \ J
  PROVE  Reached(s, Unicast(t, i, m), J \union {i}, m)
<1> DEFINE u == Unicast(t, i, m)
<1>1. /\ t \in Server /\ SameTables(s, t) /\ t.down \in {"no", "ghost"}
      /\ DOMAIN t.session_map = DOMAIN s.session_map
  BY DEF Reached, SameTables
<1>2. CASE t.down # "no"
  <2>1. u = t
    BY <1>2 DEF Unicast
  <2> HIDE DEF u
  <2> QED BY <1>1, <1>2, <2>1 DEF Reached, u
<1>3. CASE t.down = "no" /\ i \notin DOMAIN s.session_map
  <2>1. /\ u \in Server /\ SameTables(t, u) /\ u.down = "ghost"
        /\ u.session_map = t.session_map /\ u.disconnect_queue = t.disconnect_queue
    BY <1>1, <1>3, UnicastFacts
  <2> HIDE DEF u
  <2>2. Queued(t) => Queued(u)
    BY <2>1 DEF Queued
  <2> QED BY <1>1, <1>3, <2>1, <2>2 DEF Reached, SameTables, u
<1>4. CASE t.down = "no" /\ i \in DOMAIN s.session_map
  <2>1. /\ u \in Server /\ SameTables(t, u) /\ u.down = "no" /\ OthersKept(t, u, i)
        /\ \/ Flagged(t, u, i)
           \/ /\ u.session_map[i].disconnect_flag = t.session_map[i].disconnect_flag
              /\ u.session_map[i].told = Learn(t.session_map[i].told, i, m)
              /\ u.disconnect_queue = t.disconnect_queue
    BY <1>1, <1>4, UnicastFacts
  <2> HIDE DEF u
  <2>2. Queued(t) => Queued(u)
    <3>1. CASE Flagged(t, u, i)
      BY <1>1, <1>4, <2>1, <3>1, QueuedMore
    <3>2. CASE /\ u.session_map[i].disconnect_flag = t.session_map[i].disconnect_flag
               /\ u.disconnect_queue = t.disconnect_queue
      <4>1. /\ DOMAIN u.session_map = DOMAIN t.session_map
            /\ \A j \in DOMAIN t.session_map :
                 u.session_map[j].disconnect_flag = t.session_map[j].disconnect_flag
        BY <2>1, <3>2 DEF SameTables, OthersKept
      <4> QED BY <3>2, <4>1 DEF Queued
    <3> QED BY <2>1, <3>1, <3>2
  <2>3. t.session_map[i] = s.session_map[i]
    BY <1>4 DEF Reached
  <2>4. SameTables(s, u)
    BY <1>1, <2>1 DEF SameTables
  <2>5. \A j \in DOMAIN s.session_map :
          /\ u.session_map[j].no = s.session_map[j].no
          /\ u.session_map[j].sock = s.session_map[j].sock
          /\ s.session_map[j].disconnect_flag => u.session_map[j].disconnect_flag
          /\ j \notin J \union {i} => u.session_map[j] = s.session_map[j]
          /\ j \in J \union {i} =>
               \/ u.session_map[j].disconnect_flag
               \/ u.session_map[j].told = Learn(s.session_map[j].told, j, m)
    <3> TAKE j \in DOMAIN s.session_map
    <3>1. CASE j = i
      BY <1>1, <1>4, <2>1, <2>3, <3>1 DEF OthersKept, Flagged
    <3>2. CASE j # i
      <4>1. u.session_map[j] = t.session_map[j]
        BY <1>1, <2>1, <3>2 DEF OthersKept
      <4> QED BY <1>4, <3>2, <4>1 DEF Reached
    <3> QED BY <3>1, <3>2
  <2>6. J \union {i} \subseteq DOMAIN s.session_map
    BY <1>4 DEF Reached
  <2>7. Queued(s) => Queued(u)
    BY <2>2 DEF Reached
  <2> QED BY <2>1, <2>4, <2>5, <2>6, <2>7 DEF Reached, u
<1> QED BY <1>1, <1>2, <1>3, <1>4

LEMMA UnicastType ==
  ASSUME NEW s \in Server, NEW i \in Nat, NEW m, MessageOK(m)
  PROVE  Unicast(s, i, m) \in Server
<1>1. CASE s.down = "no"
  BY <1>1, UnicastFacts
<1>2. CASE s.down # "no"
  BY <1>2 DEF Unicast
<1> QED BY <1>1, <1>2

UnicastStep(s, ids, m, g, c) == IF c = 0 THEN s ELSE Unicast(g[c - 1], ids[c], m)

Sendings(s, ids, m) == CHOOSE g : g = [c \in 0 .. Len(ids) |-> UnicastStep(s, ids, m, g, c)]

LEMMA UnicastAllSends ==
  ASSUME NEW s, NEW ids, NEW m
  PROVE  UnicastAll(s, ids, m) = Sendings(s, ids, m)[Len(ids)]
BY DEF UnicastAll, Sendings, UnicastStep

\* A message to a list of ids, each of them once.
LEMMA UnicastAllReaches ==
  ASSUME NEW s \in Server, s.down = "no", NEW ids \in Seq(Nat), IsInjective(ids),
         NEW m, MessageOK(m)
  PROVE  Reached(s, UnicastAll(s, ids, m), ToSet(ids), m)
<1> DEFINE k == Len(ids)
           F == [c \in 1 .. k |-> [t \in Server |-> Unicast(t, ids[c], m)]]
<1>1. k \in Nat /\ DOMAIN ids = 1 .. k /\ \A c \in 1 .. k : ids[c] \in Nat
  BY LenProperties, ElementOfSeq
<1>2. F \in [1 .. k -> [Server -> Server]]
  BY <1>1, UnicastType
<1>3. PICK f \in [0 .. k -> Server] : f[0] = s /\ \A c \in 1 .. k : f[c] = F[c][f[c - 1]]
  <2>1. k \in Nat /\ F \in [1 .. k -> [Server -> Server]] /\ s \in Server
    BY <1>1, <1>2
  <2> HIDE DEF F, k
  <2>2. Runs(Server, k, F, s)
    BY <2>1, LoopRuns
  <2> QED BY <2>2, Zenon DEF Runs
<1>4. \A c \in 1 .. k : f[c] = Unicast(f[c - 1], ids[c], m)
  <2> TAKE c \in 1 .. k
  <2>1. c - 1 \in 0 .. k
    BY <1>1
  <2>2. f[c - 1] \in Server
    BY <2>1
  <2> QED BY <1>3, <2>2
<1> HIDE DEF F, k
<1>5. \A c \in 0 .. k : f[c] = UnicastStep(s, ids, m, f, c)
  <2> TAKE c \in 0 .. k
  <2>1. c # 0 => c \in 1 .. k
    BY <1>1
  <2> QED BY <1>3, <1>4, <2>1 DEF UnicastStep
<1>6. f = [c \in 0 .. Len(ids) |-> UnicastStep(s, ids, m, f, c)]
  BY <1>5 DEF k
<1> DEFINE g == Sendings(s, ids, m)
<1>7. g = [c \in 0 .. Len(ids) |-> UnicastStep(s, ids, m, g, c)]
  BY <1>6, Zenon DEF Sendings
<1> HIDE DEF g
<1>8. /\ g[0] = s
      /\ \A c \in 1 .. k : g[c] = Unicast(g[c - 1], ids[c], m)
  <2>1. \A c \in 0 .. k : g[c] = UnicastStep(s, ids, m, g, c)
    BY <1>7 DEF k
  <2>2. 0 \in 0 .. k /\ \A c \in 1 .. k : c \in 0 .. k /\ c # 0
    BY <1>1
  <2> QED BY <2>1, <2>2 DEF UnicastStep
<1> DEFINE First(c) == {ids[i] : i \in 1 .. c}
           P == {c \in 0 .. k : Reached(s, g[c], First(c), m)}
<1>9. 0 \in P
  <2>1. First(0) = {}
    OBVIOUS
  <2>2. 0 \in 0 .. k
    BY <1>1
  <2> HIDE DEF First
  <2> QED BY <1>8, <2>1, <2>2, ReachedNone
<1>10. ASSUME NEW c \in 1 .. k, c - 1 \in P PROVE c \in P
  <2>1. c \in 1 .. k /\ c \in 0 .. k /\ Reached(s, g[c - 1], First(c - 1), m)
    BY <1>1, <1>10
  <2>2. First(c) = First(c - 1) \union {ids[c]}
    <3>1. 1 .. c = (1 .. c - 1) \union {c}
      BY <1>1, <2>1
    <3> QED BY <3>1
  <2>3. ids[c] \notin First(c - 1)
    <3>1. \A i \in 1 .. c - 1 : i \in 1 .. k /\ i # c
      BY <1>1, <2>1
    <3> QED BY <1>1, <2>1, <3>1 DEF IsInjective
  <2>4. ids[c] \in Nat
    BY <1>1, <2>1
  <2> HIDE DEF First
  <2>5. Reached(s, Unicast(g[c - 1], ids[c], m), First(c - 1) \union {ids[c]}, m)
    BY <2>1, <2>3, <2>4, ReachedMore
  <2> QED BY <1>8, <2>1, <2>2, <2>5
<1>11. k \in P
  <2> HIDE DEF P
  <2>1. \A c \in 1 .. k : c - 1 \in P => c \in P
    BY <1>10
  <2>2. \A c \in 0 .. k : c \in P
    BY <1>1, <1>9, <2>1, Steps
  <2>3. k \in 0 .. k
    BY <1>1
  <2> QED BY <2>2, <2>3
<1>12. First(k) = ToSet(ids)
  BY <1>1 DEF ToSet
<1>13. Reached(s, g[k], First(k), m)
  BY <1>11
<1> HIDE DEF First
<1> QED BY <1>12, <1>13, UnicastAllSends DEF g, k

-----------------------------------------------------------------------------
(* Leaving out *)

OthersStep(q, id, g, c) ==
  IF c = 0 THEN <<>> ELSE IF q[c] = id THEN g[c - 1] ELSE Append(g[c - 1], q[c])

OthersWalk(q, id) == CHOOSE g : g = [c \in 0 .. Len(q) |-> OthersStep(q, id, g, c)]

LEMMA OthersWalks ==
  ASSUME NEW q, NEW id
  PROVE  Others(q, id) = OthersWalk(q, id)[Len(q)]
BY DEF Others, OthersWalk, OthersStep

\* A list without an id: the rest, each as often as before.
LEMMA OthersFacts ==
  ASSUME NEW V, NEW q \in Seq(V), NEW id
  PROVE  /\ Others(q, id) \in Seq(V) /\ ToSet(Others(q, id)) = ToSet(q) \ {id}
         /\ IsInjective(q) => IsInjective(Others(q, id))
<1> DEFINE k == Len(q)
           F == [c \in 1 .. k |-> [r \in Seq(V) |-> IF q[c] = id THEN r ELSE Append(r, q[c])]]
<1>1. k \in Nat /\ DOMAIN q = 1 .. k /\ \A c \in 1 .. k : q[c] \in V
  BY LenProperties, ElementOfSeq
<1>2. F \in [1 .. k -> [Seq(V) -> Seq(V)]]
  BY <1>1, AppendProperties
<1>3. PICK f \in [0 .. k -> Seq(V)] : f[0] = <<>> /\ \A c \in 1 .. k : f[c] = F[c][f[c - 1]]
  <2>1. k \in Nat /\ F \in [1 .. k -> [Seq(V) -> Seq(V)]] /\ <<>> \in Seq(V)
    BY <1>1, <1>2, EmptySeq
  <2> HIDE DEF F, k
  <2>2. Runs(Seq(V), k, F, <<>>)
    BY <2>1, LoopRuns
  <2> QED BY <2>2, Zenon DEF Runs
<1>4. \A c \in 1 .. k :
        f[c] = IF q[c] = id THEN f[c - 1] ELSE Append(f[c - 1], q[c])
  <2> TAKE c \in 1 .. k
  <2>1. c - 1 \in 0 .. k
    BY <1>1
  <2>2. f[c - 1] \in Seq(V)
    BY <2>1
  <2> QED BY <1>3, <2>2
<1> HIDE DEF F, k
<1>5. \A c \in 0 .. k : f[c] = OthersStep(q, id, f, c)
  <2> TAKE c \in 0 .. k
  <2>1. c # 0 => c \in 1 .. k
    BY <1>1
  <2> QED BY <1>3, <1>4, <2>1 DEF OthersStep
<1>6. f = [c \in 0 .. Len(q) |-> OthersStep(q, id, f, c)]
  BY <1>5 DEF k
<1> DEFINE g == OthersWalk(q, id)
<1>7. g = [c \in 0 .. Len(q) |-> OthersStep(q, id, g, c)]
  BY <1>6, Zenon DEF OthersWalk
<1> HIDE DEF g
<1>8. /\ g[0] = <<>>
      /\ \A c \in 1 .. k : g[c] = IF q[c] = id THEN g[c - 1] ELSE Append(g[c - 1], q[c])
  <2>1. \A c \in 0 .. k : g[c] = OthersStep(q, id, g, c)
    BY <1>7 DEF k
  <2>2. 0 \in 0 .. k /\ \A c \in 1 .. k : c \in 0 .. k /\ c # 0
    BY <1>1
  <2> QED BY <2>1, <2>2 DEF OthersStep
<1> DEFINE First(c) == {q[i] : i \in 1 .. c}
           Right(c) == /\ g[c] \in Seq(V) /\ ToSet(g[c]) = First(c) \ {id}
                       /\ IsInjective(q) => IsInjective(g[c])
           P == {c \in 0 .. k : Right(c)}
<1>9. 0 \in P
  <2>1. First(0) = {} /\ 0 \in 0 .. k
    BY <1>1
  <2>2. <<>> \in Seq(V) /\ ToSet(<<>>) = {} /\ IsInjective(<<>>)
    BY EmptySeq DEF ToSet, IsInjective
  <2> HIDE DEF First
  <2> QED BY <1>8, <2>1, <2>2
<1>10. ASSUME NEW c \in 1 .. k, c - 1 \in P PROVE c \in P
  <2>1. c \in 1 .. k /\ c \in 0 .. k /\ Right(c - 1) /\ q[c] \in V
    BY <1>1, <1>10
  <2>2. First(c) = First(c - 1) \union {q[c]}
    <3>1. 1 .. c = (1 .. c - 1) \union {c}
      BY <1>1, <2>1
    <3> QED BY <3>1
  <2>3. IsInjective(q) => q[c] \notin First(c - 1)
    <3>1. \A i \in 1 .. c - 1 : i \in 1 .. k /\ i # c
      BY <1>1, <2>1
    <3> QED BY <1>1, <2>1, <3>1 DEF IsInjective
  <2> HIDE DEF First
  <2>4. CASE q[c] = id
    BY <1>8, <2>1, <2>2, <2>4
  <2>5. CASE q[c] # id
    <3>1. g[c] = Append(g[c - 1], q[c])
      BY <1>8, <2>1, <2>5
    <3>2. /\ g[c] \in Seq(V) /\ ToSet(g[c]) = ToSet(g[c - 1]) \union {q[c]}
          /\ IsInjective(g[c - 1]) /\ q[c] \notin ToSet(g[c - 1]) => IsInjective(g[c])
      BY <2>1, <3>1, PushBack
    <3> QED BY <2>1, <2>2, <2>3, <2>5, <3>2
  <2> QED BY <2>4, <2>5
<1>11. k \in P
  <2> HIDE DEF P
  <2>1. \A c \in 1 .. k : c - 1 \in P => c \in P
    BY <1>10
  <2>2. \A c \in 0 .. k : c \in P
    BY <1>1, <1>9, <2>1, Steps
  <2>3. k \in 0 .. k
    BY <1>1
  <2> QED BY <2>2, <2>3
<1>12. First(k) = ToSet(q)
  BY <1>1 DEF ToSet
<1>13. Right(k)
  BY <1>11
<1> HIDE DEF First
<1> QED BY <1>12, <1>13, OthersWalks DEF g, k

\* t is s after the sessions of J were freed.
Erased(s, t, J) ==
  /\ t \in Server
  /\ t.disconnect_queue = s.disconnect_queue /\ t.chatRoom_map = s.chatRoom_map
  /\ t.nickName_table = s.nickName_table /\ t.id = s.id /\ t.room_id = s.room_id
  /\ t.down = s.down
  /\ DOMAIN t.session_map = DOMAIN s.session_map \ J
  /\ \A i \in DOMAIN t.session_map : t.session_map[i] = s.session_map[i]
  /\ ToSet(t.session_pool) =
       ToSet(s.session_pool) \union {s.session_map[j].no : j \in J}
  /\ t.broke = (s.broke \/ \E j \in J : s.session_map[j].no # 0)

LEMMA PushFront ==
  ASSUME NEW V, NEW s \in Seq(V), NEW e \in V
  PROVE  /\ <<e>> \o s \in Seq(V) /\ ToSet(<<e>> \o s) = ToSet(s) \union {e}
<1> DEFINE r == <<e>> \o s
<1>1. <<e>> \in Seq(V) /\ Len(<<e>>) = 1 /\ <<e>>[1] = e
  OBVIOUS
<1>2. /\ r \in Seq(V) /\ Len(r) = 1 + Len(s)
      /\ \A i \in 1 .. Len(r) : r[i] = IF i <= 1 THEN <<e>>[i] ELSE s[i - 1]
  BY <1>1, ConcatProperties
<1> HIDE DEF r
<1>3. Len(s) \in Nat /\ DOMAIN s = 1 .. Len(s) /\ DOMAIN r = 1 .. 1 + Len(s)
  BY <1>2, LenProperties
<1>4. r[1] = e /\ \A i \in 1 .. Len(s) : r[i + 1] = s[i] /\ i + 1 \in 1 .. 1 + Len(s)
  <2>1. 1 \in 1 .. Len(r)
    BY <1>2, <1>3
  <2>2. \A i \in 1 .. Len(s) : i + 1 \in 1 .. Len(r) /\ ~(i + 1 <= 1) /\ (i + 1) - 1 = i
    BY <1>2, <1>3
  <2> QED BY <1>1, <1>2, <2>1, <2>2
<1>5. \A i \in 1 .. 1 + Len(s) : i = 1 \/ \E j \in 1 .. Len(s) : i = j + 1
  <2> TAKE i \in 1 .. 1 + Len(s)
  <2>1. i # 1 => i - 1 \in 1 .. Len(s) /\ i = (i - 1) + 1
    BY <1>3
  <2> QED BY <2>1
<1>6. \A x : x \in ToSet(r) <=> x \in ToSet(s) \union {e}
  <2>1. 1 \in DOMAIN r
    BY <1>3
  <2> QED BY <1>3, <1>4, <1>5, <2>1 DEF ToSet
<1>7. ToSet(r) = ToSet(s) \union {e}
  BY <1>6
<1> QED BY <1>2, <1>7 DEF r

LEMMA ErasedMore ==
  ASSUME NEW s \in Server, NEW t, NEW J, Erased(s, t, J),
         NEW i \in DOMAIN s.session_map \ J
  PROVE  Erased(s, Erase(t, i), J \union {i})
<1> DEFINE u == Erase(t, i)
           f == [j \in DOMAIN t.session_map \ {i} |-> t.session_map[j]]
           pool == <<Room(t, i)>> \o t.session_pool
           broke == t.broke \/ Room(t, i) # 0
<1>1. t \in Server /\ i \in DOMAIN t.session_map /\ t.session_map[i] = s.session_map[i]
  BY DEF Erased
<1>2. Room(t, i) = s.session_map[i].no /\ Room(t, i) \in Nat
  BY <1>1, SessionOf DEF Room
<1>3. t.session_map \in TableOf(Session) /\ t.session_pool \in Seq(Nat) /\ t.broke \in BOOLEAN
  BY <1>1 DEF Server
<1>4. f \in TableOf(Session)
  <2>1. f = [j \in DOMAIN f |-> f[j]] /\ DOMAIN f \subseteq DOMAIN t.session_map
        /\ \A j \in DOMAIN f : f[j] = t.session_map[j]
    OBVIOUS
  <2>2. DOMAIN t.session_map \subseteq Nat /\ \A j \in DOMAIN t.session_map : t.session_map[j] \in Session
    BY <1>3, TableType
  <2> HIDE DEF f
  <2>3. DOMAIN f \subseteq Nat /\ \A j \in DOMAIN f : f[j] \in Session
    BY <2>1, <2>2
  <2> QED BY <2>1, <2>3, TableType
<1>5. pool \in Seq(Nat) /\ ToSet(pool) = ToSet(t.session_pool) \union {Room(t, i)}
  BY <1>2, <1>3, PushFront
<1>6. /\ DOMAIN f = DOMAIN t.session_map \ {i}
      /\ \A j \in DOMAIN f : f[j] = t.session_map[j]
  OBVIOUS
<1>7. broke \in BOOLEAN /\ broke = (t.broke \/ Room(t, i) # 0)
  BY <1>3
<1>8. u = [t EXCEPT !.session_map = f, !.session_pool = pool, !.broke = broke]
  BY DEF Erase
<1> HIDE DEF f, pool, broke, u
<1>9. /\ u \in Server /\ u.session_map = f /\ u.session_pool = pool /\ u.broke = broke
      /\ u.disconnect_queue = t.disconnect_queue /\ u.chatRoom_map = t.chatRoom_map
      /\ u.nickName_table = t.nickName_table /\ u.id = t.id /\ u.room_id = t.room_id
      /\ u.down = t.down
  BY <1>1, <1>4, <1>5, <1>7, <1>8 DEF Server
<1>10. {s.session_map[j].no : j \in J \union {i}} =
         {s.session_map[j].no : j \in J} \union {s.session_map[i].no}
  OBVIOUS
<1>11. DOMAIN u.session_map = DOMAIN s.session_map \ (J \union {i})
  BY <1>6, <1>9 DEF Erased
<1>12. \A j \in DOMAIN u.session_map : u.session_map[j] = s.session_map[j]
  BY <1>6, <1>9 DEF Erased
<1>13. ToSet(u.session_pool) =
         ToSet(s.session_pool) \union {s.session_map[j].no : j \in J \union {i}}
  BY <1>2, <1>5, <1>9, <1>10 DEF Erased
<1>14. u.broke = (s.broke \/ \E j \in J \union {i} : s.session_map[j].no # 0)
  BY <1>2, <1>7, <1>9 DEF Erased
<1> QED BY <1>9, <1>11, <1>12, <1>13, <1>14 DEF Erased, u

LEMMA ErasedRun ==
  ASSUME NEW s \in Server, NEW ids \in Seq(Nat), IsInjective(ids),
         ToSet(ids) \subseteq DOMAIN s.session_map, NEW g, g[0] = s,
         \A c \in 1 .. Len(ids) :
           ids[c] \in DOMAIN g[c - 1].session_map => g[c] = Erase(g[c - 1], ids[c])
  PROVE  /\ \A c \in 1 .. Len(ids) : ids[c] \in DOMAIN g[c - 1].session_map
         /\ Erased(s, g[Len(ids)], ToSet(ids))
<1> DEFINE k == Len(ids)
           First(c) == {ids[i] : i \in 1 .. c}
           P == {c \in 0 .. k : Erased(s, g[c], First(c))}
<1>1. k \in Nat /\ DOMAIN ids = 1 .. k /\ \A c \in 1 .. k : ids[c] \in Nat
  BY LenProperties, ElementOfSeq
<1>2. 0 \in P
  <2>1. First(0) = {} /\ 0 \in 0 .. k
    BY <1>1
  <2>2. Erased(s, s, {})
    <3>1. s.broke \in BOOLEAN
      BY DEF Server
    <3> QED BY <3>1 DEF Erased
  <2> HIDE DEF First
  <2> QED BY <2>1, <2>2
<1>3. ASSUME NEW c \in 1 .. k, c - 1 \in P
      PROVE  c \in P /\ ids[c] \in DOMAIN g[c - 1].session_map
  <2>1. c \in 1 .. k /\ c \in 0 .. k /\ Erased(s, g[c - 1], First(c - 1))
    <3>1. c \in 1 .. k /\ c \in 0 .. k
      BY <1>1
    <3> HIDE DEF First, k
    <3> QED BY <1>3, <3>1
  <2>2. First(c) = First(c - 1) \union {ids[c]}
    <3>1. 1 .. c = (1 .. c - 1) \union {c}
      BY <1>1, <2>1
    <3> QED BY <3>1
  <2>3. ids[c] \notin First(c - 1)
    <3>1. \A i \in 1 .. c - 1 : i \in 1 .. k /\ i # c
      BY <1>1, <2>1
    <3> QED BY <1>1, <2>1, <3>1 DEF IsInjective
  <2>4. ids[c] \in DOMAIN s.session_map
    BY <1>1, <2>1 DEF ToSet
  <2> HIDE DEF First
  <2>5. ids[c] \in DOMAIN g[c - 1].session_map
    BY <2>1, <2>3, <2>4 DEF Erased
  <2>6. g[c] = Erase(g[c - 1], ids[c])
    BY <2>5
  <2>7. Erased(s, Erase(g[c - 1], ids[c]), First(c - 1) \union {ids[c]})
    BY <2>1, <2>3, <2>4, ErasedMore
  <2> QED BY <2>1, <2>2, <2>5, <2>6, <2>7
<1>4. \A c \in 0 .. k : c \in P
  <2> HIDE DEF P
  <2>1. \A c \in 1 .. k : c - 1 \in P => c \in P
    BY <1>3
  <2> QED BY <1>1, <1>2, <2>1, Steps
<1>5. \A c \in 1 .. k : ids[c] \in DOMAIN g[c - 1].session_map
  <2> HIDE DEF P
  <2>1. \A c \in 1 .. k : c - 1 \in 0 .. k
    BY <1>1
  <2> QED BY <1>3, <1>4, <2>1
<1>6. First(k) = ToSet(ids)
  BY <1>1 DEF ToSet
<1>7. Erased(s, g[k], First(k))
  <2>1. k \in 0 .. k
    BY <1>1
  <2> QED BY <1>4, <2>1
<1> HIDE DEF First
<1> QED BY <1>5, <1>6, <1>7

EraseStep(s, ids, g, c) == IF c = 0 THEN s ELSE Erase(g[c - 1], ids[c])

Erasings(s, ids) == CHOOSE g : g = [c \in 0 .. Len(ids) |-> EraseStep(s, ids, g, c)]

LEMMA EraseAllWalks ==
  ASSUME NEW s, NEW ids
  PROVE  EraseAll(s, ids) = Erasings(s, ids)[Len(ids)]
BY DEF EraseAll, Erasings, EraseStep

LEMMA EraseType ==
  ASSUME NEW s \in Server, NEW i \in DOMAIN s.session_map
  PROVE  Erase(s, i) \in Server
<1>1. s.broke \in BOOLEAN
  BY DEF Server
<1>2. Erased(s, s, {})
  BY <1>1 DEF Erased
<1>3. Erased(s, Erase(s, i), {} \union {i})
  BY <1>2, ErasedMore
<1> QED BY <1>3 DEF Erased

\* The disconnect pass frees all the sessions of a list.
LEMMA EraseAllErases ==
  ASSUME NEW s \in Server, NEW ids \in Seq(Nat), IsInjective(ids),
         ToSet(ids) \subseteq DOMAIN s.session_map
  PROVE  Erased(s, EraseAll(s, ids), ToSet(ids))
<1> DEFINE k == Len(ids)
           F == [c \in 1 .. k |-> [t \in Server |->
                   IF ids[c] \in DOMAIN t.session_map THEN Erase(t, ids[c]) ELSE t]]
<1>1. k \in Nat
  BY LenProperties
<1>2. F \in [1 .. k -> [Server -> Server]]
  BY EraseType
<1>3. PICK f \in [0 .. k -> Server] : f[0] = s /\ \A c \in 1 .. k : f[c] = F[c][f[c - 1]]
  <2>1. k \in Nat /\ F \in [1 .. k -> [Server -> Server]] /\ s \in Server
    BY <1>1, <1>2
  <2> HIDE DEF F, k
  <2>2. Runs(Server, k, F, s)
    BY <2>1, LoopRuns
  <2> QED BY <2>2, Zenon DEF Runs
<1>4. \A c \in 1 .. k :
        ids[c] \in DOMAIN f[c - 1].session_map => f[c] = Erase(f[c - 1], ids[c])
  <2> TAKE c \in 1 .. k
  <2>1. c - 1 \in 0 .. k
    BY <1>1
  <2>2. f[c - 1] \in Server
    BY <2>1
  <2> QED BY <1>3, <2>2
<1> HIDE DEF F
<1>5. \A c \in 1 .. k : f[c] = Erase(f[c - 1], ids[c])
  BY <1>3, <1>4, ErasedRun
<1> HIDE DEF k
<1>6. \A c \in 0 .. k : f[c] = EraseStep(s, ids, f, c)
  <2> TAKE c \in 0 .. k
  <2>1. c # 0 => c \in 1 .. k
    BY <1>1
  <2> QED BY <1>3, <1>5, <2>1 DEF EraseStep
<1>7. f = [c \in 0 .. Len(ids) |-> EraseStep(s, ids, f, c)]
  BY <1>6 DEF k
<1> DEFINE g == Erasings(s, ids)
<1>8. g = [c \in 0 .. Len(ids) |-> EraseStep(s, ids, g, c)]
  BY <1>7, Zenon DEF Erasings
<1> HIDE DEF g
<1>9. /\ g[0] = s
      /\ \A c \in 1 .. Len(ids) : g[c] = Erase(g[c - 1], ids[c])
  <2>1. \A c \in 0 .. k : g[c] = EraseStep(s, ids, g, c)
    BY <1>8 DEF k
  <2>2. 0 \in 0 .. k /\ \A c \in 1 .. k : c \in 0 .. k /\ c # 0
    BY <1>1
  <2> QED BY <2>1, <2>2 DEF EraseStep, k
<1>10. Erased(s, g[Len(ids)], ToSet(ids))
  BY <1>9, ErasedRun
<1> QED BY <1>10, EraseAllWalks DEF g

-----------------------------------------------------------------------------
(* What is always true of the server's tables *)

Rooms(s) == DOMAIN s.chatRoom_map
Sessions(s) == DOMAIN s.session_map

\* Ids and room numbers are given out once, from 1.
Numbers(s) ==
  /\ s.id >= 1 /\ s.room_id >= 1
  /\ \A i \in Sessions(s) : 1 <= i /\ i < s.id
  /\ \A no \in Rooms(s) : 1 <= no /\ no < s.room_id

\* A session is in one room at most, and there once.
Lists(s) ==
  \A no \in Rooms(s) :
    /\ IsInjective(Members(s, no))
    /\ \A i \in ToSet(Members(s, no)) : i < s.id /\ (i \in Sessions(s) => Room(s, i) = no)

\* Until a session is freed in a room: who is in a room is in its list, who
\* is in a list is there, and a pooled session is in no room.
Agree(s) ==
  ~s.broke =>
    /\ ToSet(s.session_pool) \subseteq {0}
    /\ \A no \in Rooms(s) : ToSet(Members(s, no)) \subseteq Sessions(s)
    /\ \A i \in Sessions(s) :
         Room(s, i) # 0 => Room(s, i) \in Rooms(s) /\ i \in ToSet(Members(s, Room(s, i)))
    /\ s.down # "ghost"

Sound(s) == s \in Server /\ Numbers(s) /\ Queued(s) /\ Lists(s) /\ Agree(s)

\* Client i would be right to believe told.
Right(s, i, told) ==
  /\ told.known \subseteq Rooms(s)
  /\ told.listed => told.known = Rooms(s)
  /\ ~s.broke =>
       told.view = IF Room(s, i) = 0 THEN {} ELSE ToSet(Members(s, Room(s, i)))

RightOrFlagged(s, i) ==
  s.session_map[i].disconnect_flag \/ Right(s, i, s.session_map[i].told)

Knows(s) == s.down = "no" => \A i \in Sessions(s) : RightOrFlagged(s, i)

ServerInv(s) == Sound(s) /\ Knows(s)

\* What the handlers do to a server that is up: no session comes or goes.
Keeps(s, t) == ServerInv(t) /\ Sessions(t) = Sessions(s)

\* Messages change no table.
LEMMA SendSound ==
  ASSUME NEW s, Sound(s), NEW t, NEW J, NEW m, Reached(s, t, J, m),
         ~s.broke => J \subseteq Sessions(s)
  PROVE  /\ Sound(t) /\ Sessions(t) = Sessions(s) /\ Rooms(t) = Rooms(s)
         /\ t.broke = s.broke /\ \A no : Members(t, no) = Members(s, no)
         /\ \A i \in Sessions(s) : Room(t, i) = Room(s, i)
         /\ \A i \in Sessions(s) : \A told : Right(s, i, told) => Right(t, i, told)
<1>1. /\ t.chatRoom_map = s.chatRoom_map /\ t.session_pool = s.session_pool /\ t.id = s.id
      /\ t.room_id = s.room_id /\ t.broke = s.broke /\ Sessions(t) = Sessions(s)
      /\ t \in Server
  BY DEF Reached, SameTables, Sessions
<1>2. \A i \in Sessions(s) : Room(t, i) = Room(s, i)
  BY DEF Reached, Room, Sessions
<1>3. Rooms(t) = Rooms(s) /\ \A no : Members(t, no) = Members(s, no)
  BY <1>1 DEF Rooms, Members
<1>4. Queued(t)
  BY DEF Reached, Sound
<1>5. Numbers(t)
  BY <1>1, <1>3 DEF Sound, Numbers
<1>6. Lists(t)
  BY <1>1, <1>2, <1>3 DEF Sound, Lists
<1>7. Agree(t)
  <2>1. ~s.broke => t.down # "ghost"
    BY DEF Reached, Sessions
  <2> QED BY <1>1, <1>2, <1>3, <2>1 DEF Sound, Agree
<1>8. \A i \in Sessions(s) : \A told : Right(s, i, told) => Right(t, i, told)
  BY <1>1, <1>2, <1>3 DEF Right
<1> QED BY <1>1, <1>2, <1>3, <1>4, <1>5, <1>6, <1>7, <1>8 DEF Sound

\* Messages that tell who gets them what is right leave everybody right.
LEMMA SendKnows ==
  ASSUME NEW s, Sound(s), NEW t, NEW J, NEW m, Reached(s, t, J, m),
         ~s.broke => J \subseteq Sessions(s),
         \A i \in Sessions(s) : i \notin J => RightOrFlagged(s, i),
         \A i \in Sessions(s) : i \in J =>
           \/ s.session_map[i].disconnect_flag
           \/ Right(s, i, Learn(s.session_map[i].told, i, m))
  PROVE  Keeps(s, t)
<1>1. Sound(t) /\ Sessions(t) = Sessions(s)
      /\ \A i \in Sessions(s) : \A told : Right(s, i, told) => Right(t, i, told)
  BY SendSound
<1>2. ASSUME t.down = "no", NEW i \in Sessions(t) PROVE RightOrFlagged(t, i)
  <2>1. i \in DOMAIN s.session_map /\ i \in Sessions(s)
    BY <1>1 DEF Sessions
  <2>2. CASE i \notin J
    <3>1. t.session_map[i] = s.session_map[i]
      BY <2>1, <2>2 DEF Reached
    <3> QED BY <1>1, <2>1, <2>2, <3>1 DEF RightOrFlagged
  <2>3. CASE i \in J
    <3>1. /\ s.session_map[i].disconnect_flag => t.session_map[i].disconnect_flag
          /\ \/ t.session_map[i].disconnect_flag
             \/ t.session_map[i].told = Learn(s.session_map[i].told, i, m)
      BY <1>2, <2>1, <2>3 DEF Reached
    <3> QED BY <1>1, <2>1, <2>3, <3>1 DEF RightOrFlagged
  <2> QED BY <2>2, <2>3
<1> QED BY <1>1, <1>2 DEF Keeps, ServerInv, Knows

LEMMA UnicastReaches ==
  ASSUME NEW s \in Server, s.down = "no", NEW i \in Nat, NEW m, MessageOK(m)
  PROVE  Reached(s, Unicast(s, i, m), {i}, m)
<1>1. Reached(s, s, {}, m)
  BY ReachedNone
<1>2. Reached(s, Unicast(s, i, m), {} \union {i}, m)
  BY <1>1, ReachedMore
<1> QED BY <1>2

\* The order in which session_map is walked.
LEMMA OrderOf ==
  ASSUME NEW S, IsFiniteSet(S)
  PROVE  SetToSeq(S) \in Seq(S) /\ IsInjective(SetToSeq(S)) /\ ToSet(SetToSeq(S)) = S
<1> DEFINE c == Cardinality(S)
           order == SetToSeq(S)
<1>1. c \in Nat /\ ExistsBijection(1 .. c, S)
  BY FS_CardinalityType
<1>2. \E f \in [1 .. c -> S] : IsInjective(f)
  <2>1. PICK f : f \in Bijection(1 .. c, S)
    BY <1>1 DEF ExistsBijection
  <2>2. f \in [1 .. c -> S] /\ \A a, b \in 1 .. c : f[a] = f[b] => a = b
    BY <2>1 DEF Bijection, Injection, IsInjective
  <2> QED BY <2>2 DEF IsInjective
<1>3. order \in [1 .. c -> S] /\ IsInjective(order)
  BY <1>2 DEF SetToSeq
<1> HIDE DEF order
<1>4. order \in Injection(1 .. c, S)
  BY <1>3 DEF Injection, IsInjective
<1>5. Cardinality(1 .. c) = c
  BY <1>1, FS_Interval
<1>6. order \in Surjection(1 .. c, S)
  BY <1>4, <1>5, FS_Injection
<1>7. order \in Seq(S)
  BY <1>1, <1>3, SeqDef
<1>8. ToSet(order) = S
  BY <1>3, <1>6 DEF ToSet, Surjection
<1> QED BY <1>3, <1>7, <1>8 DEF order

LEMMA BroadcastReaches ==
  ASSUME NEW s \in Server, s.down = "no", Numbers(s), NEW m, MessageOK(m)
  PROVE  Reached(s, Broadcast(s, m), Sessions(s), m)
<1> DEFINE S == DOMAIN s.session_map
           order == SetToSeq(S)
<1>1. S \subseteq 1 .. s.id - 1 /\ s.id - 1 \in Int /\ S \subseteq Nat
  <2>1. s.id \in Nat /\ \A i \in S : i \in Nat /\ 1 <= i /\ i < s.id
    BY SessionOf DEF Server, Numbers, Sessions
  <2> QED BY <2>1
<1>2. IsFiniteSet(S)
  <2>1. IsFiniteSet(1 .. s.id - 1)
    BY <1>1, FS_Interval
  <2> QED BY <1>1, <2>1, FS_Subset
<1>3. order \in Seq(S) /\ IsInjective(order) /\ ToSet(order) = S
  BY <1>2, OrderOf
<1> HIDE DEF order, S
<1>4. order \in Seq(Nat)
  <2>1. \A c \in 1 .. Len(order) : order[c] \in Nat
    BY <1>1, <1>3, ElementOfSeq
  <2> QED BY <1>3, <2>1, SeqDef, LenProperties
<1>5. Reached(s, UnicastAll(s, order, m), ToSet(order), m)
  BY <1>3, <1>4, UnicastAllReaches
<1> QED BY <1>3, <1>5 DEF Broadcast, order, S, Sessions

-----------------------------------------------------------------------------
(* The packet handlers *)

Requests ==
  [type : {"REQ_LOGIN"}, name : Names]
  \union [type : {"REQ_ROOM_LIST", "REQ_CHAT", "REQ_ROOM_LEAVE"}]
  \union [type : {"REQ_ROOM_CREATE"}, name : RoomNames]
  \union [type : {"REQ_ROOM_ENTER"}, no : Nat]

LEMMA DownKeeps ==
  ASSUME NEW s, ServerInv(s), NEW why \in {"ghost", "no room", "roomless", "erased"},
         why = "ghost" => s.broke
  PROVE  Keeps(s, Down(s, why))
<1> DEFINE t == Down(s, why)
<1>1. /\ t \in Server /\ t.down = why /\ t.session_map = s.session_map
      /\ t.disconnect_queue = s.disconnect_queue /\ t.chatRoom_map = s.chatRoom_map
      /\ t.session_pool = s.session_pool /\ t.id = s.id /\ t.room_id = s.room_id
      /\ t.broke = s.broke
  BY DEF ServerInv, Sound, Server, Down
<1> HIDE DEF t
<1>2. Queued(t)
  BY <1>1 DEF ServerInv, Sound, Queued
<1>3. /\ Sessions(t) = Sessions(s) /\ Rooms(t) = Rooms(s)
      /\ \A no : Members(t, no) = Members(s, no) /\ Room(t, no) = Room(s, no)
  BY <1>1 DEF Sessions, Rooms, Members, Room
<1>5. Numbers(t) /\ Lists(t)
  BY <1>1, <1>3 DEF ServerInv, Sound, Numbers, Lists
<1>6. Agree(t)
  BY <1>1, <1>3 DEF ServerInv, Sound, Agree
<1>4. Knows(t)
  BY <1>1 DEF Knows
<1> QED BY <1>1, <1>2, <1>3, <1>4, <1>5, <1>6 DEF Keeps, ServerInv, Sound, t

\* A message that says nothing of rooms.
LEMMA PlainAnswer ==
  ASSUME NEW s, ServerInv(s), s.down = "no", NEW i \in Sessions(s), NEW m,
         m.type \in {"RES_LOGIN", "RES_FAILED"}
  PROVE  Keeps(s, Unicast(s, i, m))
<1>1. MessageOK(m) /\ \A told, j : Learn(told, j, m) = told
  BY DEF MessageOK, Learn
<1>2. Sound(s) /\ s \in Server /\ i \in Nat /\ \A j \in Sessions(s) : RightOrFlagged(s, j)
  BY SessionOf DEF ServerInv, Sound, Knows, Sessions
<1>3. Reached(s, Unicast(s, i, m), {i}, m)
  BY <1>1, <1>2, UnicastReaches
<1>4. \A j \in Sessions(s) :
        \/ s.session_map[j].disconnect_flag
        \/ Right(s, j, Learn(s.session_map[j].told, j, m))
  BY <1>1, <1>2 DEF RightOrFlagged
<1> QED BY <1>2, <1>3, <1>4, SendKnows

LEMMA LoginKeeps ==
  ASSUME NEW s, ServerInv(s), s.down = "no", NEW i \in Sessions(s), NEW name \in Names,
         NEW t \in Login(s, i, name)
  PROVE  Keeps(s, t)
<1> DEFINE named == [s EXCEPT !.nickName_table[name] = @ + 1]
<1>1. PICK u \in {s, named} : t = Unicast(u, i, [type |-> "RES_LOGIN"])
  BY DEF Login
<1>2. /\ named \in Server /\ named.session_map = s.session_map
      /\ named.disconnect_queue = s.disconnect_queue /\ named.chatRoom_map = s.chatRoom_map
      /\ named.session_pool = s.session_pool /\ named.id = s.id /\ named.room_id = s.room_id
      /\ named.broke = s.broke /\ named.down = s.down
  <2> DEFINE g == [s.nickName_table EXCEPT ![name] = @ + 1]
  <2>1. s \in Server /\ s.nickName_table \in [Names -> Nat]
    BY DEF ServerInv, Sound, Server
  <2>2. g \in [Names -> Nat]
    BY <2>1
  <2>3. named = [s EXCEPT !.nickName_table = g]
    BY <2>1 DEF Server
  <2> HIDE DEF g, named
  <2> QED BY <2>1, <2>2, <2>3 DEF Server
<1> HIDE DEF named
<1>3. ServerInv(named)
  <2>1. Queued(named)
    BY <1>2 DEF ServerInv, Sound, Queued
  <2>2. Numbers(named) /\ Lists(named) /\ Agree(named)
    BY <1>2 DEF ServerInv, Sound, Numbers, Lists, Agree, Sessions, Rooms, Members, Room
  <2>3. Knows(named)
    BY <1>2 DEF ServerInv, Knows, RightOrFlagged, Right, Sessions, Rooms, Members, Room
  <2> QED BY <1>2, <2>1, <2>2, <2>3 DEF ServerInv, Sound
<1>4. ServerInv(u) /\ u.down = "no" /\ Sessions(u) = Sessions(s) /\ i \in Sessions(u)
  BY <1>2, <1>3 DEF Sessions
<1>5. Keeps(u, t)
  BY <1>1, <1>4, PlainAnswer
<1> QED BY <1>4, <1>5 DEF Keeps

LEMMA RoomListKeeps ==
  ASSUME NEW s, ServerInv(s), s.down = "no", NEW i \in Sessions(s)
  PROVE  Keeps(s, RoomList(s, i))
<1> DEFINE m == [type |-> "RES_ROOM_LIST", rooms |-> DOMAIN s.chatRoom_map]
<1>1. Sound(s) /\ s \in Server /\ i \in Nat /\ \A j \in Sessions(s) : RightOrFlagged(s, j)
  BY SessionOf DEF ServerInv, Sound, Knows, Sessions
<1>2. CASE \E no \in DOMAIN s.chatRoom_map :
             \E j \in ToSet(Members(s, no)) : j \notin DOMAIN s.session_map
  <2>1. s.broke
    BY <1>1, <1>2 DEF Sound, Agree, Rooms, Sessions
  <2> QED BY <1>2, <2>1, DownKeeps DEF RoomList
<1>3. CASE ~ \E no \in DOMAIN s.chatRoom_map :
             \E j \in ToSet(Members(s, no)) : j \notin DOMAIN s.session_map
  <2>1. m.type = "RES_ROOM_LIST" /\ m.rooms = Rooms(s)
    BY DEF Rooms
  <2>2. RoomList(s, i) = Unicast(s, i, m)
    BY <1>3 DEF RoomList
  <2> HIDE DEF m
  <2>3. MessageOK(m)
    <3>1. s.chatRoom_map \in TableOf(ChatRoom)
      BY <1>1 DEF Server
    <3>2. Rooms(s) \subseteq Nat
      BY <3>1, TableType DEF Rooms
    <3> QED BY <2>1, <3>2 DEF MessageOK
  <2>4. Reached(s, Unicast(s, i, m), {i}, m)
    BY <1>1, <2>3, UnicastReaches
  <2>5. s.session_map[i].told \in Told
    BY <1>1, SessionOf DEF Sessions
  <2>6. s.session_map[i].disconnect_flag \/ Right(s, i, Learn(s.session_map[i].told, i, m))
    BY <1>1, <2>1, <2>5 DEF Learn, RightOrFlagged, Right, Told
  <2> QED BY <1>1, <2>2, <2>4, <2>6, SendKnows
<1> QED BY <1>2, <1>3

-----------------------------------------------------------------------------
(* Changes of the tables *)

\* g is f with one entry more.
OneMore(f, k, x, g) ==
  /\ DOMAIN g = DOMAIN f \union {k} /\ g[k] = x
  /\ \A j \in DOMAIN f : j # k => g[j] = f[j]

LEMMA NewEntry ==
  ASSUME NEW S, NEW f \in TableOf(S), NEW k \in Nat, NEW x \in S
  PROVE  Inserted(f, k, x) \in TableOf(S) /\ OneMore(f, k, x, Inserted(f, k, x))
<1> DEFINE g == Inserted(f, k, x)
<1>1. /\ f = [i \in DOMAIN f |-> f[i]] /\ DOMAIN f \subseteq Nat
      /\ \A i \in DOMAIN f : f[i] \in S
  BY TableType
<1>2. /\ g = [j \in DOMAIN g |-> g[j]] /\ DOMAIN g = DOMAIN f \union {k} /\ g[k] = x
      /\ \A j \in DOMAIN f : j # k => g[j] = f[j]
  BY DEF Inserted
<1> HIDE DEF g
<1>3. \A j \in DOMAIN g : g[j] \in S
  BY <1>1, <1>2
<1>4. g \in TableOf(S)
  BY <1>1, <1>2, <1>3, TableType
<1> QED BY <1>2, <1>4 DEF OneMore, g

LEMMA RoomCreateKeeps ==
  ASSUME NEW s, ServerInv(s), s.down = "no", NEW i \in Sessions(s), NEW name \in RoomNames
  PROVE  Keeps(s, RoomCreate(s, i, name))
<1> DEFINE no == s.room_id
           room == [name |-> name, session_list |-> <<>>]
           f == Inserted(s.chatRoom_map, no, room)
           t == [s EXCEPT !.chatRoom_map = f, !.room_id = @ + 1]
           m == [type |-> "RES_ROOM_CREATE", no |-> no]
<1>1. CASE RoomCreate(s, i, name) = Unicast(s, i, [type |-> "RES_FAILED"])
  <2>1. [type |-> "RES_FAILED"].type \in {"RES_LOGIN", "RES_FAILED"}
    OBVIOUS
  <2> QED BY <1>1, <2>1, PlainAnswer
<1>2. CASE RoomCreate(s, i, name) = Broadcast(t, m)
  <2>1. /\ Sound(s) /\ s \in Server /\ no \in Nat /\ s.chatRoom_map \in TableOf(ChatRoom)
        /\ no = s.room_id
    BY DEF ServerInv, Sound, Server
  <2>16. no \notin Rooms(s)
    <3>1. \A r \in Rooms(s) : r < no
      BY <2>1 DEF Sound, Numbers
    <3> QED BY <2>1, <3>1
  <2> HIDE DEF no
  <2>2. room \in ChatRoom /\ room.session_list = <<>>
    BY EmptySeq DEF ChatRoom
  <2> HIDE DEF room
  <2>3. /\ f \in TableOf(ChatRoom) /\ DOMAIN f = DOMAIN s.chatRoom_map \union {no}
        /\ f[no] = room
        /\ \A r \in DOMAIN s.chatRoom_map : r # no => f[r] = s.chatRoom_map[r]
    <3>1. f = Inserted(s.chatRoom_map, no, room)
      OBVIOUS
    <3> HIDE DEF f
    <3>2. s.chatRoom_map \in TableOf(ChatRoom) /\ no \in Nat /\ room \in ChatRoom
      BY <2>1, <2>2
    <3>3. f \in TableOf(ChatRoom) /\ OneMore(s.chatRoom_map, no, room, f)
      BY <3>1, <3>2, NewEntry, Zenon
    <3> QED BY <3>3 DEF OneMore
  <2> HIDE DEF f
  <2>4. /\ t \in Server /\ t.session_map = s.session_map
        /\ t.disconnect_queue = s.disconnect_queue /\ t.chatRoom_map = f
        /\ t.session_pool = s.session_pool /\ t.id = s.id /\ t.room_id = no + 1
        /\ t.broke = s.broke /\ t.down = "no"
    <3>1. t = [s EXCEPT !.chatRoom_map = f, !.room_id = no + 1]
      BY <2>1 DEF Server
    <3> HIDE DEF t
    <3>2. no + 1 \in Nat
      BY <2>1
    <3> QED BY <2>1, <2>3, <3>1, <3>2 DEF Server
  <2>5. m.type = "RES_ROOM_CREATE" /\ m.no = no
    OBVIOUS
  <2> HIDE DEF t, m
  <2>6. /\ Sessions(t) = Sessions(s) /\ Rooms(t) = Rooms(s) \union {no}
        /\ \A r \in Rooms(s) : Members(t, r) = Members(s, r)
        /\ Members(t, no) = <<>>
        /\ \A j : Room(t, j) = Room(s, j)
    BY <2>16, <2>2, <2>3, <2>4 DEF Sessions, Rooms, Members, Room
  <2>7. Queued(t)
    BY <2>1, <2>4 DEF Sound, Queued
  <2>8. Numbers(t)
    <3>1. Numbers(s) /\ \A r \in Rooms(s) : r \in Nat
      BY <2>1, TableType DEF Sound, Rooms
    <3>2. \A r \in Rooms(s) : r < no + 1
      BY <2>1, <3>1 DEF Numbers
    <3> QED BY <2>1, <2>4, <2>6, <3>1, <3>2 DEF Numbers
  <2>12. IsInjective(<<>>) /\ ToSet(<<>>) = {}
    BY DEF IsInjective, ToSet
  <2>9. Lists(t)
    BY <2>1, <2>4, <2>6, <2>12 DEF Sound, Lists
  <2>10. Agree(t)
    BY <2>1, <2>4, <2>6, <2>12 DEF Sound, Agree
  <2>11. Sound(t)
    BY <2>4, <2>7, <2>8, <2>9, <2>10 DEF Sound
  <2>13. MessageOK(m)
    BY <2>1, <2>5 DEF MessageOK
  <2>14. Reached(t, Broadcast(t, m), Sessions(t), m)
    BY <2>4, <2>8, <2>13, BroadcastReaches
  <2>15. ASSUME NEW j \in Sessions(t)
         PROVE  \/ t.session_map[j].disconnect_flag
                \/ Right(t, j, Learn(t.session_map[j].told, j, m))
    <3>1. j \in Sessions(s) /\ t.session_map[j] = s.session_map[j]
      BY <2>4, <2>6
    <3>2. CASE s.session_map[j].disconnect_flag
      BY <3>1, <3>2
    <3>3. CASE Right(s, j, s.session_map[j].told)
      <4> DEFINE told == s.session_map[j].told
                 learnt == Learn(told, j, m)
      <4>1. told \in Told
        BY <2>1, <3>1, SessionOf DEF Sessions
      <4> HIDE DEF told
      <4>2. /\ learnt.known = told.known \union {no} /\ learnt.listed = told.listed
            /\ learnt.view = told.view
        BY <2>5, <4>1 DEF Learn, Told
      <4> HIDE DEF learnt
      <4>3. Right(s, j, told)
        BY <3>3 DEF told
      <4>4. ~s.broke => Room(s, j) = 0 \/ Members(t, Room(s, j)) = Members(s, Room(s, j))
        BY <2>1, <2>6, <3>1 DEF Sound, Agree
      <4>5. Right(t, j, learnt)
        BY <2>4, <2>6, <4>2, <4>3, <4>4 DEF Right
      <4> QED BY <3>1, <4>5 DEF learnt, told
    <3> QED BY <3>1, <3>2, <3>3 DEF ServerInv, Knows, RightOrFlagged
  <2>17. Keeps(t, Broadcast(t, m))
    BY <2>11, <2>14, <2>15, SendKnows
  <2> QED BY <1>2, <2>6, <2>17 DEF Keeps
<1> QED BY <1>1, <1>2 DEF RoomCreate

\* t is s with the room of session i, and the list of one room, replaced.
Moved(s, t, i, new, no, q) ==
  /\ t \in Server /\ Sessions(t) = Sessions(s) /\ Rooms(t) = Rooms(s)
  /\ t.disconnect_queue = s.disconnect_queue /\ t.session_pool = s.session_pool
  /\ t.id = s.id /\ t.room_id = s.room_id /\ t.down = s.down /\ t.broke = s.broke
  /\ Room(t, i) = new /\ \A j \in Sessions(s) : j # i => Room(t, j) = Room(s, j)
  /\ Members(t, no) = q /\ \A r \in Rooms(s) : r # no => Members(t, r) = Members(s, r)
  /\ \A j \in Sessions(s) :
       /\ t.session_map[j].disconnect_flag = s.session_map[j].disconnect_flag
       /\ t.session_map[j].told = s.session_map[j].told

LEMMA MoveFacts ==
  ASSUME NEW s \in Server, NEW i \in Sessions(s), NEW no \in Rooms(s), NEW new \in Nat,
         NEW q \in Seq(Nat),
         NEW t, t = [s EXCEPT !.session_map[i].no = new,
                              !.chatRoom_map[no].session_list = q]
  PROVE  Moved(s, t, i, new, no, q)
<1> DEFINE x == [s.session_map[i] EXCEPT !.no = new]
           f == [s.session_map EXCEPT ![i] = x]
           y == [s.chatRoom_map[no] EXCEPT !.session_list = q]
           g == [s.chatRoom_map EXCEPT ![no] = y]
<1>1. /\ s.session_map \in TableOf(Session) /\ s.chatRoom_map \in TableOf(ChatRoom)
      /\ i \in DOMAIN s.session_map /\ no \in DOMAIN s.chatRoom_map
  BY DEF Server, Sessions, Rooms
<1>2. s.session_map[i] \in Session /\ s.chatRoom_map[no] \in ChatRoom
  BY <1>1, TableType
<1>3. /\ x \in Session /\ x.no = new /\ x.told = s.session_map[i].told
      /\ x.disconnect_flag = s.session_map[i].disconnect_flag
  BY <1>2 DEF Session
<1>4. y \in ChatRoom /\ y.session_list = q
  BY <1>2 DEF ChatRoom
<1>5. t = [s EXCEPT !.session_map = f, !.chatRoom_map = g]
  BY DEF Server
<1> HIDE DEF x, y
<1>6. /\ f \in TableOf(Session) /\ DOMAIN f = DOMAIN s.session_map /\ f[i] = x
      /\ \A j \in DOMAIN s.session_map : j # i => f[j] = s.session_map[j]
  BY <1>1, <1>3, TableExcept
<1>7. /\ g \in TableOf(ChatRoom) /\ DOMAIN g = DOMAIN s.chatRoom_map /\ g[no] = y
      /\ \A r \in DOMAIN s.chatRoom_map : r # no => g[r] = s.chatRoom_map[r]
  BY <1>1, <1>4, TableExcept
<1> HIDE DEF f, g
<1>8. /\ t \in Server /\ t.session_map = f /\ t.chatRoom_map = g
      /\ t.disconnect_queue = s.disconnect_queue /\ t.session_pool = s.session_pool
      /\ t.id = s.id /\ t.room_id = s.room_id /\ t.down = s.down /\ t.broke = s.broke
  BY <1>5, <1>6, <1>7 DEF Server
<1>9. Sessions(t) = Sessions(s) /\ Rooms(t) = Rooms(s)
  BY <1>6, <1>7, <1>8 DEF Sessions, Rooms
<1>10. Room(t, i) = new /\ \A j \in Sessions(s) : j # i => Room(t, j) = Room(s, j)
  BY <1>3, <1>6, <1>8 DEF Room, Sessions
<1>11. Members(t, no) = q /\ \A r \in Rooms(s) : r # no => Members(t, r) = Members(s, r)
  BY <1>4, <1>7, <1>8 DEF Members, Rooms
<1>12. \A j \in Sessions(s) :
         /\ t.session_map[j].disconnect_flag = s.session_map[j].disconnect_flag
         /\ t.session_map[j].told = s.session_map[j].told
  BY <1>3, <1>6, <1>8 DEF Sessions
<1> QED BY <1>8, <1>9, <1>10, <1>11, <1>12 DEF Moved

LEMMA MembersType ==
  ASSUME NEW s \in Server, NEW no \in Rooms(s)
  PROVE  Members(s, no) \in Seq(Nat) /\ no \in Nat
<1>1. s.chatRoom_map \in TableOf(ChatRoom) /\ no \in DOMAIN s.chatRoom_map
  BY DEF Server, Rooms
<1>2. s.chatRoom_map[no] \in ChatRoom /\ no \in Nat
  BY <1>1, TableType
<1> QED BY <1>2 DEF ChatRoom, Members

\* Session i has entered room no.
LEMMA EnterFacts ==
  ASSUME NEW s, Sound(s), NEW i \in Sessions(s), NEW no \in Rooms(s), Room(s, i) = 0,
         NEW t, t = Entered(s, i, no)
  PROVE  /\ Sound(t) /\ Moved(s, t, i, no, no, Append(Members(s, no), i))
         /\ ToSet(Members(t, no)) = ToSet(Members(s, no)) \union {i}
<1> DEFINE q == Append(Members(s, no), i)
<1>1. s \in Server /\ i \in Nat /\ no \in Nat /\ Members(s, no) \in Seq(Nat) /\ 1 <= no
  BY SessionOf, MembersType DEF Sound, Sessions, Numbers
<1>2. i \notin ToSet(Members(s, no))
  BY <1>1 DEF Sound, Lists
<1>3. q \in Seq(Nat) /\ IsInjective(q) /\ ToSet(q) = ToSet(Members(s, no)) \union {i}
  BY <1>1, <1>2, PushBack DEF Sound, Lists
<1>4. t = [s EXCEPT !.session_map[i].no = no, !.chatRoom_map[no].session_list = q]
  BY <1>1 DEF Entered, Server, Members
<1> HIDE DEF q
<1>5. Moved(s, t, i, no, no, q)
  BY <1>1, <1>3, <1>4, MoveFacts
<1>6. t \in Server /\ Numbers(t)
  BY <1>5 DEF Moved, Sound, Numbers
<1>7. Queued(t)
  <2>1. /\ t.disconnect_queue = s.disconnect_queue /\ DOMAIN t.session_map = DOMAIN s.session_map
        /\ \A j \in DOMAIN s.session_map :
             t.session_map[j].disconnect_flag = s.session_map[j].disconnect_flag
    BY <1>5 DEF Moved, Sessions
  <2> QED BY <2>1 DEF Sound, Queued
<1>8. Lists(t)
  <2>1. i < s.id
    BY DEF Sound, Numbers
  <2>2. ASSUME NEW r \in Rooms(t), r # no
        PROVE  /\ IsInjective(Members(t, r))
               /\ \A j \in ToSet(Members(t, r)) : j < t.id /\ (j \in Sessions(t) => Room(t, j) = r)
    <3>1. Members(t, r) = Members(s, r) /\ r \in Rooms(s)
      BY <1>5, <2>2 DEF Moved
    <3>2. r # 0
      BY <1>1, <3>1, MembersType DEF Sound, Numbers
    <3>3. i \notin ToSet(Members(s, r))
      BY <3>1, <3>2 DEF Sound, Lists
    <3> QED BY <1>5, <3>1, <3>3 DEF Moved, Sound, Lists
  <2>3. /\ IsInjective(Members(t, no))
        /\ \A j \in ToSet(Members(t, no)) : j < t.id /\ (j \in Sessions(t) => Room(t, j) = no)
    BY <1>3, <1>5, <2>1 DEF Moved, Sound, Lists
  <2> QED BY <2>2, <2>3 DEF Lists
<1>9. Agree(t)
  <2>1. SUFFICES ASSUME ~s.broke PROVE Agree(t)
    BY <1>5 DEF Moved, Agree
  <2>2. /\ ToSet(s.session_pool) \subseteq {0} /\ s.down # "ghost"
        /\ \A r \in Rooms(s) : ToSet(Members(s, r)) \subseteq Sessions(s)
        /\ \A j \in Sessions(s) :
             Room(s, j) # 0 => Room(s, j) \in Rooms(s) /\ j \in ToSet(Members(s, Room(s, j)))
    BY <2>1 DEF Sound, Agree
  <2>3. \A r \in Rooms(t) : ToSet(Members(t, r)) \subseteq Sessions(t)
    BY <1>3, <1>5, <2>2 DEF Moved
  <2>4. ASSUME NEW j \in Sessions(t), Room(t, j) # 0
        PROVE  Room(t, j) \in Rooms(t) /\ j \in ToSet(Members(t, Room(t, j)))
    <3>1. CASE j = i
      BY <1>3, <1>5, <3>1 DEF Moved
    <3>2. CASE j # i
      <4>1. Room(t, j) = Room(s, j) /\ j \in Sessions(s)
        BY <1>5, <3>2 DEF Moved
      <4>2. Room(s, j) \in Rooms(s) /\ j \in ToSet(Members(s, Room(s, j)))
        BY <2>2, <2>4, <4>1
      <4>3. CASE Room(s, j) = no
        BY <1>3, <1>5, <4>1, <4>2, <4>3 DEF Moved
      <4>4. CASE Room(s, j) # no
        BY <1>5, <4>1, <4>2, <4>4 DEF Moved
      <4> QED BY <4>3, <4>4
    <3> QED BY <3>1, <3>2
  <2> QED BY <1>5, <2>2, <2>3, <2>4 DEF Moved, Agree
<1>10. Sound(t)
  BY <1>6, <1>7, <1>8, <1>9 DEF Sound
<1>11. Members(t, no) = q
  BY <1>5 DEF Moved
<1> QED BY <1>3, <1>5, <1>10, <1>11 DEF q

\* Session i has left its room.
LEMMA ExitFacts ==
  ASSUME NEW s, Sound(s), NEW i \in Sessions(s), NEW no \in Rooms(s), Room(s, i) = no,
         NEW t, t = Exit_room(s, i)
  PROVE  /\ Sound(t) /\ Moved(s, t, i, 0, no, Others(Members(s, no), i))
         /\ ToSet(Members(t, no)) = ToSet(Members(s, no)) \ {i}
<1> DEFINE q == Others(Members(s, no), i)
<1>1. s \in Server /\ i \in Nat /\ no \in Nat /\ Members(s, no) \in Seq(Nat) /\ 1 <= no
  BY SessionOf, MembersType DEF Sound, Sessions, Numbers
<1>3. q \in Seq(Nat) /\ IsInjective(q) /\ ToSet(q) = ToSet(Members(s, no)) \ {i}
  BY <1>1, OthersFacts DEF Sound, Lists
<1>4. t = [s EXCEPT !.session_map[i].no = 0, !.chatRoom_map[no].session_list = q]
  <2>1. t = [s EXCEPT !.chatRoom_map[no].session_list = Others(@, i),
                      !.session_map[i].no = 0]
    BY DEF Exit_room
  <2> QED BY <1>1, <2>1 DEF Server, Members
<1> HIDE DEF q
<1>5. Moved(s, t, i, 0, no, q)
  BY <1>1, <1>3, <1>4, MoveFacts
<1>6. t \in Server /\ Numbers(t)
  BY <1>5 DEF Moved, Sound, Numbers
<1>7. Queued(t)
  <2>1. /\ t.disconnect_queue = s.disconnect_queue /\ DOMAIN t.session_map = DOMAIN s.session_map
        /\ \A j \in DOMAIN s.session_map :
             t.session_map[j].disconnect_flag = s.session_map[j].disconnect_flag
    BY <1>5 DEF Moved, Sessions
  <2> QED BY <2>1 DEF Sound, Queued
<1>8. Lists(t)
  <2>2. ASSUME NEW r \in Rooms(t), r # no
        PROVE  /\ IsInjective(Members(t, r))
               /\ \A j \in ToSet(Members(t, r)) : j < t.id /\ (j \in Sessions(t) => Room(t, j) = r)
    <3>1. Members(t, r) = Members(s, r) /\ r \in Rooms(s)
      BY <1>5, <2>2 DEF Moved
    <3>3. i \notin ToSet(Members(s, r))
      BY <2>2, <3>1 DEF Sound, Lists
    <3> QED BY <1>5, <3>1, <3>3 DEF Moved, Sound, Lists
  <2>3. /\ IsInjective(Members(t, no))
        /\ \A j \in ToSet(Members(t, no)) : j < t.id /\ (j \in Sessions(t) => Room(t, j) = no)
    BY <1>3, <1>5 DEF Moved, Sound, Lists
  <2> QED BY <2>2, <2>3 DEF Lists
<1>9. Agree(t)
  <2>1. SUFFICES ASSUME ~s.broke PROVE Agree(t)
    BY <1>5 DEF Moved, Agree
  <2>2. /\ ToSet(s.session_pool) \subseteq {0} /\ s.down # "ghost"
        /\ \A r \in Rooms(s) : ToSet(Members(s, r)) \subseteq Sessions(s)
        /\ \A j \in Sessions(s) :
             Room(s, j) # 0 => Room(s, j) \in Rooms(s) /\ j \in ToSet(Members(s, Room(s, j)))
    BY <2>1 DEF Sound, Agree
  <2>3. \A r \in Rooms(t) : ToSet(Members(t, r)) \subseteq Sessions(t)
    BY <1>3, <1>5, <2>2 DEF Moved
  <2>4. ASSUME NEW j \in Sessions(t), Room(t, j) # 0
        PROVE  Room(t, j) \in Rooms(t) /\ j \in ToSet(Members(t, Room(t, j)))
    <3>1. CASE j = i
      BY <1>5, <2>4, <3>1 DEF Moved
    <3>2. CASE j # i
      <4>1. Room(t, j) = Room(s, j) /\ j \in Sessions(s)
        BY <1>5, <3>2 DEF Moved
      <4>2. Room(s, j) \in Rooms(s) /\ j \in ToSet(Members(s, Room(s, j)))
        BY <2>2, <2>4, <4>1
      <4>3. CASE Room(s, j) = no
        BY <1>3, <1>5, <3>2, <4>1, <4>2, <4>3 DEF Moved
      <4>4. CASE Room(s, j) # no
        BY <1>5, <4>1, <4>2, <4>4 DEF Moved
      <4> QED BY <4>3, <4>4
    <3> QED BY <3>1, <3>2
  <2> QED BY <1>5, <2>2, <2>3, <2>4 DEF Moved, Agree
<1>10. Sound(t)
  BY <1>6, <1>7, <1>8, <1>9 DEF Sound
<1>11. Members(t, no) = q
  BY <1>5 DEF Moved
<1> QED BY <1>3, <1>5, <1>10, <1>11 DEF q

\* A room without members is taken away.
LEMMA GoneFacts ==
  ASSUME NEW s, Sound(s), NEW no \in Rooms(s), ToSet(Members(s, no)) = {},
         NEW t, t = Closed(s, no)
  PROVE  /\ Sound(t) /\ Sessions(t) = Sessions(s) /\ Rooms(t) = Rooms(s) \ {no}
         /\ t.session_map = s.session_map /\ t.broke = s.broke /\ t.down = s.down
         /\ \A r \in Rooms(t) : Members(t, r) = Members(s, r)
         /\ ~s.broke => \A i \in Sessions(s) : Room(s, i) # no
<1> DEFINE f == [r \in DOMAIN s.chatRoom_map \ {no} |-> s.chatRoom_map[r]]
<1>1. s \in Server /\ s.chatRoom_map \in TableOf(ChatRoom)
  BY DEF Sound, Server
<1>2. /\ f = [r \in DOMAIN f |-> f[r]] /\ DOMAIN f = DOMAIN s.chatRoom_map \ {no}
      /\ \A r \in DOMAIN f : f[r] = s.chatRoom_map[r]
  OBVIOUS
<1>3. t = [s EXCEPT !.chatRoom_map = f]
  BY DEF Closed
<1> HIDE DEF f
<1>4. f \in TableOf(ChatRoom)
  <2>1. /\ DOMAIN s.chatRoom_map \subseteq Nat
        /\ \A r \in DOMAIN s.chatRoom_map : s.chatRoom_map[r] \in ChatRoom
    BY <1>1, TableType
  <2>2. DOMAIN f \subseteq Nat /\ \A r \in DOMAIN f : f[r] \in ChatRoom
    BY <1>2, <2>1
  <2> QED BY <1>2, <2>2, TableType
<1>5. /\ t \in Server /\ t.session_map = s.session_map /\ t.chatRoom_map = f
      /\ t.disconnect_queue = s.disconnect_queue /\ t.session_pool = s.session_pool
      /\ t.id = s.id /\ t.room_id = s.room_id /\ t.down = s.down /\ t.broke = s.broke
  BY <1>1, <1>3, <1>4 DEF Server
<1>6. /\ Sessions(t) = Sessions(s) /\ Rooms(t) = Rooms(s) \ {no}
      /\ \A r \in Rooms(t) : Members(t, r) = Members(s, r)
      /\ \A i : Room(t, i) = Room(s, i)
  BY <1>2, <1>5 DEF Sessions, Rooms, Members, Room
<1>7. ~s.broke => \A i \in Sessions(s) : Room(s, i) # no
  <2>1. no # 0
    BY MembersType, <1>1 DEF Sound, Numbers
  <2> QED BY <2>1 DEF Sound, Agree
<1>8. Queued(t)
  BY <1>5 DEF Sound, Queued
<1>9. Numbers(t) /\ Lists(t)
  BY <1>5, <1>6 DEF Sound, Numbers, Lists
<1>10. Agree(t)
  BY <1>5, <1>6, <1>7 DEF Sound, Agree
<1> QED BY <1>5, <1>6, <1>7, <1>8, <1>9, <1>10 DEF Sound

\* A message to the other sessions in a room.
LEMMA TellOthers ==
  ASSUME NEW s, Sound(s), s.down = "no", NEW i, NEW no \in Rooms(s), NEW m, MessageOK(m),
         \A j \in Sessions(s) :
           j \notin ToSet(Members(s, no)) \ {i} => RightOrFlagged(s, j),
         \A j \in Sessions(s) :
           j \in ToSet(Members(s, no)) \ {i} =>
             \/ s.session_map[j].disconnect_flag
             \/ Right(s, j, Learn(s.session_map[j].told, j, m))
  PROVE  Keeps(s, UnicastAll(s, Others(Members(s, no), i), m))
<1> DEFINE q == Others(Members(s, no), i)
           J == ToSet(Members(s, no)) \ {i}
<1>1. q \in Seq(Nat) /\ IsInjective(q) /\ ToSet(q) = J
  BY MembersType, OthersFacts DEF Sound, Lists
<1> HIDE DEF q
<1>2. Reached(s, UnicastAll(s, q, m), J, m)
  <2>1. Reached(s, UnicastAll(s, q, m), ToSet(q), m)
    BY <1>1, UnicastAllReaches DEF Sound
  <2> QED BY <1>1, <2>1
<1>3. ~s.broke => J \subseteq Sessions(s)
  BY DEF Sound, Agree
<1> QED BY <1>2, <1>3, SendKnows DEF q

LEMMA ChatKeeps ==
  ASSUME NEW s, ServerInv(s), s.down = "no", NEW i \in Sessions(s)
  PROVE  Keeps(s, Chat(s, i))
<1> DEFINE m == [type |-> "RES_CHAT"]
           no == Room(s, i)
<1>1. CASE ~InRoom(s, no)
  BY <1>1, DownKeeps DEF Chat
<1>2. CASE InRoom(s, no)
  <2>1. no \in Rooms(s)
    BY <1>2 DEF InRoom, Rooms
  <2>2. MessageOK(m) /\ \A told, j : Learn(told, j, m) = told
    BY DEF MessageOK, Learn
  <2>3. Chat(s, i) = UnicastAll(s, Others(Members(s, no), i), m)
    BY <1>2 DEF Chat
  <2> HIDE DEF m, no
  <2>4. Sound(s) /\ \A j \in Sessions(s) : RightOrFlagged(s, j)
    BY DEF ServerInv, Knows
  <2>5. \A j \in Sessions(s) :
          \/ s.session_map[j].disconnect_flag
          \/ Right(s, j, Learn(s.session_map[j].told, j, m))
    BY <2>2, <2>4 DEF RightOrFlagged
  <2> QED BY <2>1, <2>2, <2>3, <2>4, <2>5, TellOthers
<1> QED BY <1>1, <1>2

\* The members of a room are told of a session that is in it.
LEMMA AnnounceKeeps ==
  ASSUME NEW s, ServerInv(s), s.down = "no", NEW i \in Sessions(s), Room(s, i) \in Rooms(s),
         NEW m, m = [type |-> "RES_USER_ENTER", id |-> i]
  PROVE  Keeps(s, UnicastAll(s, Others(Members(s, Room(s, i)), i), m))
<1> DEFINE no == Room(s, i)
<1>1. Sound(s) /\ i \in Nat /\ s \in Server /\ \A j \in Sessions(s) : RightOrFlagged(s, j)
  BY SessionOf DEF ServerInv, Sound, Knows, Sessions
<1>2. no \in Rooms(s) /\ no # 0
  BY <1>1, MembersType DEF Sound, Numbers
<1>3. m.type = "RES_USER_ENTER" /\ m.id = i
  OBVIOUS
<1>4. MessageOK(m)
  BY <1>1, <1>3 DEF MessageOK
<1>5. ~s.broke => i \in ToSet(Members(s, no))
  BY <1>1, <1>2 DEF Sound, Agree
<1>6. ASSUME NEW j \in Sessions(s), j \in ToSet(Members(s, no))
      PROVE  \/ s.session_map[j].disconnect_flag
             \/ Right(s, j, Learn(s.session_map[j].told, j, m))
  <2>1. CASE Right(s, j, s.session_map[j].told)
    <3> DEFINE told == s.session_map[j].told
               learnt == Learn(told, j, m)
    <3>1. told \in Told
      BY <1>1, SessionOf DEF Sessions
    <3>2. Right(s, j, told)
      BY <2>1
    <3> HIDE DEF told
    <3>3. /\ learnt.known = told.known /\ learnt.listed = told.listed
          /\ learnt.view = told.view \union {i}
      BY <1>3, <3>1 DEF Learn, Told
    <3> HIDE DEF learnt
    <3>4. Room(s, j) = no
      BY <1>1, <1>2, <1>6 DEF Sound, Lists
    <3>5. Right(s, j, learnt)
      BY <1>2, <1>5, <3>2, <3>3, <3>4 DEF Right
    <3> QED BY <3>5 DEF learnt, told
  <2> QED BY <1>1, <2>1 DEF RightOrFlagged
<1> HIDE DEF no
<1>7. Keeps(s, UnicastAll(s, Others(Members(s, no), i), m))
  BY <1>1, <1>2, <1>4, <1>6, TellOthers
<1> QED BY <1>7 DEF no

\* The session that enters is told who is in the room, and then they of it.
LEMMA EnteredKeeps ==
  ASSUME NEW s, ServerInv(s), s.down = "no", NEW i \in Sessions(s), NEW no \in Rooms(s),
         Room(s, i) = 0, ToSet(Members(s, no)) \subseteq Sessions(s),
         NEW t, t = Entered(s, i, no),
         NEW m, m = [type |-> "RES_ROOM_ENTER", members |-> ToSet(Members(t, no))],
         NEW u, u = Unicast(t, i, m),
         NEW c, c = [type |-> "RES_USER_ENTER", id |-> i]
  PROVE  /\ u.down = "no" /\ Room(u, i) = no /\ no \in Rooms(u)
         /\ Keeps(s, UnicastAll(u, Others(Members(u, no), i), c))
<1>1. /\ Sound(s) /\ i \in Nat /\ s \in Server /\ no \in Nat /\ Members(s, no) \in Seq(Nat)
      /\ \A j \in Sessions(s) : RightOrFlagged(s, j)
  BY SessionOf, MembersType DEF ServerInv, Sound, Knows, Sessions
<1>2. /\ Sound(t) /\ Moved(s, t, i, no, no, Append(Members(s, no), i))
      /\ ToSet(Members(t, no)) = ToSet(Members(s, no)) \union {i}
  BY <1>1, EnterFacts
<1>3. /\ m.type = "RES_ROOM_ENTER" /\ m.members = ToSet(Members(s, no)) \union {i}
      /\ c.type = "RES_USER_ENTER" /\ c.id = i
  BY <1>2
<1>4. MessageOK(m) /\ MessageOK(c)
  <2>1. Sessions(s) \subseteq Nat
    BY <1>1, SessionOf DEF Sessions
  <2>2. m.members \subseteq Nat
    BY <1>1, <1>3, <2>1
  <2> QED BY <1>1, <1>3, <2>2 DEF MessageOK
<1>5. /\ t.down = "no" /\ Sessions(t) = Sessions(s) /\ Rooms(t) = Rooms(s) /\ t.broke = s.broke
      /\ Room(t, i) = no /\ t \in Server
  BY <1>2 DEF Moved
<1>6. Reached(t, u, {i}, m)
  BY <1>1, <1>4, <1>5, UnicastReaches
<1>7. /\ Sound(u) /\ Sessions(u) = Sessions(t) /\ Rooms(u) = Rooms(t) /\ u.broke = t.broke
      /\ \A r : Members(u, r) = Members(t, r)
      /\ \A j \in Sessions(t) : Room(u, j) = Room(t, j)
      /\ \A j \in Sessions(t) : \A told : Right(t, j, told) => Right(u, j, told)
  <2>1. {i} \subseteq Sessions(t)
    BY <1>5
  <2>2. Sound(t) /\ (~t.broke => {i} \subseteq Sessions(t))
    BY <1>2, <2>1
  <2> QED BY ONLY <1>6, <2>2, SendSound
<1>8. u.down = "no"
  BY <1>5, <1>6 DEF Reached, Sessions
<1>9. RightOrFlagged(u, i)
  <2> DEFINE told == t.session_map[i].told
             learnt == Learn(told, i, m)
  <2>1. told \in Told /\ told = s.session_map[i].told
    BY <1>2, <1>5, SessionOf DEF Sessions, Moved
  <2>2. u.session_map[i].disconnect_flag \/ u.session_map[i].told = learnt
    BY <1>5, <1>6, <1>8 DEF Reached, Sessions
  <2>3. ~s.session_map[i].disconnect_flag => Right(s, i, told)
    BY <1>1, <2>1 DEF RightOrFlagged
  <2>4. s.session_map[i].disconnect_flag => u.session_map[i].disconnect_flag
    <3>1. i \in DOMAIN t.session_map
      BY <1>5 DEF Sessions
    <3>2. t.session_map[i].disconnect_flag => u.session_map[i].disconnect_flag
      BY <1>6, <3>1 DEF Reached
    <3>3. t.session_map[i].disconnect_flag = s.session_map[i].disconnect_flag
      BY <1>2 DEF Moved
    <3> QED BY <3>2, <3>3
  <2> HIDE DEF told
  <2>5. /\ learnt.known = told.known /\ learnt.listed = told.listed
        /\ learnt.view = m.members
    BY <1>3, <2>1 DEF Learn, Told
  <2> HIDE DEF learnt
  <2>6. ASSUME Right(s, i, told) PROVE Right(t, i, learnt)
    <3>1. no # 0
      BY <1>1 DEF Sound, Numbers
    <3> QED BY <1>2, <1>3, <1>5, <2>5, <2>6, <3>1 DEF Right
  <2> QED BY <1>5, <1>7, <2>2, <2>3, <2>4, <2>6 DEF RightOrFlagged
<1>10. ASSUME NEW j \in Sessions(u), j # i
       PROVE  u.session_map[j].disconnect_flag \/ Right(s, j, u.session_map[j].told)
  <2>1. /\ j \in Sessions(s) /\ u.session_map[j] = t.session_map[j]
        /\ t.session_map[j].disconnect_flag = s.session_map[j].disconnect_flag
        /\ t.session_map[j].told = s.session_map[j].told
    <3>1. j \in Sessions(s) /\ j \in DOMAIN t.session_map
      BY <1>5, <1>7 DEF Sessions
    <3>2. u.session_map[j] = t.session_map[j]
      BY <1>6, <1>10, <3>1 DEF Reached
    <3> QED BY <1>2, <3>1, <3>2 DEF Moved
  <2> QED BY <1>1, <2>1 DEF RightOrFlagged
<1>11. \A j \in Sessions(u) : j # i => Room(u, j) = Room(s, j) /\ j \in Sessions(s)
  BY <1>2, <1>5, <1>7 DEF Moved
<1>12. ASSUME NEW j \in Sessions(u), j \notin ToSet(Members(u, no)) \ {i}
       PROVE  RightOrFlagged(u, j)
  <2>1. CASE j = i
    BY <1>9, <2>1
  <2>2. CASE j # i
    <3>1. j \notin ToSet(Members(s, no))
      BY <1>2, <1>7, <1>12, <2>2
    <3>2. ~s.broke => Room(s, j) # no
      BY <1>1, <1>11, <2>2, <3>1, MembersType DEF Sound, Agree, Numbers
    <3>3. ~s.broke => Room(s, j) = 0 \/ Members(u, Room(s, j)) = Members(s, Room(s, j))
      <4>1. \A r \in Rooms(s) : r # no => Members(u, r) = Members(s, r)
        BY <1>2, <1>7 DEF Moved
      <4>2. ~s.broke /\ Room(s, j) # 0 => Room(s, j) \in Rooms(s)
        BY <1>1, <1>11, <2>2 DEF Sound, Agree
      <4> QED BY <3>2, <4>1, <4>2
    <3>4. \A told : Right(s, j, told) => Right(u, j, told)
      BY <1>5, <1>7, <1>11, <2>2, <3>3 DEF Right
    <3> QED BY <1>10, <2>2, <3>4 DEF RightOrFlagged
  <2> QED BY <2>1, <2>2
<1>13. ASSUME NEW j \in Sessions(u), j \in ToSet(Members(u, no)) \ {i}
       PROVE  \/ u.session_map[j].disconnect_flag
              \/ Right(u, j, Learn(u.session_map[j].told, j, c))
  <2> DEFINE told == u.session_map[j].told
             learnt == Learn(told, j, c)
  <2>1. told \in Told
    BY <1>7, SessionOf DEF Sessions, Sound
  <2>2. u.session_map[j].disconnect_flag \/ Right(s, j, told)
    BY <1>10, <1>13
  <2> HIDE DEF told
  <2>3. /\ learnt.known = told.known /\ learnt.listed = told.listed
        /\ learnt.view = told.view \union {i}
    BY <1>3, <2>1 DEF Learn, Told
  <2> HIDE DEF learnt
  <2>4. j \in Sessions(s) /\ j \in ToSet(Members(s, no)) /\ Room(u, j) = Room(s, j)
    BY <1>2, <1>7, <1>11, <1>13
  <2>5. Room(s, j) = no /\ no # 0
    BY <1>1, <2>4 DEF Sound, Lists, Numbers
  <2>6. ASSUME Right(s, j, told) PROVE Right(u, j, learnt)
    <3>1. u.broke = s.broke /\ Rooms(u) = Rooms(s) /\ Room(u, j) = no
      BY <1>5, <1>7, <2>4, <2>5
    <3>2. ToSet(Members(u, no)) = ToSet(Members(s, no)) \union {i}
      BY <1>2, <1>7
    <3> QED BY <2>3, <2>5, <2>6, <3>1, <3>2 DEF Right
  <2> QED BY <2>2, <2>6 DEF told, learnt
<1>14. Room(u, i) = no /\ no \in Rooms(u)
  BY <1>5, <1>7
<1>15. Keeps(s, UnicastAll(u, Others(Members(u, no), i), c))
  <2>1. Keeps(u, UnicastAll(u, Others(Members(u, no), i), c))
    BY <1>4, <1>7, <1>8, <1>12, <1>13, <1>14, TellOthers
  <2> QED BY <1>5, <1>7, <2>1 DEF Keeps
<1> QED BY <1>8, <1>14, <1>15

LEMMA RoomEnterKeeps ==
  ASSUME NEW s, ServerInv(s), s.down = "no", NEW i \in Sessions(s), NEW no \in Nat
  PROVE  Keeps(s, RoomEnter(s, i, no))
<1> DEFINE full == Len(Members(s, no)) + 1 > MaxRoomSession
           m == [type |-> "RES_ROOM_ENTER", members |-> ToSet(Members(Entered(s, i, no), no))]
           c == [type |-> "RES_USER_ENTER", id |-> i]
           answered == EnterAnswered(s, i, no)
<1>1. RoomEnter(s, i, no) =
        IF ~InRoom(s, no) THEN Down(s, "no room")
        ELSE IF answered.down # "no" THEN answered
        ELSE IF ~InRoom(answered, Room(answered, i)) THEN Down(answered, "roomless")
        ELSE UnicastAll(answered, Others(Members(answered, Room(answered, i)), i), c)
  BY DEF RoomEnter
<1>2. Sound(s) /\ i \in Nat /\ s \in Server
  BY SessionOf DEF ServerInv, Sound, Sessions
<1>3. CASE ~InRoom(s, no)
  BY <1>1, <1>3, DownKeeps
<1>4. CASE InRoom(s, no) /\ (full \/ Room(s, i) # 0)
  <2> DEFINE f == [type |-> "RES_FAILED"]
  <2>1. answered = Unicast(s, i, f) /\ f.type = "RES_FAILED"
    BY <1>4 DEF EnterAnswered
  <2> HIDE DEF answered, f
  <2>2. Keeps(s, answered)
    BY <2>1, PlainAnswer
  <2>3. MessageOK(f)
    BY <2>1 DEF MessageOK
  <2>4. answered.down = "no" /\ i \in Sessions(answered)
    BY <1>2, <2>1, <2>3, UnicastFacts DEF Sessions, SameTables
  <2>7. ServerInv(answered) /\ Sessions(answered) = Sessions(s)
    BY <2>2 DEF Keeps
  <2>5. CASE ~InRoom(answered, Room(answered, i))
    <3>1. Keeps(answered, Down(answered, "roomless"))
      BY <2>7, DownKeeps
    <3> QED BY <1>1, <1>4, <2>4, <2>5, <2>7, <3>1 DEF Keeps
  <2>6. CASE InRoom(answered, Room(answered, i))
    <3>1. Room(answered, i) \in Rooms(answered)
      BY <2>6 DEF InRoom, Rooms
    <3>2. Keeps(answered, UnicastAll(answered, Others(Members(answered, Room(answered, i)), i), c))
      BY <2>4, <2>7, <3>1, AnnounceKeeps
    <3> QED BY <1>1, <1>4, <2>4, <2>6, <2>7, <3>2 DEF Keeps
  <2> QED BY <2>5, <2>6
<1>5. CASE /\ InRoom(s, no) /\ ~(full \/ Room(s, i) # 0)
           /\ ~(ToSet(Members(s, no)) \subseteq DOMAIN s.session_map)
  <2>1. answered = Down(s, "ghost")
    BY <1>5 DEF EnterAnswered
  <2>2. s.broke
    BY <1>2, <1>5 DEF Sound, Agree, Sessions, InRoom, Rooms
  <2>3. Down(s, "ghost").down = "ghost"
    BY <1>2 DEF Down, Server
  <2> HIDE DEF answered
  <2> QED BY <1>1, <1>5, <2>1, <2>2, <2>3, DownKeeps
<1>6. CASE /\ InRoom(s, no) /\ ~(full \/ Room(s, i) # 0)
           /\ ToSet(Members(s, no)) \subseteq DOMAIN s.session_map
  <2>1. answered = Unicast(Entered(s, i, no), i, m)
    BY <1>6 DEF EnterAnswered
  <2>2. no \in Rooms(s) /\ Room(s, i) = 0 /\ ToSet(Members(s, no)) \subseteq Sessions(s)
    BY <1>6 DEF InRoom, Rooms, Sessions
  <2>5. /\ m = [type |-> "RES_ROOM_ENTER", members |-> ToSet(Members(Entered(s, i, no), no))]
        /\ c = [type |-> "RES_USER_ENTER", id |-> i]
    OBVIOUS
  <2> HIDE DEF answered, full, m, c
  <2>3. /\ answered.down = "no" /\ Room(answered, i) = no /\ no \in Rooms(answered)
        /\ Keeps(s, UnicastAll(answered, Others(Members(answered, no), i), c))
    BY <2>1, <2>2, <2>5, EnteredKeeps
  <2>4. InRoom(answered, Room(answered, i))
    BY <2>3 DEF InRoom, Rooms
  <2> QED BY <1>1, <1>6, <2>3, <2>4
<1> QED BY <1>3, <1>4, <1>5, <1>6

\* The room is told, and then the session leaves it.
LEMMA LeftKeeps ==
  ASSUME NEW s, ServerInv(s), s.down = "no", NEW i \in Sessions(s), NEW no \in Rooms(s),
         Room(s, i) = no,
         NEW m, m = [type |-> "RES_ROOM_LEAVE", id |-> i],
         NEW t, t = UnicastAll(s, Members(s, no), m),
         NEW u, u = Exit_room(t, i)
  PROVE  /\ t.down # "no" => Keeps(s, t)
         /\ t.down = "no" => /\ Keeps(s, u) /\ u.down = "no" /\ no \in Rooms(u)
                             /\ Members(u, no) \in Seq(Nat)
<1> DEFINE J == ToSet(Members(s, no))
<1>1. /\ Sound(s) /\ i \in Nat /\ s \in Server /\ no \in Nat /\ Members(s, no) \in Seq(Nat)
      /\ no # 0 /\ \A j \in Sessions(s) : RightOrFlagged(s, j)
  BY SessionOf, MembersType DEF ServerInv, Sound, Numbers, Knows, Sessions
<1>2. m.type = "RES_ROOM_LEAVE" /\ m.id = i
  OBVIOUS
<1>3. Reached(s, t, J, m)
  <2>1. MessageOK(m)
    BY <1>1, <1>2 DEF MessageOK
  <2>2. IsInjective(Members(s, no))
    BY <1>1 DEF Sound, Lists
  <2> HIDE DEF J
  <2>3. Reached(s, UnicastAll(s, Members(s, no), m), ToSet(Members(s, no)), m)
    BY <1>1, <2>1, <2>2, UnicastAllReaches
  <2> QED BY <2>3 DEF J
<1>4. ~s.broke => J \subseteq Sessions(s)
  BY <1>1 DEF Sound, Agree
<1> HIDE DEF J
<1>5. /\ Sound(t) /\ Sessions(t) = Sessions(s) /\ Rooms(t) = Rooms(s) /\ t.broke = s.broke
      /\ \A r : Members(t, r) = Members(s, r)
      /\ \A j \in Sessions(s) : Room(t, j) = Room(s, j)
  BY ONLY <1>1, <1>3, <1>4, SendSound
<1>6. ASSUME t.down # "no" PROVE Keeps(s, t)
  BY <1>5, <1>6 DEF Keeps, ServerInv, Knows
<1>7. ASSUME t.down = "no"
      PROVE  Keeps(s, u) /\ u.down = "no" /\ no \in Rooms(u) /\ Members(u, no) \in Seq(Nat)
  <2>1. /\ Sound(u) /\ Moved(t, u, i, 0, no, Others(Members(t, no), i))
        /\ ToSet(Members(u, no)) = J \ {i}
    <3>1. i \in Sessions(t) /\ no \in Rooms(t) /\ Room(t, i) = no
      BY <1>5
    <3>2. ToSet(Members(t, no)) = J
      BY <1>5 DEF J
    <3> QED BY <1>5, <3>1, <3>2, ExitFacts
  <2>2. /\ Sessions(u) = Sessions(s) /\ Rooms(u) = Rooms(s) /\ u.broke = s.broke
        /\ u.down = "no" /\ u \in Server /\ Room(u, i) = 0
        /\ \A j \in Sessions(s) : j # i => Room(u, j) = Room(s, j)
        /\ \A r \in Rooms(s) : r # no => Members(u, r) = Members(s, r)
        /\ \A j \in Sessions(s) :
             /\ u.session_map[j].disconnect_flag = t.session_map[j].disconnect_flag
             /\ u.session_map[j].told = t.session_map[j].told
    BY <1>5, <1>7, <2>1 DEF Moved
  <2>3. ASSUME NEW j \in Sessions(s), j \notin J PROVE RightOrFlagged(u, j)
    <3>1. t.session_map[j] = s.session_map[j]
      <4>1. j \in DOMAIN s.session_map
        BY DEF Sessions
      <4> QED BY <1>3, <2>3, <4>1 DEF Reached
    <3>2. ~s.broke => Room(s, j) # no
      BY <1>1, <2>3 DEF Sound, Agree, J
    <3>3. ~s.broke => Room(s, j) = 0 \/ Room(s, j) \in Rooms(s)
      BY <1>1 DEF Sound, Agree
    <3>4. ~s.broke => /\ Room(u, j) = Room(s, j)
                      /\ Room(s, j) = 0 \/ Members(u, Room(s, j)) = Members(s, Room(s, j))
      BY <2>2, <3>2, <3>3
    <3>5. \A told : Right(s, j, told) => Right(u, j, told)
      BY <2>2, <3>4 DEF Right
    <3> QED BY <1>1, <2>2, <3>1, <3>5 DEF RightOrFlagged
  <2>4. ASSUME NEW j \in Sessions(s), j \in J PROVE RightOrFlagged(u, j)
    <3> DEFINE told == s.session_map[j].told
               learnt == Learn(told, j, m)
    <3>1. told \in Told
      BY <1>1, SessionOf DEF Sessions
    <3>2. /\ t.session_map[j].disconnect_flag \/ t.session_map[j].told = learnt
          /\ s.session_map[j].disconnect_flag => t.session_map[j].disconnect_flag
      <4>1. j \in DOMAIN s.session_map
        BY DEF Sessions
      <4> QED BY <1>3, <1>7, <2>4, <4>1 DEF Reached
    <3>3. s.session_map[j].disconnect_flag \/ Right(s, j, told)
      BY <1>1 DEF RightOrFlagged
    <3> HIDE DEF told
    <3>4. /\ learnt.known = told.known /\ learnt.listed = told.listed
          /\ learnt.view = IF i = j THEN {} ELSE told.view \ {i}
      BY <1>2, <3>1 DEF Learn, Told
    <3> HIDE DEF learnt
    <3>5. Room(s, j) = no
      BY <1>1, <2>4 DEF Sound, Lists, J
    <3>6. ASSUME Right(s, j, told) PROVE Right(u, j, learnt)
      <4>1. ~s.broke => told.view = J
        BY <1>1, <3>5, <3>6 DEF Right, J
      <4>2. CASE j = i
        BY <2>2, <3>4, <3>6, <4>2 DEF Right
      <4>3. CASE j # i
        BY <1>1, <2>1, <2>2, <3>4, <3>5, <3>6, <4>1, <4>3 DEF Right
      <4> QED BY <4>2, <4>3
    <3> QED BY <2>2, <3>2, <3>3, <3>6 DEF RightOrFlagged
  <2>5. no \in Rooms(u) /\ Members(u, no) \in Seq(Nat)
    BY <2>2, MembersType
  <2> QED BY <2>1, <2>2, <2>3, <2>4, <2>5 DEF Keeps, ServerInv, Knows
<1> QED BY <1>6, <1>7

\* A room that is empty is taken away, and everybody is told.
LEMMA GoneKeeps ==
  ASSUME NEW s, ServerInv(s), s.down = "no", NEW no \in Rooms(s), Members(s, no) = <<>>,
         NEW t, t = Closed(s, no),
         NEW m, m = [type |-> "RES_ROOM_DELETE", no |-> no]
  PROVE  Keeps(s, Broadcast(t, m))
<1>1. Sound(s) /\ s \in Server /\ no \in Nat /\ \A j \in Sessions(s) : RightOrFlagged(s, j)
  BY MembersType DEF ServerInv, Sound, Knows
<1>2. ToSet(Members(s, no)) = {}
  BY DEF ToSet
<1>3. /\ Sound(t) /\ Sessions(t) = Sessions(s) /\ Rooms(t) = Rooms(s) \ {no}
      /\ t.session_map = s.session_map /\ t.broke = s.broke /\ t.down = "no"
      /\ \A r \in Rooms(t) : Members(t, r) = Members(s, r)
      /\ ~s.broke => \A i \in Sessions(s) : Room(s, i) # no
  BY <1>1, <1>2, GoneFacts
<1>4. m.type = "RES_ROOM_DELETE" /\ m.no = no
  OBVIOUS
<1>5. MessageOK(m)
  BY <1>1, <1>4 DEF MessageOK
<1>6. Reached(t, Broadcast(t, m), Sessions(t), m)
  BY <1>3, <1>5, BroadcastReaches DEF Sound
<1>7. ASSUME NEW j \in Sessions(t)
      PROVE  \/ t.session_map[j].disconnect_flag
             \/ Right(t, j, Learn(t.session_map[j].told, j, m))
  <2> DEFINE told == t.session_map[j].told
             learnt == Learn(told, j, m)
  <2>1. told \in Told
    BY <1>3, SessionOf DEF Sessions, Sound
  <2>2. j \in Sessions(s) /\ (t.session_map[j].disconnect_flag \/ Right(s, j, told))
    BY <1>1, <1>3 DEF RightOrFlagged
  <2> HIDE DEF told
  <2>3. /\ learnt.known = told.known \ {no} /\ learnt.listed = told.listed
        /\ learnt.view = told.view
    BY <1>4, <2>1 DEF Learn, Told
  <2> HIDE DEF learnt
  <2>4. Room(t, j) = Room(s, j)
    BY <1>3 DEF Room
  <2>5. ~s.broke => Room(s, j) = 0 \/ Members(t, Room(s, j)) = Members(s, Room(s, j))
    BY <1>1, <1>3, <2>2 DEF Sound, Agree
  <2>6. ASSUME Right(s, j, told) PROVE Right(t, j, learnt)
    BY <1>3, <2>3, <2>4, <2>5, <2>6 DEF Right
  <2> QED BY <2>2, <2>6 DEF told, learnt
<1>8. Keeps(t, Broadcast(t, m))
  BY <1>3, <1>6, <1>7, SendKnows
<1> QED BY <1>3, <1>8 DEF Keeps

LEMMA RoomLeaveKeeps ==
  ASSUME NEW s, ServerInv(s), s.down = "no", NEW i \in Sessions(s),
         NEW x \in RoomLeave(s, i)
  PROVE  Keeps(s, x)
<1> DEFINE no == Room(s, i)
           m == [type |-> "RES_ROOM_LEAVE", id |-> i]
           c == [type |-> "RES_ROOM_DELETE", no |-> no]
           t == UnicastAll(s, Members(s, no), m)
           u == Exit_room(t, i)
<1>1. RoomLeave(s, i) =
        IF ~InRoom(s, no) THEN {Down(s, "roomless")}
        ELSE IF t.down # "no" THEN {t}
        ELSE {IF Members(u, no) # <<>> THEN u ELSE Broadcast(Closed(u, no), c)}
             \cup (IF i \in ToSet(Members(s, no)) THEN {Down(s, "erased")} ELSE {})
  BY DEF RoomLeave
<1>2. \A why \in {"roomless", "erased"} : Keeps(s, Down(s, why))
  BY DownKeeps
<1>3. CASE ~InRoom(s, no)
  BY <1>1, <1>2, <1>3
<1>4. CASE InRoom(s, no)
  <2>1. no \in Rooms(s)
    BY <1>4 DEF InRoom, Rooms
  <2>2. /\ no = Room(s, i) /\ m = [type |-> "RES_ROOM_LEAVE", id |-> i]
        /\ c = [type |-> "RES_ROOM_DELETE", no |-> no]
        /\ t = UnicastAll(s, Members(s, no), m) /\ u = Exit_room(t, i)
    OBVIOUS
  <2> HIDE DEF no, m, c, t, u
  <2>3. /\ t.down # "no" => Keeps(s, t)
        /\ t.down = "no" => Keeps(s, u) /\ u.down = "no" /\ no \in Rooms(u)
    BY ONLY ServerInv(s), s.down = "no", i \in Sessions(s), <2>1, <2>2, LeftKeeps
  <2>4. ASSUME t.down = "no", Members(u, no) = <<>>
        PROVE  Keeps(s, Broadcast(Closed(u, no), c))
    <3>1. ServerInv(u) /\ Sessions(u) = Sessions(s)
      BY <2>3, <2>4 DEF Keeps
    <3>2. Keeps(u, Broadcast(Closed(u, no), c))
      BY <2>2, <2>3, <2>4, <3>1, GoneKeeps
    <3> QED BY <3>1, <3>2 DEF Keeps
  <2> QED BY <1>1, <1>2, <1>4, <2>3, <2>4
<1> QED BY <1>3, <1>4

LEMMA PacketKeeps ==
  ASSUME NEW s, ServerInv(s), s.down = "no", NEW i \in Sessions(s), NEW p \in Requests,
         NEW t \in PacketProc(s, i, p)
  PROVE  Keeps(s, t)
<1>1. CASE p.type = "REQ_LOGIN"
  <2>1. p.name \in Names /\ t \in Login(s, i, p.name)
    BY <1>1 DEF Requests, PacketProc
  <2> QED BY <2>1, LoginKeeps
<1>2. CASE p.type = "REQ_ROOM_LIST"
  <2>1. t = RoomList(s, i)
    BY <1>2 DEF PacketProc
  <2> QED BY <2>1, RoomListKeeps
<1>3. CASE p.type = "REQ_ROOM_CREATE"
  <2>1. p.name \in RoomNames /\ t = RoomCreate(s, i, p.name)
    BY <1>3 DEF Requests, PacketProc
  <2> QED BY <2>1, RoomCreateKeeps
<1>4. CASE p.type = "REQ_ROOM_ENTER"
  <2>1. p.no \in Nat /\ t = RoomEnter(s, i, p.no)
    BY <1>4 DEF Requests, PacketProc
  <2> QED BY <2>1, RoomEnterKeeps
<1>5. CASE p.type = "REQ_CHAT"
  <2>1. t = Chat(s, i)
    BY <1>5 DEF PacketProc
  <2> QED BY <2>1, ChatKeeps
<1>6. CASE p.type = "REQ_ROOM_LEAVE"
  <2>1. t \in RoomLeave(s, i)
    BY <1>6 DEF PacketProc
  <2> QED BY <2>1, RoomLeaveKeeps
<1>7. p.type \in {"REQ_LOGIN", "REQ_ROOM_LIST", "REQ_ROOM_CREATE", "REQ_ROOM_ENTER",
                  "REQ_CHAT", "REQ_ROOM_LEAVE"}
  BY DEF Requests
<1> QED BY <1>1, <1>2, <1>3, <1>4, <1>5, <1>6, <1>7

-----------------------------------------------------------------------------
(* The loop *)

LEMMA QueueKeeps ==
  ASSUME NEW s, ServerInv(s), s.down = "no", NEW i \in Sessions(s),
         NEW t, t = emplace_disconnect_queue(s, i)
  PROVE  Keeps(s, t) /\ t.down = "no"
<1>1. /\ Sound(s) /\ s \in Server /\ i \in DOMAIN s.session_map
      /\ \A j \in Sessions(s) : RightOrFlagged(s, j)
  BY DEF ServerInv, Sound, Knows, Sessions
<1>2. /\ t \in Server /\ SameTables(s, t) /\ t.down = "no"
      /\ Flagged(s, t, i) /\ OthersKept(s, t, i)
  BY <1>1, QueueFacts
<1>3. /\ t.chatRoom_map = s.chatRoom_map /\ t.session_pool = s.session_pool /\ t.id = s.id
      /\ t.room_id = s.room_id /\ t.broke = s.broke /\ Sessions(t) = Sessions(s)
  BY <1>2 DEF SameTables, Sessions
<1>4. /\ Rooms(t) = Rooms(s) /\ \A no : Members(t, no) = Members(s, no)
      /\ \A j \in Sessions(s) : Room(t, j) = Room(s, j)
  BY <1>2, <1>3 DEF Rooms, Members, Room, OthersKept, Sessions
<1>5. Queued(t)
  BY <1>1, <1>2, QueuedMore DEF Sound
<1>6. Numbers(t) /\ Lists(t)
  BY <1>1, <1>3, <1>4 DEF Sound, Numbers, Lists
<1>7. Agree(t)
  BY <1>1, <1>2, <1>3, <1>4 DEF Sound, Agree
<1>8. ASSUME NEW j \in Sessions(t) PROVE RightOrFlagged(t, j)
  <2>1. CASE j = i
    BY <1>2, <2>1 DEF Flagged, RightOrFlagged
  <2>2. CASE j # i
    <3>1. t.session_map[j] = s.session_map[j] /\ j \in Sessions(s)
      BY <1>2, <1>3, <2>2 DEF OthersKept, Sessions
    <3> QED BY <1>1, <1>3, <1>4, <3>1 DEF RightOrFlagged, Right
  <2> QED BY <2>1, <2>2
<1> QED BY <1>2, <1>3, <1>5, <1>6, <1>7, <1>8 DEF Keeps, ServerInv, Sound, Knows

LEMMA SendKeeps ==
  ASSUME NEW s, ServerInv(s), s.down = "no", NEW i \in Sessions(s),
         NEW t, t = Send_Proc(s, i)
  PROVE  Keeps(s, t) /\ t.down = "no"
<1>1. CASE line[i] = "reset"
  BY <1>1, QueueKeeps DEF Send_Proc
<1>2. CASE line[i] # "reset"
  <2> DEFINE x == [s.session_map[i] EXCEPT !.send_buf = 0]
             f == [s.session_map EXCEPT ![i] = x]
  <2>1. /\ Sound(s) /\ s \in Server /\ i \in DOMAIN s.session_map
        /\ s.session_map \in TableOf(Session) /\ \A j \in Sessions(s) : RightOrFlagged(s, j)
    BY DEF ServerInv, Sound, Knows, Sessions, Server
  <2>2. s.session_map[i] \in Session
    BY <2>1, TableType
  <2>3. /\ x \in Session /\ x.no = s.session_map[i].no /\ x.told = s.session_map[i].told
        /\ x.disconnect_flag = s.session_map[i].disconnect_flag
    BY <2>2 DEF Session
  <2>4. t = [s EXCEPT !.session_map = f]
    BY <1>2, <2>1 DEF Send_Proc, Server
  <2> HIDE DEF x
  <2>5. /\ f \in TableOf(Session) /\ DOMAIN f = DOMAIN s.session_map /\ f[i] = x
        /\ \A j \in DOMAIN s.session_map : j # i => f[j] = s.session_map[j]
    BY <2>1, <2>3, TableExcept
  <2> HIDE DEF f
  <2>6. /\ t \in Server /\ t.session_map = f /\ t.chatRoom_map = s.chatRoom_map
        /\ t.disconnect_queue = s.disconnect_queue /\ t.session_pool = s.session_pool
        /\ t.id = s.id /\ t.room_id = s.room_id /\ t.down = s.down /\ t.broke = s.broke
    BY <2>1, <2>4, <2>5 DEF Server
  <2>7. \A j \in DOMAIN s.session_map :
          /\ f[j].no = s.session_map[j].no /\ f[j].told = s.session_map[j].told
          /\ f[j].disconnect_flag = s.session_map[j].disconnect_flag
    BY <2>3, <2>5
  <2>8. /\ Sessions(t) = Sessions(s) /\ Rooms(t) = Rooms(s)
        /\ \A no : Members(t, no) = Members(s, no)
        /\ \A j \in Sessions(s) : Room(t, j) = Room(s, j)
    BY <2>5, <2>6, <2>7 DEF Sessions, Rooms, Members, Room
  <2>9. Queued(t)
    BY <2>1, <2>5, <2>6, <2>7 DEF Sound, Queued
  <2>10. Numbers(t) /\ Lists(t)
    BY <2>1, <2>6, <2>8 DEF Sound, Numbers, Lists
  <2>11. Agree(t)
    BY <2>1, <2>6, <2>8 DEF Sound, Agree
  <2>12. ASSUME NEW j \in Sessions(t) PROVE RightOrFlagged(t, j)
    <3>1. /\ j \in Sessions(s) /\ t.session_map[j].told = s.session_map[j].told
          /\ t.session_map[j].disconnect_flag = s.session_map[j].disconnect_flag
      BY <2>6, <2>7, <2>8 DEF Sessions
    <3> QED BY <2>1, <2>6, <2>8, <3>1 DEF RightOrFlagged, Right
  <2> QED BY <2>6, <2>8, <2>9, <2>10, <2>11, <2>12 DEF Keeps, ServerInv, Sound, Knows
<1> QED BY <1>1, <1>2

LEMMA RecvKeeps ==
  ASSUME NEW s, ServerInv(s), s.down = "no", NEW i \in Sessions(s),
         net[i] \in Seq(Requests), NEW t \in Recv_Proc(s, i)
  PROVE  Keeps(s, t)
<1>1. CASE net[i] = <<>>
  BY <1>1, QueueKeeps DEF Recv_Proc
<1>2. CASE net[i] # <<>>
  <2>1. Head(net[i]) \in Requests
    BY <1>2, HeadTailProperties
  <2>2. t \in PacketProc(s, i, Head(net[i]))
    BY <1>2 DEF Recv_Proc
  <2> QED BY <2>1, <2>2, PacketKeeps
<1> QED BY <1>1, <1>2

\* A new session, with what its object was left with.
LEMMA AcceptKeeps ==
  ASSUME ServerInv(server), server.down = "no", Accept_Proc
  PROVE  ServerInv(server') /\ Sessions(server) \subseteq Sessions(server')
<1> DEFINE s == server
           t == server'
           pool == s.session_pool
           k == s.id
           no == IF pool = <<>> THEN 0 ELSE Head(pool)
           rest == IF pool = <<>> THEN pool ELSE Tail(pool)
<1>1. /\ Sound(s) /\ s \in Server /\ k \in Nat /\ pool \in Seq(Nat)
      /\ s.session_map \in TableOf(Session) /\ \A j \in Sessions(s) : RightOrFlagged(s, j)
  BY DEF ServerInv, Sound, Knows, Server
<1>2. PICK ok \in BOOLEAN :
        t = [s EXCEPT !.id = @ + 1, !.session_pool = rest,
                      !.session_map =
                        Inserted(@, k, [no |-> no, disconnect_flag |-> FALSE,
                                        send_buf |-> 0, sock |-> ok, told |-> Untold])]
  BY DEF Accept_Proc
<1> DEFINE x == [no |-> no, disconnect_flag |-> FALSE, send_buf |-> 0, sock |-> ok,
                 told |-> Untold]
           f == Inserted(s.session_map, k, x)
<1>3. /\ no \in Nat /\ rest \in Seq(Nat) /\ ToSet(rest) \subseteq ToSet(pool)
      /\ no = 0 \/ no \in ToSet(pool)
  <2>1. CASE pool = <<>>
    BY <1>1, <2>1
  <2>2. CASE pool # <<>>
    <3>1. /\ Len(pool) \in Nat \ {0} /\ Head(pool) \in Nat /\ Head(pool) = pool[1]
          /\ Tail(pool) \in Seq(Nat) /\ Len(Tail(pool)) = Len(pool) - 1
          /\ \A c \in 1 .. Len(Tail(pool)) : Tail(pool)[c] = pool[c + 1]
      BY <1>1, <2>2, HeadTailProperties
    <3>2. DOMAIN pool = 1 .. Len(pool) /\ DOMAIN Tail(pool) = 1 .. Len(Tail(pool))
      BY <1>1, <3>1, LenProperties
    <3>3. 1 \in DOMAIN pool /\ \A c \in 1 .. Len(Tail(pool)) : c + 1 \in DOMAIN pool
      BY <3>1, <3>2
    <3>4. ToSet(Tail(pool)) \subseteq ToSet(pool) /\ Head(pool) \in ToSet(pool)
      BY <3>1, <3>2, <3>3 DEF ToSet
    <3> QED BY <2>2, <3>1, <3>4
  <2> QED BY <2>1, <2>2
<1> HIDE DEF no, rest
<1>4. /\ x \in Session /\ x.no = no /\ x.disconnect_flag = FALSE
      /\ x.told.known = {} /\ x.told.listed = FALSE /\ x.told.view = {}
  <2>1. Untold \in Told /\ Untold.known = {} /\ Untold.listed = FALSE /\ Untold.view = {}
    BY DEF Untold, Told
  <2> QED BY <1>3, <2>1 DEF Session
<1>5. f = Inserted(s.session_map, k, x) /\ t = [s EXCEPT !.id = @ + 1, !.session_pool = rest,
                                                       !.session_map = f]
  BY <1>2
<1> HIDE DEF x, f
<1>6. f \in TableOf(Session) /\ OneMore(s.session_map, k, x, f)
  BY <1>1, <1>4, <1>5, NewEntry, Zenon
<1>7. \A j \in Sessions(s) : j < k
  BY <1>1 DEF Sound, Numbers
<1>8. k \notin Sessions(s)
  BY <1>1, <1>7
<1>9. /\ DOMAIN f = Sessions(s) \union {k} /\ f[k] = x
      /\ \A j \in Sessions(s) : f[j] = s.session_map[j]
  BY <1>6, <1>8 DEF OneMore, Sessions
<1>10. /\ t \in Server /\ t.session_map = f /\ t.chatRoom_map = s.chatRoom_map
       /\ t.disconnect_queue = s.disconnect_queue /\ t.session_pool = rest
       /\ t.id = k + 1 /\ t.room_id = s.room_id /\ t.down = "no" /\ t.broke = s.broke
  <2>1. k + 1 \in Nat
    BY <1>1
  <2> QED BY <1>1, <1>3, <1>5, <1>6, <2>1 DEF Server
<1> HIDE DEF k, s, t
<1>11. /\ Sessions(t) = Sessions(s) \union {k} /\ Rooms(t) = Rooms(s)
       /\ \A r : Members(t, r) = Members(s, r)
       /\ Room(t, k) = no /\ \A j \in Sessions(s) : Room(t, j) = Room(s, j)
  BY <1>4, <1>9, <1>10 DEF Sessions, Rooms, Members, Room
<1>12. \A r \in Rooms(s) : k \notin ToSet(Members(s, r))
  <2>1. \A r \in Rooms(s) : \A j \in ToSet(Members(s, r)) : j < k
    BY <1>1 DEF Sound, Lists, k
  <2> QED BY <1>1, <2>1
<1>13. ~s.broke => no = 0
  BY <1>1, <1>3 DEF Sound, Agree
<1>14. Numbers(t)
  <2>1. \A j \in Sessions(s) : j \in Nat /\ 1 <= j /\ j < k /\ k \in Nat /\ 1 <= k
    BY <1>1, SessionOf DEF Sound, Numbers, Sessions, k
  <2>2. k \in Nat /\ 1 <= k
    BY <1>1 DEF Sound, Numbers, k
  <2>3. \A j \in Sessions(t) : 1 <= j /\ j < k + 1
    BY <1>11, <2>1, <2>2
  <2> QED BY <1>1, <1>10, <1>11, <2>2, <2>3 DEF Sound, Numbers
<1>15. Queued(t)
  BY <1>1, <1>4, <1>8, <1>9, <1>10, <1>11 DEF Sound, Queued, Sessions
<1>16. Lists(t)
  <2>1. \A r \in Rooms(s) : \A j \in ToSet(Members(s, r)) : j < k + 1
    <3>1. \A r \in Rooms(s) : \A j \in ToSet(Members(s, r)) : j < k /\ j \in Nat
      BY <1>1, MembersType DEF Sound, Lists, k, ToSet
    <3> QED BY <1>1, <3>1
  <2> QED BY <1>1, <1>10, <1>11, <1>12, <2>1 DEF Sound, Lists
<1>17. Agree(t)
  BY <1>1, <1>3, <1>10, <1>11, <1>12, <1>13 DEF Sound, Agree
<1>18. ASSUME NEW j \in Sessions(t) PROVE RightOrFlagged(t, j)
  <2>1. CASE j = k
    <3>1. t.session_map[j] = x
      BY <1>9, <1>10, <2>1
    <3> QED BY <1>4, <1>10, <1>11, <1>13, <2>1, <3>1 DEF RightOrFlagged, Right
  <2>2. CASE j # k
    <3>1. t.session_map[j] = s.session_map[j] /\ j \in Sessions(s)
      BY <1>9, <1>10, <1>11, <2>2
    <3> QED BY <1>1, <1>10, <1>11, <3>1 DEF RightOrFlagged, Right
  <2> QED BY <2>1, <2>2
<1> QED BY <1>10, <1>11, <1>14, <1>15, <1>16, <1>17, <1>18 DEF ServerInv, Sound, Knows, s, t

\* q is cut in two, a and b.
Cut(V, q, a, b) ==
  /\ a \in Seq(V) /\ b \in Seq(V) /\ IsInjective(a) /\ IsInjective(b)
  /\ ToSet(a) \union ToSet(b) = ToSet(q) /\ ToSet(a) \intersect ToSet(b) = {}

LEMMA Halves ==
  ASSUME NEW V, NEW q \in Seq(V), IsInjective(q), NEW c \in 0 .. Len(q),
         NEW a, a = SubSeq(q, 1, c), NEW b, b = SubSeq(q, c + 1, Len(q))
  PROVE  Cut(V, q, a, b)
<1>1. Len(q) \in Nat /\ DOMAIN q = 1 .. Len(q) /\ \A k \in 1 .. Len(q) : q[k] \in V
  BY LenProperties, ElementOfSeq
<1>2. /\ a = [k \in 1 .. c |-> q[k]] /\ Len(a) = c /\ DOMAIN a = 1 .. c
      /\ b = [k \in 1 .. Len(q) - c |-> q[c + k]] /\ DOMAIN b = 1 .. Len(q) - c
  BY <1>1
<1>3. a \in Seq(V) /\ b \in Seq(V)
  <2>1. \A k \in 1 .. c : k \in 1 .. Len(q)
    BY <1>1
  <2>2. \A k \in 1 .. Len(q) - c : c + k \in 1 .. Len(q)
    BY <1>1
  <2>3. a \in [1 .. c -> V] /\ b \in [1 .. Len(q) - c -> V]
    BY <1>1, <1>2, <2>1, <2>2
  <2>4. c \in Nat /\ Len(q) - c \in Nat
    BY <1>1
  <2> QED BY <2>3, <2>4, SeqDef
<1>4. IsInjective(a) /\ IsInjective(b)
  <2>1. \A k, l \in 1 .. Len(q) : q[k] = q[l] => k = l
    BY <1>1 DEF IsInjective
  <2>2. \A k, l \in 1 .. c : a[k] = a[l] => k = l
    BY <1>1, <1>2, <2>1
  <2>3. \A k, l \in 1 .. Len(q) - c : b[k] = b[l] => k = l
    BY <1>1, <1>2, <2>1
  <2> QED BY <1>2, <2>2, <2>3 DEF IsInjective
<1>5. ToSet(a) = {q[k] : k \in 1 .. c}
  <2>1. DOMAIN a = 1 .. c /\ \A k \in 1 .. c : a[k] = q[k]
    BY <1>2
  <2>2. \A x : x \in ToSet(a) <=> \E k \in 1 .. c : x = q[k]
    BY ONLY <2>1, Zenon DEF ToSet
  <2> QED BY ONLY <2>2, Zenon
<1>6. ToSet(b) = {q[k] : k \in c + 1 .. Len(q)}
  <2>1. \A k \in 1 .. Len(q) - c : c + k \in c + 1 .. Len(q) /\ b[k] = q[c + k]
    BY <1>1, <1>2
  <2>2. \A k \in c + 1 .. Len(q) : k - c \in 1 .. Len(q) - c /\ c + (k - c) = k
    BY <1>1
  <2>3. \A x : x \in ToSet(b) <=> \E k \in 1 .. Len(q) - c : x = b[k]
    <3>1. DOMAIN b = 1 .. Len(q) - c
      BY <1>2
    <3> QED BY ONLY <3>1, Zenon DEF ToSet
  <2>4. ASSUME NEW x PROVE (\E k \in 1 .. Len(q) - c : x = b[k]) <=> \E k \in c + 1 .. Len(q) : x = q[k]
    <3>1. ASSUME NEW k \in 1 .. Len(q) - c, x = b[k] PROVE \E l \in c + 1 .. Len(q) : x = q[l]
      BY ONLY <2>1, <3>1
    <3>2. ASSUME NEW k \in c + 1 .. Len(q), x = q[k] PROVE \E l \in 1 .. Len(q) - c : x = b[l]
      <4>1. k - c \in 1 .. Len(q) - c /\ b[k - c] = q[c + (k - c)] /\ c + (k - c) = k
        BY <2>1, <2>2
      <4> QED BY <3>2, <4>1
    <3> QED BY <3>1, <3>2
  <2> QED BY ONLY <2>3, <2>4, Zenon
<1>7. 1 .. Len(q) = (1 .. c) \union (c + 1 .. Len(q)) /\ (1 .. c) \intersect (c + 1 .. Len(q)) = {}
  BY <1>1
<1>8. ToSet(a) \union ToSet(b) = ToSet(q)
  BY <1>1, <1>5, <1>6, <1>7 DEF ToSet
<1>9. ToSet(a) \intersect ToSet(b) = {}
  <2>1. \A k \in 1 .. c, l \in c + 1 .. Len(q) : q[k] # q[l]
    BY <1>1, <1>7 DEF IsInjective
  <2> QED BY <1>5, <1>6, <2>1
<1> QED BY <1>3, <1>4, <1>8, <1>9 DEF Cut

LEMMA TakenSome ==
  ASSUME NEW V, NEW q \in Seq(V)
  PROVE  Taken(q) \in 0 .. Len(q) /\ (q # <<>> => 1 <= Taken(q))
<1>1. Len(q) \in Nat /\ (q # <<>> => Len(q) # 0)
  BY LenProperties, EmptySeq
<1> QED BY <1>1 DEF Taken

\* The disconnect pass frees the sessions at the head of the queue.
LEMMA PassFacts ==
  ASSUME NEW s, ServerInv(s), NEW q, q = s.disconnect_queue, NEW c, c = Taken(q),
         NEW s1, s1 = [s EXCEPT !.disconnect_queue = SubSeq(q, c + 1, Len(q))],
         NEW t, t = EraseAll(s1, SubSeq(q, 1, c))
  PROVE  /\ ServerInv(t) /\ Sessions(t) \subseteq Sessions(s)
         /\ q # <<>> => Head(q) \notin Sessions(t)
<1> DEFINE a == SubSeq(q, 1, c)
           b == SubSeq(q, c + 1, Len(q))
           J == ToSet(a)
<1>1. Sound(s) /\ s \in Server /\ q \in Seq(Nat) /\ c \in 0 .. Len(q)
  BY TakenSome DEF ServerInv, Sound, Server
<1>2. IsInjective(q) /\ ToSet(q) = {i \in DOMAIN s.session_map : s.session_map[i].disconnect_flag}
  BY <1>1 DEF Sound, Queued
<1>3. /\ a \in Seq(Nat) /\ b \in Seq(Nat) /\ IsInjective(a) /\ IsInjective(b)
      /\ J \union ToSet(b) = ToSet(q) /\ J \intersect ToSet(b) = {}
  <2>1. a = SubSeq(q, 1, c) /\ b = SubSeq(q, c + 1, Len(q)) /\ J = ToSet(a)
    OBVIOUS
  <2> HIDE DEF a, b, J
  <2>2. IsInjective(q)
    BY <1>2
  <2>3. Cut(Nat, q, a, b)
    BY <1>1, <2>1, <2>2, Halves, Zenon
  <2> QED BY <2>1, <2>3 DEF Cut
<1>4. q # <<>> => Head(q) \in J
  <2>1. SUFFICES ASSUME q # <<>> PROVE Head(q) \in J
    OBVIOUS
  <2>2. 1 <= c /\ Head(q) = q[1]
    BY <1>1, <2>1, TakenSome, HeadTailProperties
  <2>3. 1 \in DOMAIN a /\ a[1] = q[1]
    BY <1>1, <2>2
  <2> QED BY <2>2, <2>3 DEF ToSet
<1> HIDE DEF a, b
<1>5. s1 = [s EXCEPT !.disconnect_queue = b] /\ t = EraseAll(s1, a)
  BY DEF a, b
<1>6. /\ s1 \in Server /\ s1.session_map = s.session_map /\ s1.chatRoom_map = s.chatRoom_map
      /\ s1.disconnect_queue = b /\ s1.session_pool = s.session_pool
      /\ s1.id = s.id /\ s1.room_id = s.room_id /\ s1.down = s.down /\ s1.broke = s.broke
  BY <1>1, <1>3, <1>5 DEF Server
<1>7. J \subseteq DOMAIN s.session_map
  BY <1>2, <1>3
<1>8. Erased(s1, t, J)
  <2>1. a \in Seq(Nat) /\ IsInjective(a) /\ ToSet(a) \subseteq DOMAIN s1.session_map
    BY <1>3, <1>6, <1>7
  <2>2. Erased(s1, EraseAll(s1, a), ToSet(a))
    BY <1>6, <2>1, EraseAllErases, Zenon
  <2> QED BY <1>5, <2>2
<1> HIDE DEF J
<1>9. /\ t \in Server /\ t.disconnect_queue = b /\ t.chatRoom_map = s.chatRoom_map
      /\ t.id = s.id /\ t.room_id = s.room_id /\ t.down = s.down
      /\ DOMAIN t.session_map = DOMAIN s.session_map \ J
      /\ \A i \in DOMAIN t.session_map : t.session_map[i] = s.session_map[i]
      /\ ToSet(t.session_pool) = ToSet(s.session_pool) \union {s.session_map[j].no : j \in J}
      /\ ~t.broke => ~s.broke /\ \A j \in J : s.session_map[j].no = 0
  <2>1. /\ t \in Server /\ t.disconnect_queue = s1.disconnect_queue
        /\ t.chatRoom_map = s1.chatRoom_map
        /\ t.id = s1.id /\ t.room_id = s1.room_id /\ t.down = s1.down
        /\ DOMAIN t.session_map = DOMAIN s1.session_map \ J
        /\ \A i \in DOMAIN t.session_map : t.session_map[i] = s1.session_map[i]
        /\ ToSet(t.session_pool) =
             ToSet(s1.session_pool) \union {s1.session_map[j].no : j \in J}
        /\ ~t.broke => ~s1.broke /\ \A j \in J : s1.session_map[j].no = 0
    BY ONLY <1>8, Zenon DEF Erased
  <2> QED BY ONLY <1>6, <2>1
<1>10. /\ Sessions(t) = Sessions(s) \ J /\ Rooms(t) = Rooms(s)
       /\ \A r : Members(t, r) = Members(s, r)
       /\ \A i \in Sessions(t) : Room(t, i) = Room(s, i)
  BY <1>9 DEF Sessions, Rooms, Members, Room
<1>11. Queued(t)
  <2>1. \A i : i \in ToSet(b) <=>
               i \in DOMAIN t.session_map /\ t.session_map[i].disconnect_flag
    <3> TAKE i
    <3>1. i \in ToSet(b) <=> i \in ToSet(q) /\ i \notin J
      BY ONLY <1>3
    <3>2. i \in ToSet(q) <=> i \in DOMAIN s.session_map /\ s.session_map[i].disconnect_flag
      BY ONLY <1>2
    <3> QED BY ONLY <1>9, <3>1, <3>2
  <2>2. ToSet(b) = {i \in DOMAIN t.session_map : t.session_map[i].disconnect_flag}
    BY <2>1
  <2> QED BY <1>3, <1>9, <2>2 DEF Queued
<1>12. Numbers(t) /\ Lists(t)
  <2>1. t.id = s.id /\ t.room_id = s.room_id /\ Rooms(t) = Rooms(s)
    BY <1>9, <1>10
  <2>2. Sessions(t) \subseteq Sessions(s)
    BY <1>10
  <2>3. Numbers(t)
    BY ONLY <1>1, <2>1, <2>2 DEF Sound, Numbers
  <2>4. ASSUME NEW no \in Rooms(t)
        PROVE  /\ IsInjective(Members(t, no))
               /\ \A i \in ToSet(Members(t, no)) :
                    i < t.id /\ (i \in Sessions(t) => Room(t, i) = no)
    <3>1. Members(t, no) = Members(s, no) /\ no \in Rooms(s)
      BY <1>10
    <3>2. /\ IsInjective(Members(s, no))
          /\ \A i \in ToSet(Members(s, no)) : i < s.id /\ (i \in Sessions(s) => Room(s, i) = no)
      BY ONLY <1>1, <3>1 DEF Sound, Lists
    <3>3. \A i \in Sessions(t) : i \in Sessions(s) /\ Room(t, i) = Room(s, i)
      BY <1>10, <2>2
    <3>4. ASSUME NEW i \in ToSet(Members(s, no))
          PROVE  i < t.id /\ (i \in Sessions(t) => Room(t, i) = no)
      BY ONLY <2>1, <3>2, <3>3
    <3> QED BY ONLY <3>1, <3>2, <3>4
  <2> QED BY <2>3, <2>4 DEF Lists
<1>13. ~t.broke => ~s.broke /\ \A j \in J : Room(s, j) = 0
  BY <1>9 DEF Room
<1>14. Agree(t)
  <2>1. SUFFICES ASSUME ~t.broke PROVE Agree(t)
    BY DEF Agree
  <2>2. ToSet(t.session_pool) \subseteq {0}
    BY <1>1, <1>9, <1>13, <2>1 DEF Sound, Agree, Room
  <2>3. \A r \in Rooms(t) : ToSet(Members(t, r)) \subseteq Sessions(t)
    <3>1. ASSUME NEW r \in Rooms(s), NEW j \in ToSet(Members(s, r)) PROVE j \in Sessions(t)
      <4>1. j \in Sessions(s) /\ Room(s, j) = r /\ r # 0
        BY <1>1, <1>13, <2>1, <3>1, MembersType DEF Sound, Agree, Lists, Numbers
      <4> QED BY <1>10, <1>13, <2>1, <4>1
    <3> QED BY <1>10, <3>1
  <2>4. \A i \in Sessions(t) :
          Room(t, i) # 0 => Room(t, i) \in Rooms(t) /\ i \in ToSet(Members(t, Room(t, i)))
    <3> TAKE i \in Sessions(t)
    <3>1. i \in Sessions(s) /\ Room(t, i) = Room(s, i)
      BY <1>10
    <3>2. Room(s, i) # 0 => Room(s, i) \in Rooms(s) /\ i \in ToSet(Members(s, Room(s, i)))
      BY <1>1, <1>13, <2>1, <3>1 DEF Sound, Agree
    <3>3. Members(t, Room(s, i)) = Members(s, Room(s, i)) /\ Rooms(t) = Rooms(s)
      BY <1>10
    <3> QED BY ONLY <3>1, <3>2, <3>3
  <2>5. t.down # "ghost"
    BY <1>1, <1>9, <1>13, <2>1 DEF Sound, Agree
  <2> QED BY <2>2, <2>3, <2>4, <2>5 DEF Agree
<1>15. ASSUME t.down = "no", NEW i \in Sessions(t) PROVE RightOrFlagged(t, i)
  <2>1. i \in Sessions(s) /\ t.session_map[i] = s.session_map[i]
    BY <1>9, <1>10 DEF Sessions
  <2>2. RightOrFlagged(s, i)
    BY <1>9, <1>15, <2>1 DEF ServerInv, Knows
  <2>3. /\ Room(t, i) = Room(s, i) /\ Rooms(t) = Rooms(s)
        /\ Members(t, Room(s, i)) = Members(s, Room(s, i))
    BY <1>10
  <2>4. \A told : Right(s, i, told) => Right(t, i, told)
    BY ONLY <1>13, <2>3 DEF Right
  <2> QED BY <2>1, <2>2, <2>4 DEF RightOrFlagged
<1> QED BY <1>4, <1>9, <1>10, <1>11, <1>12, <1>14, <1>15 DEF ServerInv, Sound, Knows

-----------------------------------------------------------------------------
(* The specification *)

ChatInv ==
  /\ pending \in Nat /\ connects \in Nat /\ packets \in Nat
  /\ net \in [Ids -> Seq(Requests)] /\ line \in [Ids -> {"up", "fin", "reset"}]
  /\ phase \in {"select", "serve"}
  /\ readable \subseteq Sessions(server) \union {LISTEN} /\ writable \subseteq Sessions(server)
  /\ LISTEN \in readable => pending >= 1
  /\ ServerInv(server)

LEMMA ChatInvInit == ChatInit => ChatInv
<1> SUFFICES ASSUME ChatInit PROVE ChatInv
  OBVIOUS
<1>1. /\ server.session_map = <<>> /\ server.disconnect_queue = <<>>
      /\ server.chatRoom_map = <<>> /\ server.nickName_table = [c \in Names |-> 0]
      /\ server.session_pool = <<>> /\ server.id = 1 /\ server.room_id = 1
      /\ server.down = "no" /\ server.broke = FALSE
  BY DEF ChatInit
<1>2. DOMAIN <<>> = {} /\ ToSet(<<>>) = {} /\ IsInjective(<<>>) /\ <<>> \in Seq(Nat)
  BY EmptySeq DEF ToSet, IsInjective
<1>3. server \in Server
  <2>1. \A S : <<>> \in TableOf(S)
    <3> TAKE S
    <3>1. <<>> \in [{} -> S] /\ {} \in SUBSET Nat
      BY <1>2
    <3> QED BY <3>1 DEF TableOf
  <2>2. [c \in Names |-> 0] \in [Names -> Nat]
    OBVIOUS
  <2>3. <<>> \in TableOf(Session) /\ <<>> \in TableOf(ChatRoom)
    BY <2>1
  <2> QED BY <1>2, <2>2, <2>3 DEF ChatInit, Server
<1>4. Sessions(server) = {} /\ Rooms(server) = {}
  BY <1>1, <1>2 DEF Sessions, Rooms
<1>5. Queued(server)
  BY <1>1, <1>2 DEF Queued
<1>6. Numbers(server) /\ Lists(server) /\ Agree(server) /\ Knows(server)
  BY <1>1, <1>2, <1>4 DEF Numbers, Lists, Agree, Knows
<1>7. /\ pending = 0 /\ connects = 0 /\ packets = 0
      /\ net \in [Ids -> Seq(Requests)] /\ line \in [Ids -> {"up", "fin", "reset"}]
      /\ phase = "select" /\ readable = {} /\ writable = {}
  BY EmptySeq DEF ChatInit
<1> QED BY <1>3, <1>5, <1>6, <1>7 DEF ChatInv, ServerInv, Sound

LEMMA ClientKeeps == ChatInv /\ ClientStep => ChatInv'
<1> SUFFICES ASSUME ChatInv, ClientStep PROVE ChatInv'
  OBVIOUS
<1>1. CASE Connects
  BY <1>1 DEF Connects, ChatInv, loop
<1>2. ASSUME NEW i \in Ids, Hangs(i) PROVE ChatInv'
  <2>1. UNCHANGED <<pending, connects, packets, server, phase, readable, writable>>
    BY <1>2 DEF Hangs, loop
  <2>2. net' \in [Ids -> Seq(Requests)] /\ line' \in [Ids -> {"up", "fin", "reset"}]
    BY <1>2, EmptySeq DEF Hangs, ChatInv
  <2> QED BY <2>1, <2>2 DEF ChatInv
<1>3. ASSUME NEW i \in Ids, ClientSends(i) PROVE ChatInv'
  <2>1. ASSUME NEW p \in Requests, Send(i, p) PROVE ChatInv'
    <3>1. UNCHANGED <<pending, connects, line, server, phase, readable, writable>>
          /\ packets' \in Nat
      BY <2>1 DEF Send, loop, ChatInv
    <3>2. net' \in [Ids -> Seq(Requests)]
      <4>1. net[i] \in Seq(Requests) /\ net \in [Ids -> Seq(Requests)]
        BY DEF ChatInv
      <4>2. Append(net[i], p) \in Seq(Requests)
        BY <4>1, AppendProperties
      <4> QED BY <2>1, <4>1, <4>2 DEF Send
    <3> QED BY <3>1, <3>2 DEF ChatInv
  <2>2. PICK p : Send(i, p) /\ p \in Requests
    <3> DEFINE told == server.session_map[i].told
    <3>1. told \in Told
      BY <1>3, SessionOf DEF ClientSends, Up, Live, ChatInv, ServerInv, Sound
    <3>2. told.known \subseteq Nat
      BY <3>1 DEF Told
    <3>3. CASE \E c \in Names : Send(i, [type |-> "REQ_LOGIN", name |-> c])
      BY <3>3 DEF Requests
    <3>4. CASE Send(i, [type |-> "REQ_ROOM_LIST"])
      BY <3>4 DEF Requests
    <3>5. CASE \E c \in RoomNames : Send(i, [type |-> "REQ_ROOM_CREATE", name |-> c])
      BY <3>5 DEF Requests
    <3>6. CASE \E no \in told.known : Send(i, [type |-> "REQ_ROOM_ENTER", no |-> no])
      BY <3>2, <3>6 DEF Requests
    <3>7. CASE Send(i, [type |-> "REQ_CHAT"])
      BY <3>7 DEF Requests
    <3>8. CASE Send(i, [type |-> "REQ_ROOM_LEAVE"])
      BY <3>8 DEF Requests
    <3> QED BY <1>3, <3>3, <3>4, <3>5, <3>6, <3>7, <3>8 DEF ClientSends
  <2> QED BY <2>1, <2>2
<1> QED BY <1>1, <1>2, <1>3 DEF ClientStep

LEMMA ListenApart ==
  ASSUME ServerInv(server)
  PROVE  Ids \subseteq Nat \ {0} /\ LISTEN = 0 /\ Sessions(server) \subseteq Nat \ {0}
<1>1. Ids \subseteq Nat \ {0}
  BY ChatAssumption DEF Ids
<1>2. Sessions(server) \subseteq Nat \ {0}
  <2>1. server \in Server /\ \A i \in Sessions(server) : 1 <= i
    BY DEF ServerInv, Sound, Numbers
  <2> QED BY <2>1, SessionOf DEF Sessions
<1> QED BY <1>1, <1>2 DEF LISTEN

LEMMA SelectKeeps == ChatInv /\ Select => ChatInv'
<1> SUFFICES ASSUME ChatInv, Select PROVE ChatInv'
  OBVIOUS
<1>1. UNCHANGED <<pending, connects, packets, net, line, server>> /\ phase' = "serve"
  BY DEF Select, clients
<1>2. readable' \subseteq CanRead /\ writable' \subseteq CanWrite
  BY DEF Select
<1>3. Sessions(server) = Live
  BY DEF Sessions, Live
<1>4. readable' \subseteq Sessions(server) \union {LISTEN} /\ writable' \subseteq Sessions(server)
  BY <1>2, <1>3 DEF CanRead, CanWrite
<1>5. LISTEN \in readable' => pending >= 1
  <2>1. LISTEN \notin Live
    BY <1>3, ListenApart DEF ChatInv
  <2>2. LISTEN \in readable' => pending > 0
    BY <1>2, <2>1 DEF CanRead
  <2> QED BY <2>2 DEF ChatInv
<1> QED BY <1>1, <1>4, <1>5 DEF ChatInv

LEMMA ServeKeeps ==
  ASSUME ChatInv, server.down = "no", NEW i \in Ids, Serve(i)
  PROVE  ChatInv'
<1> DEFINE served == IF i \in writable THEN Send_Proc(server, i) ELSE server
<1>1. /\ i \in Sessions(server) /\ i \in readable \union writable
      /\ readable' = readable \ {i} /\ writable' = writable \ {i}
      /\ UNCHANGED <<pending, connects, packets, line, phase>>
  BY ListenApart DEF Serve, ChatInv
<1>2. ServerInv(served) /\ served.down = "no" /\ Sessions(served) = Sessions(server)
  <2>1. ServerInv(server)
    BY DEF ChatInv
  <2>2. Keeps(server, Send_Proc(server, i)) /\ Send_Proc(server, i).down = "no"
    BY <1>1, <2>1, SendKeeps
  <2> QED BY <2>1, <2>2 DEF Keeps
<1>3. net[i] \in Seq(Requests) /\ net \in [Ids -> Seq(Requests)]
  BY DEF ChatInv
<1>4. ServerInv(server') /\ Sessions(server') = Sessions(server)
  <2>1. CASE i \notin readable
    BY <1>2, <2>1 DEF Serve
  <2>2. CASE i \in readable
    <3>1. server' \in Recv_Proc(served, i)
      BY <2>2 DEF Serve
    <3> HIDE DEF served
    <3>2. Keeps(served, server')
      BY <1>1, <1>2, <1>3, <3>1, RecvKeeps
    <3> QED BY <1>2, <3>2 DEF Keeps
  <2> QED BY <2>1, <2>2
<1>5. net' \in [Ids -> Seq(Requests)]
  <2>1. CASE UNCHANGED net
    BY <1>3, <2>1
  <2>2. CASE \E c \in 0 .. Len(net[i]) : net' = [net EXCEPT ![i] = SubSeq(@, c + 1, Len(@))]
    <3>1. PICK c \in 0 .. Len(net[i]) : net' = [net EXCEPT ![i] = SubSeq(@, c + 1, Len(@))]
      BY <2>2
    <3>2. /\ Len(net[i]) \in Nat /\ c + 1 \in Int /\ Len(net[i]) \in Int
          /\ \A k \in c + 1 .. Len(net[i]) : net[i][k] \in Requests
      <4>1. Len(net[i]) \in Nat /\ \A k \in 1 .. Len(net[i]) : net[i][k] \in Requests
        BY <1>3, LenProperties, ElementOfSeq
      <4> QED BY <4>1
    <3>3. SubSeq(net[i], c + 1, Len(net[i])) \in Seq(Requests)
      BY <3>2, SubSeqProperties
    <3> QED BY <1>3, <3>1, <3>3
  <2> QED BY <2>1, <2>2 DEF Serve
<1> QED BY <1>1, <1>4, <1>5 DEF ChatInv

LEMMA AcceptInv ==
  ASSUME ChatInv, server.down = "no", Accept_Proc
  PROVE  ChatInv'
<1>1. ServerInv(server) /\ LISTEN \in readable /\ pending \in Nat /\ pending >= 1
  BY DEF ChatInv, Accept_Proc
<1>2. ServerInv(server') /\ Sessions(server) \subseteq Sessions(server')
  BY <1>1, AcceptKeeps
<1>3. /\ readable' = readable \ {LISTEN} /\ pending' = pending - 1
      /\ UNCHANGED <<connects, packets, net, line, phase, writable>>
  BY DEF Accept_Proc
<1>4. pending' \in Nat /\ LISTEN \notin readable'
  BY <1>1, <1>3
<1> QED BY <1>2, <1>3, <1>4 DEF ChatInv

LEMMA PassKeeps ==
  ASSUME ChatInv, DisconnectPass
  PROVE  /\ ChatInv'
         /\ server.disconnect_queue # <<>> => Head(server.disconnect_queue) \notin Sessions(server')
<1> DEFINE q == server.disconnect_queue
           s1 == [server EXCEPT !.disconnect_queue = SubSeq(q, Taken(q) + 1, Len(q))]
<1>1. server' = EraseAll(s1, SubSeq(q, 1, Taken(q)))
  BY DEF DisconnectPass
<1>2. ServerInv(server)
  BY DEF ChatInv
<1> HIDE DEF s1
<1>3. /\ ServerInv(server') /\ Sessions(server') \subseteq Sessions(server)
      /\ q # <<>> => Head(q) \notin Sessions(server')
  BY <1>1, <1>2, PassFacts DEF s1
<1>4. /\ readable = {} /\ writable = {} /\ phase' = "select"
      /\ UNCHANGED <<pending, connects, packets, net, line, readable, writable>>
  BY DEF DisconnectPass, clients
<1> QED BY <1>3, <1>4 DEF ChatInv

LEMMA ChatInvNext == ChatInv /\ [ChatNext]_chatVars => ChatInv'
<1> SUFFICES ASSUME ChatInv, [ChatNext]_chatVars PROVE ChatInv'
  OBVIOUS
<1>1. CASE ChatNext
  <2>1. server.down = "no"
    BY <1>1 DEF ChatNext
  <2>2. CASE ClientStep
    BY <2>2, ClientKeeps
  <2>3. CASE Select
    BY <2>3, SelectKeeps
  <2>4. CASE Accept_Proc
    BY <2>1, <2>4, AcceptInv
  <2>5. CASE DisconnectPass
    BY <2>5, PassKeeps
  <2>6. CASE \E i \in Ids : Serve(i)
    BY <2>1, <2>6, ServeKeeps
  <2> QED BY <1>1, <2>2, <2>3, <2>4, <2>5, <2>6 DEF ChatNext, ServerStep
<1>2. CASE UNCHANGED chatVars
  BY <1>2 DEF chatVars, clients, loop, ChatInv
<1> QED BY <1>1, <1>2

\* Select_Proc, the packet handlers, Accept_Proc and the disconnect pass keep
\* the tables of the chat server consistent: what ServerInv says of sessions,
\* rooms, the queue and what the clients were told holds after every step.
THEOREM ChatInvariance == ChatSpec => []ChatInv
BY ChatInvInit, ChatInvNext, PTL DEF ChatSpec

\* A list without repetitions has everything once or not at all.
LEMMA OnceEach ==
  ASSUME NEW q, IsInjective(q), NEW x
  PROVE  Occurrences(q, x) = IF x \in ToSet(q) THEN 1 ELSE 0
<1> DEFINE N == {c \in DOMAIN q : q[c] = x}
<1>1. CASE x \in ToSet(q)
  <2>1. PICK c \in DOMAIN q : q[c] = x
    BY <1>1 DEF ToSet
  <2>2. N = {c}
    BY <2>1 DEF IsInjective
  <2> QED BY <1>1, <2>2, FS_Singleton DEF Occurrences
<1>2. CASE x \notin ToSet(q)
  <2>1. N = {}
    BY <1>2 DEF ToSet
  <2> QED BY <1>2, <2>1, FS_EmptySet DEF Occurrences
<1> QED BY <1>1, <1>2

\* emplace_disconnect_queue, whoever calls it, and the disconnect pass: a
\* session is in the queue exactly once when it is flagged, and never after it
\* has been freed.
THEOREM QueuedOnceAlways == ChatSpec => []QueuedOnce
<1>1. ChatInv => QueuedOnce
  <2> SUFFICES ASSUME ChatInv PROVE QueuedOnce
    OBVIOUS
  <2>1. /\ IsInjective(server.disconnect_queue)
        /\ ToSet(server.disconnect_queue) = {i \in Live : server.session_map[i].disconnect_flag}
    BY DEF ChatInv, ServerInv, Sound, Queued, Live
  <2>2. \A i \in Live : Occurrences(server.disconnect_queue, i) =
          IF i \in ToSet(server.disconnect_queue) THEN 1 ELSE 0
    BY <2>1, OnceEach
  <2> QED BY <2>1, <2>2 DEF QueuedOnce
<1> QED BY <1>1, ChatInvariance, PTL

\* The enter and leave handlers and the disconnect pass: rooms and sessions
\* agree on who is where as long as no session was freed in a room.
THEOREM RoomsAgreeAlways == ChatSpec => []RoomsAgree
<1>1. ChatInv => RoomsAgree
  <2> SUFFICES ASSUME ChatInv, ~server.broke PROVE RoomsAgree
    BY DEF RoomsAgree
  <2>1. /\ Live = Sessions(server) /\ DOMAIN server.chatRoom_map = Rooms(server)
        /\ Sound(server)
    BY DEF ChatInv, ServerInv, Live, Sessions, Rooms
  <2>2. /\ \A no \in Rooms(server) : ToSet(Members(server, no)) \subseteq Live
        /\ \A i \in Live :
             Room(server, i) # 0 => /\ Room(server, i) \in Rooms(server)
                                    /\ i \in ToSet(Members(server, Room(server, i)))
        /\ server.down # "ghost"
    BY <2>1 DEF Sound, Agree
  <2>3. ASSUME NEW i \in Live, NEW no \in Rooms(server)
        PROVE  Occurrences(Members(server, no), i) = IF Room(server, i) = no THEN 1 ELSE 0
    <3>1. IsInjective(Members(server, no)) /\ no # 0
      BY <2>1, MembersType DEF Sound, Lists, Numbers
    <3>2. i \in ToSet(Members(server, no)) <=> Room(server, i) = no
      BY <2>1, <2>2, <2>3, <3>1 DEF Sound, Lists
    <3>3. Occurrences(Members(server, no), i) =
            IF i \in ToSet(Members(server, no)) THEN 1 ELSE 0
      BY <3>1, OnceEach
    <3> QED BY <3>2, <3>3
  <2>4. \A i \in Live : Room(server, i) \in DOMAIN server.chatRoom_map \union {0}
    BY <2>1, <2>2
  <2> QED BY <2>1, <2>2, <2>3, <2>4 DEF RoomsAgree
<1> QED BY <1>1, ChatInvariance, PTL

\* What Unicast and Broadcast have told a client that was not disconnected is
\* what the server's tables say.
THEOREM ClientsKnowAlways == ChatSpec => []ClientsKnow
<1>1. ChatInv => ClientsKnow
  <2> SUFFICES ASSUME ChatInv PROVE ClientsKnow
    OBVIOUS
  <2>1. Live = Sessions(server) /\ DOMAIN server.chatRoom_map = Rooms(server)
    BY DEF Live, Sessions, Rooms
  <2>2. server.down = "no" => \A i \in Live :
          \/ server.session_map[i].disconnect_flag
          \/ Right(server, i, server.session_map[i].told)
    BY <2>1 DEF ChatInv, ServerInv, Knows, RightOrFlagged
  <2> QED BY <2>1, <2>2 DEF ClientsKnow, Right
<1> QED BY <1>1, ChatInvariance, PTL

\* The last loop of NetWork_Process, which counts against a size that shrinks,
\* still frees the session that has waited longest.
THEOREM OldestAlwaysLeaves == ChatSpec => OldestLeaves
<1> DEFINE Leaves == phase = "serve" /\ phase' = "select" /\ server.disconnect_queue # <<>>
                       => Head(server.disconnect_queue) \notin Live'
<1>1. ChatInv /\ [ChatNext]_chatVars => [Leaves]_chatVars
  <2> SUFFICES ASSUME ChatInv, ChatNext, phase = "serve", phase' = "select",
                      server.disconnect_queue # <<>>
               PROVE  Head(server.disconnect_queue) \notin Live'
    OBVIOUS
  <2>1. DisconnectPass
    <3>1. ~Select /\ ~Accept_Proc /\ ~ClientStep /\ ~ \E i \in Ids : Serve(i)
      BY DEF Select, Accept_Proc, ClientStep, Serve
    <3> QED BY <3>1 DEF ChatNext, ServerStep
  <2>2. Live' = Sessions(server')
    BY DEF Live, Sessions
  <2> QED BY <2>1, <2>2, PassKeeps
<1> QED BY <1>1, ChatInvariance, PTL DEF ChatSpec, OldestLeaves
=============================================================================
