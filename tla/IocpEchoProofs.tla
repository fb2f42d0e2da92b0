---------------------------- MODULE IocpEchoProofs ----------------------------
(* The counts of IocpEcho: io_count is exact, a session is released when and  *)
(* only when nothing uses it, and no overlapped call is made twice at once,   *)
(* for any workers and any number of bytes.                                   *)
EXTENDS IocpEcho, FiniteSetTheorems, SequenceTheorems, TLAPS

Completions == [io : {"recv", "send"}, size : Seq(Nat), ok : BOOLEAN]

Statements == {"gqcs", "postRecv", "wsaRecv", "onRecv", "postSend", "flag",
               "empty", "sendCount", "wsaSend", "decrement", "thrown"}

\* The completions of one kind in a queue, and the workers at some statements.
Of(q, io) == {i \in DOMAIN q : q[i].io = io}
AtOf(p, S) == {w \in Workers : p[w] \in S}

Bit(b) == IF b THEN 1 ELSE 0

-----------------------------------------------------------------------------
(* Counting *)

\* One more completion in the queue.
LEMMA OfAppend ==
  ASSUME NEW q \in Seq(Completions), NEW c \in Completions, NEW io
  PROVE  /\ IsFiniteSet(Of(q, io))
         /\ Cardinality(Of(Append(q, c), io)) =
              Cardinality(Of(q, io)) + Bit(c.io = io)
<1>1. IsFiniteSet(Of(q, io))
  <2>1. IsFiniteSet(1 .. Len(q)) /\ Of(q, io) \subseteq 1 .. Len(q)
    BY FS_Interval DEF Of
  <2> QED BY <2>1, FS_Subset
<1>2. /\ Len(Append(q, c)) = Len(q) + 1 /\ DOMAIN q = 1 .. Len(q)
      /\ DOMAIN Append(q, c) = 1 .. Len(q) + 1
      /\ \A i \in 1 .. Len(q) : Append(q, c)[i] = q[i]
      /\ Append(q, c)[Len(q) + 1] = c
      /\ Len(q) \in Nat
  BY AppendProperties, LenProperties
<1>3. CASE c.io = io
  <2>1. Of(Append(q, c), io) = Of(q, io) \union {Len(q) + 1}
    BY <1>2, <1>3 DEF Of
  <2>2. Len(q) + 1 \notin Of(q, io)
    BY <1>2 DEF Of
  <2> QED BY <1>1, <1>3, <2>1, <2>2, FS_AddElement, FS_CardinalityType DEF Bit
<1>4. CASE c.io # io
  <2>1. Of(Append(q, c), io) = Of(q, io)
    BY <1>2, <1>4 DEF Of
  <2> QED BY <1>1, <1>4, <2>1, FS_CardinalityType DEF Bit
<1> QED BY <1>1, <1>3, <1>4

\* One completion less: the others move up by one place.
LEMMA OfTail ==
  ASSUME NEW q \in Seq(Completions), q # <<>>, NEW io
  PROVE  Cardinality(Of(Tail(q), io)) =
           Cardinality(Of(q, io)) - Bit(Head(q).io = io)
<1> DEFINE f == [i \in Of(Tail(q), io) |-> i + 1]
           later == Of(q, io) \ {1}
<1>1. /\ Tail(q) \in Seq(Completions) /\ Len(Tail(q)) = Len(q) - 1
      /\ Len(q) \in Nat /\ DOMAIN q = 1 .. Len(q)
      /\ DOMAIN Tail(q) = 1 .. Len(q) - 1
      /\ \A i \in 1 .. Len(q) - 1 : Tail(q)[i] = q[i + 1]
      /\ Head(q) = q[1] /\ Len(q) >= 1
  BY HeadTailProperties, LenProperties, EmptySeq
<1>2. IsFiniteSet(Of(q, io)) /\ IsFiniteSet(Of(Tail(q), io))
  <2>1. \E c : c \in Completions
    BY <1>1, ElementOfSeq
  <2> QED BY <1>1, <2>1, OfAppend
<1>3. f \in Bijection(Of(Tail(q), io), later)
  <2>1. f \in [Of(Tail(q), io) -> later]
    BY <1>1 DEF Of
  <2>2. \A a, b \in Of(Tail(q), io) : f[a] = f[b] => a = b
    BY <1>1 DEF Of
  <2>3. \A t \in later : \E s \in Of(Tail(q), io) : f[s] = t
    <3> SUFFICES ASSUME NEW t \in later
                 PROVE  t - 1 \in Of(Tail(q), io) /\ f[t - 1] = t
      OBVIOUS
    <3>1. t \in 2 .. Len(q) /\ q[t].io = io
      BY <1>1 DEF Of
    <3>2. t - 1 \in 1 .. Len(q) - 1 /\ Tail(q)[t - 1] = q[t]
      BY <1>1, <3>1
    <3> QED BY <1>1, <3>1, <3>2 DEF Of
  <2>4. DOMAIN f = Of(Tail(q), io)
    OBVIOUS
  <2> HIDE DEF f, later
  <2> QED BY <2>1, <2>2, <2>3, <2>4
          DEF Bijection, Injection, Surjection, IsInjective
<1>4. Cardinality(later) = Cardinality(Of(Tail(q), io))
  BY <1>2, <1>3, FS_Bijection DEF ExistsBijection
<1>5. 1 \in Of(q, io) <=> Head(q).io = io
  BY <1>1 DEF Of
<1>6. Cardinality(later) = Cardinality(Of(q, io)) - Bit(Head(q).io = io)
  <2>1. Cardinality(later) = IF 1 \in Of(q, io) THEN Cardinality(Of(q, io)) - 1
                                                ELSE Cardinality(Of(q, io))
    BY <1>2, FS_RemoveElement
  <2>2. Cardinality(Of(q, io)) \in Nat
    BY <1>2, FS_CardinalityType
  <2> QED BY <1>5, <2>1, <2>2 DEF Bit
<1> QED BY <1>4, <1>6

\* A worker goes from one statement to another.
LEMMA AtMove ==
  ASSUME NEW p \in [Workers -> Statements], NEW w \in Workers,
         NEW to \in Statements, NEW S, IsFiniteSet(Workers)
  PROVE  /\ IsFiniteSet(AtOf(p, S))
         /\ Cardinality(AtOf([p EXCEPT ![w] = to], S)) =
              Cardinality(AtOf(p, S)) - Bit(p[w] \in S) + Bit(to \in S)
<1> DEFINE rest == AtOf(p, S) \ {w}
           was == Bit(p[w] \in S)
           is == Bit(to \in S)
<1>1. IsFiniteSet(AtOf(p, S))
  BY FS_Subset DEF AtOf
<1>2. w \in AtOf(p, S) <=> p[w] \in S
  BY DEF AtOf
<1>3. IsFiniteSet(rest) /\ Cardinality(rest) \in Nat
  BY <1>1, FS_RemoveElement, FS_CardinalityType
<1>4. was \in Nat /\ Cardinality(AtOf(p, S)) = Cardinality(rest) + was
  BY <1>1, <1>2, <1>3, FS_RemoveElement, FS_CardinalityType DEF Bit
<1>5. AtOf([p EXCEPT ![w] = to], S) = IF to \in S THEN rest \union {w} ELSE rest
  BY DEF AtOf
<1>6. is \in Nat /\ Cardinality(AtOf([p EXCEPT ![w] = to], S)) = Cardinality(rest) + is
  <2>1. Cardinality(rest \union {w}) = Cardinality(rest) + 1
    BY <1>3, FS_AddElement
  <2> HIDE DEF rest
  <2> QED BY <1>3, <1>5, <2>1 DEF Bit
<1>7. Cardinality(AtOf([p EXCEPT ![w] = to], S)) =
        Cardinality(AtOf(p, S)) - was + is
  <2> HIDE DEF rest, was, is
  <2> QED BY <1>3, <1>4, <1>6
<1> QED BY <1>1, <1>7

-----------------------------------------------------------------------------
(* The inductive invariant *)

TypeOK ==
  /\ sentBytes \in Nat /\ net \in Seq(Nat) /\ wire \in Seq(Nat)
  /\ closed \in BOOLEAN /\ reset \in BOOLEAN
  /\ recvPosted \in BOOLEAN /\ sendPosted \in Int
  /\ port \in Seq(Completions)
  /\ io_count \in Int /\ send_flag \in BOOLEAN /\ send_buf \in Seq(Nat)
  /\ state \in {"none", "live", "released"}
  /\ acc \in {"accept", "postRecv", "wsaRecv", "print", "done"}
  /\ stmt \in [Workers -> Statements] /\ packet \in [Workers -> Seq(Nat)]
  /\ queued \in Seq(Nat) /\ thrown \in BOOLEAN

\* The calls of each kind in flight, the workers that handle a completion,
\* that have counted a call they are about to make, and that have recv_buf or
\* send_flag to themselves.
Recvs == Cardinality(Of(port, "recv")) + Bit(recvPosted)
Sends == Cardinality(Of(port, "send")) + Bit(sendPosted >= 0)
Handling == Cardinality(AtOf(stmt, Statements \ {"gqcs"}))
Making == Cardinality(AtOf(stmt, {"wsaRecv", "wsaSend"}))
Receiving == Cardinality(AtOf(stmt, {"postRecv", "wsaRecv"}))
Sending == Cardinality(AtOf(stmt, {"flag", "sendCount", "wsaSend"}))

Counted ==
  ~thrown => io_count = Recvs + Sends + Handling + Making + Bit(acc = "wsaRecv")

\* Before its first WSARecv, and after its release, nothing uses the session.
Unused == acc \notin {"print", "done"} \/ state = "released" =>
            Recvs = 0 /\ Sends = 0 /\ Handling = 0

Released == state = "released" => acc \in {"print", "done"}

\* send_flag is clear only when no WSASend is in flight or about to be.
Single == /\ Recvs + Receiving <= 1
          /\ Sends + Sending <= 1
          /\ ~send_flag => Sends + Sending = 0

\* The WSASend in flight is of bytes that are in send_buf.  What is in
\* send_buf, but for the bytes of a WSASend that has completed and not been
\* taken yet, is what is to follow on the wire.
Fits == sendPosted <= Len(send_buf)
Rest(k) == SubSeq(send_buf, k + 1, Len(send_buf))
Wired ==
  /\ Of(port, "send") = {} => queued = wire \o send_buf
  /\ \A i \in Of(port, "send") :
       /\ Len(port[i].size) <= Len(send_buf)
       /\ queued = wire \o Rest(Len(port[i].size))

IInv == TypeOK /\ Counted /\ Unused /\ Released /\ Single /\ Fits /\ Wired

\* The counts are numbers.
LEMMA CountTypes ==
  ASSUME TypeOK
  PROVE  /\ Recvs \in Nat /\ Sends \in Nat
         /\ Handling \in Nat /\ Making \in Nat
         /\ Receiving \in Nat /\ Sending \in Nat
         /\ \A S : IsFiniteSet(AtOf(stmt, S))
         /\ \A io : IsFiniteSet(Of(port, io))
<1>1. \A S : IsFiniteSet(AtOf(stmt, S))
  BY EchoAssumption, FS_Subset DEF AtOf
<1>2. \A io : IsFiniteSet(Of(port, io))
  <2>1. Completion("recv", <<>>, TRUE) \in Completions
    BY DEF Completion, Completions
  <2> QED BY <2>1, OfAppend DEF TypeOK
<1>3. \A S : Cardinality(AtOf(stmt, S)) \in Nat
  BY <1>1, FS_CardinalityType
<1>4. \A io : Cardinality(Of(port, io)) \in Nat
  BY <1>2, FS_CardinalityType
<1>5. Bit(recvPosted) \in Nat /\ Bit(sendPosted >= 0) \in Nat
  BY DEF Bit
<1> QED
  BY <1>1, <1>2, <1>3, <1>4, <1>5
  DEF Recvs, Sends, Handling, Making, Receiving, Sending

\* They are the numbers the properties of IocpEcho speak of.
LEMMA Meaning ==
  ASSUME TypeOK
  PROVE  /\ InFlight("recv") = Recvs /\ InFlight("send") = Sends
         /\ Busy = AtOf(stmt, Statements \ {"gqcs"})
         /\ \A S : WorkersAt(S) = AtOf(stmt, S)
BY DEF TypeOK, InFlight, Recvs, Sends, Busy, WorkersAt, AtOf, Of, Bit

\* When nothing is handled, no worker is anywhere.
LEMMA Idle ==
  ASSUME TypeOK, Handling = 0
  PROVE  Making = 0 /\ Receiving = 0 /\ Sending = 0
<1>1. AtOf(stmt, Statements \ {"gqcs"}) = {}
  BY CountTypes, FS_EmptySet DEF Handling
<1>2. /\ AtOf(stmt, {"wsaRecv", "wsaSend"}) = {}
      /\ AtOf(stmt, {"postRecv", "wsaRecv"}) = {}
      /\ AtOf(stmt, {"flag", "sendCount", "wsaSend"}) = {}
  BY <1>1 DEF AtOf, Statements
<1> QED BY <1>2, FS_EmptySet DEF Making, Receiving, Sending

\* Whoever stands at a statement is counted there.
LEMMA Present ==
  ASSUME TypeOK, NEW w \in Workers
  PROVE  /\ stmt[w] # "gqcs" => Handling >= 1
         /\ stmt[w] \in {"wsaRecv", "wsaSend"} => Making >= 1 /\ Handling >= 1
         /\ stmt[w] \in {"flag", "sendCount", "wsaSend"} => Sending >= 1
         /\ stmt[w] \in {"postRecv", "wsaRecv"} => Receiving >= 1
<1>1. \A S : AtOf(stmt, S) # {} => Cardinality(AtOf(stmt, S)) >= 1
  BY CountTypes, FS_EmptySet, FS_CardinalityType
<1>2. \A S : w \in AtOf(stmt, S) <=> stmt[w] \in S
  BY DEF AtOf
<1>3. stmt[w] \in Statements
  BY DEF TypeOK
<1> QED BY <1>1, <1>2, <1>3 DEF Handling, Making, Receiving, Sending

\* How a worker's step changes the counts of workers.
LEMMA GotoCounts ==
  ASSUME TypeOK, NEW w \in Workers, NEW from, NEW to \in Statements,
         GoesTo(w, from, to)
  PROVE  /\ stmt' \in [Workers -> Statements] /\ stmt[w] = from
         /\ Handling' = Handling - Bit(from # "gqcs") + Bit(to # "gqcs")
         /\ Making' = Making - Bit(from \in {"wsaRecv", "wsaSend"})
                             + Bit(to \in {"wsaRecv", "wsaSend"})
         /\ Receiving' = Receiving - Bit(from \in {"postRecv", "wsaRecv"})
                                   + Bit(to \in {"postRecv", "wsaRecv"})
         /\ Sending' = Sending - Bit(from \in {"flag", "sendCount", "wsaSend"})
                               + Bit(to \in {"flag", "sendCount", "wsaSend"})
<1>1. /\ stmt \in [Workers -> Statements] /\ stmt[w] = from /\ from \in Statements
      /\ stmt' = [stmt EXCEPT ![w] = to]
  BY DEF TypeOK, GoesTo
<1>2. \A S : Cardinality(AtOf(stmt', S)) =
               Cardinality(AtOf(stmt, S)) - Bit(from \in S) + Bit(to \in S)
  BY <1>1, AtMove, EchoAssumption
<1>3. /\ Bit(from \in Statements \ {"gqcs"}) = Bit(from # "gqcs")
      /\ Bit(to \in Statements \ {"gqcs"}) = Bit(to # "gqcs")
  BY <1>1 DEF Bit
<1> QED BY <1>1, <1>2, <1>3 DEF Handling, Making, Receiving, Sending

\* How the completion port's queue changes the calls in flight.
LEMMA PortAppend ==
  ASSUME TypeOK, NEW c \in Completions, port' = Append(port, c)
  PROVE  /\ port' \in Seq(Completions)
         /\ Recvs' = Recvs - Bit(recvPosted) + Bit(recvPosted') + Bit(c.io = "recv")
         /\ Sends' = Sends - Bit(sendPosted >= 0) + Bit(sendPosted' >= 0)
                           + Bit(c.io = "send")
<1>1. \A io : /\ Cardinality(Of(port', io)) =
                   Cardinality(Of(port, io)) + Bit(c.io = io)
              /\ Cardinality(Of(port, io)) \in Nat
  BY OfAppend, CountTypes, FS_CardinalityType DEF TypeOK
<1>2. /\ Bit(recvPosted) \in Nat /\ Bit(recvPosted') \in Nat
      /\ Bit(sendPosted >= 0) \in Nat /\ Bit(sendPosted' >= 0) \in Nat
      /\ Bit(c.io = "recv") \in Nat /\ Bit(c.io = "send") \in Nat
  BY DEF Bit
<1>3. port' \in Seq(Completions)
  BY AppendProperties DEF TypeOK
<1> QED BY <1>1, <1>2, <1>3 DEF Recvs, Sends

LEMMA PortTail ==
  ASSUME TypeOK, port # <<>>, port' = Tail(port),
         UNCHANGED <<recvPosted, sendPosted>>
  PROVE  /\ port' \in Seq(Completions) /\ Head(port) \in Completions
         /\ Recvs' = Recvs - Bit(Head(port).io = "recv")
         /\ Sends' = Sends - Bit(Head(port).io = "send")
         /\ Bit(Head(port).io = "recv") <= Recvs
         /\ Bit(Head(port).io = "send") <= Sends
<1>1. \A io : /\ Cardinality(Of(port', io)) =
                   Cardinality(Of(port, io)) - Bit(Head(port).io = io)
              /\ Cardinality(Of(port, io)) \in Nat
  BY OfTail, CountTypes, FS_CardinalityType DEF TypeOK
<1>2. /\ Bit(recvPosted) \in Nat /\ Bit(sendPosted >= 0) \in Nat
      /\ Bit(Head(port).io = "recv") \in Nat /\ Bit(Head(port).io = "send") \in Nat
  BY DEF Bit
<1>3. port' \in Seq(Completions) /\ Head(port) \in Completions
  BY HeadTailProperties DEF TypeOK
<1>4. \A io : IsFiniteSet(Of(port', io))
  <2>1. Completion("recv", <<>>, TRUE) \in Completions
    BY DEF Completion, Completions
  <2> QED BY <1>3, <2>1, OfAppend
<1>5. \A io : Cardinality(Of(port', io)) \in Nat
  BY <1>4, FS_CardinalityType
<1>6. recvPosted' = recvPosted /\ sendPosted' = sendPosted
  OBVIOUS
<1>7. /\ Recvs' = Recvs - Bit(Head(port).io = "recv")
      /\ Bit(Head(port).io = "recv") <= Recvs
  BY <1>1, <1>2, <1>5, <1>6 DEF Recvs
<1>8. /\ Sends' = Sends - Bit(Head(port).io = "send")
      /\ Bit(Head(port).io = "send") <= Sends
  BY <1>1, <1>2, <1>5, <1>6 DEF Sends
<1> QED BY <1>3, <1>7, <1>8

-----------------------------------------------------------------------------
(* The steps *)

\* Sums of counts.
LEMMA ZeroSum ==
  ASSUME NEW a \in Nat, NEW b \in Nat, NEW c \in Nat, NEW d \in Nat,
         a + b + c + d = 0
  PROVE  a = 0 /\ b = 0 /\ c = 0 /\ d = 0
OBVIOUS

LEMMA LessSum ==
  ASSUME NEW a \in Nat, NEW b \in Nat, NEW c \in Nat, NEW k \in Nat, b <= c
  PROVE  /\ a + c <= k => a + b <= k
         /\ a + c = 0 => a + b = 0
OBVIOUS

LEMMA InitIInv == EchoInit => IInv
<1> SUFFICES ASSUME EchoInit PROVE IInv
  OBVIOUS
<1>1. TypeOK
  <2>1. stmt \in [Workers -> Statements] /\ packet \in [Workers -> Seq(Nat)]
    BY DEF EchoInit, Statements
  <2>2. port \in Seq(Completions)
    BY DEF EchoInit
  <2>3. /\ sentBytes \in Nat /\ net \in Seq(Nat) /\ wire \in Seq(Nat)
        /\ send_buf \in Seq(Nat) /\ queued \in Seq(Nat)
    BY DEF EchoInit
  <2>4. sendPosted \in Int /\ io_count \in Int
    <3>1. sendPosted = -1 /\ io_count = 0
      BY DEF EchoInit
    <3> QED BY <3>1
  <2>7. /\ recvPosted \in BOOLEAN /\ send_flag \in BOOLEAN /\ thrown \in BOOLEAN
        /\ closed \in BOOLEAN /\ reset \in BOOLEAN
    <3>1. /\ recvPosted = FALSE /\ send_flag = FALSE /\ thrown = FALSE
          /\ closed = FALSE /\ reset = FALSE
      BY DEF EchoInit
    <3> QED BY <3>1
  <2>5. state = "none" /\ acc = "accept"
    BY DEF EchoInit
  <2> QED BY <2>1, <2>2, <2>3, <2>4, <2>5, <2>7 DEF TypeOK
<1>2. /\ \A io : Of(port, io) = {}
      /\ \A S : "gqcs" \notin S => AtOf(stmt, S) = {}
  BY DEF EchoInit, Of, AtOf
<1>3. /\ AtOf(stmt, Statements \ {"gqcs"}) = {}
      /\ AtOf(stmt, {"wsaRecv", "wsaSend"}) = {}
      /\ AtOf(stmt, {"postRecv", "wsaRecv"}) = {}
      /\ AtOf(stmt, {"flag", "sendCount", "wsaSend"}) = {}
  BY <1>2
<1>4. Bit(recvPosted) = 0 /\ Bit(sendPosted >= 0) = 0
  BY DEF EchoInit, Bit
<1>5. /\ Recvs = 0 /\ Sends = 0 /\ Handling = 0
      /\ Making = 0 /\ Receiving = 0 /\ Sending = 0
  BY <1>2, <1>3, <1>4, FS_EmptySet
  DEF Recvs, Sends, Handling, Making, Receiving, Sending
<1>6. Counted /\ Unused /\ Released /\ Single
  BY <1>5 DEF EchoInit, Counted, Unused, Released, Single, Bit
<1>7. Fits /\ Wired
  BY <1>2, ConcatEmptySeq DEF EchoInit, Fits, Wired, Of
<1> QED BY <1>1, <1>6, <1>7 DEF IInv

\* A step that leaves the port, the calls and the workers alone leaves the
\* counts alone.
LEMMA SameCounts ==
  ASSUME UNCHANGED <<port, recvPosted, sendPosted>>
  PROVE  Recvs' = Recvs /\ Sends' = Sends
BY DEF Recvs, Sends

LEMMA SameWorkers ==
  ASSUME stmt' = stmt
  PROVE  Handling' = Handling /\ Making' = Making /\ Receiving' = Receiving
         /\ Sending' = Sending
BY DEF Handling, Making, Receiving, Sending

LEMMA SameWire ==
  ASSUME TypeOK, Fits, Wired, UNCHANGED <<send_buf, port, wire, queued>>,
         sendPosted' \in {sendPosted, Len(send_buf)}
  PROVE  Fits' /\ Wired'
<1>1. Fits'
  BY DEF Fits, TypeOK
<1>2. Wired'
  BY DEF Wired, Rest, Of
<1> QED BY <1>1, <1>2

LEMMA ClientKeeps ==
  ASSUME IInv, ClientStep
  PROVE  IInv'
<1>1. UNCHANGED <<port, recvPosted, sendPosted, stmt, send_buf, wire, queued>>
      /\ UNCHANGED <<io_count, acc, state, send_flag, thrown, packet>>
  BY DEF ClientStep, ClientSends, ClientCloses, ConnectionResets, kernel,
         session, threads, ghosts
<1>2. sentBytes' \in Nat /\ net' \in Seq(Nat) /\ closed' \in BOOLEAN /\ reset' \in BOOLEAN
  <2>1. CASE ClientSends
    BY <2>1, AppendProperties DEF ClientSends, IInv, TypeOK
  <2>2. CASE ClientCloses \/ ConnectionResets
    <3>1. (net' = net \/ net' = <<>>) /\ sentBytes' = sentBytes
      BY <2>2 DEF ClientCloses, ConnectionResets, kernel
    <3>2. (closed' = closed \/ closed' = TRUE) /\ (reset' = reset \/ reset' = TRUE)
      BY <2>2 DEF ClientCloses, ConnectionResets
    <3>3. sentBytes' \in Nat /\ net' \in Seq(Nat)
      <4>1. net \in Seq(Nat) /\ <<>> \in Seq(Nat) /\ sentBytes \in Nat
        BY DEF IInv, TypeOK
      <4> QED BY <3>1, <4>1
    <3>4. closed' \in BOOLEAN /\ reset' \in BOOLEAN
      BY <3>2 DEF IInv, TypeOK
    <3> QED BY <3>3, <3>4
  <2> QED BY <2>1, <2>2 DEF ClientStep
<1>3. TypeOK'
  BY <1>1, <1>2 DEF IInv, TypeOK
<1>4. Fits' /\ Wired'
  BY <1>1, SameWire DEF IInv
<1> QED
  BY <1>1, <1>3, <1>4, SameCounts, SameWorkers
  DEF IInv, Counted, Unused, Released, Single

LEMMA AcceptKeeps ==
  ASSUME IInv, ~thrown, Accept \/ AcceptCounts \/ AcceptPosts
  PROVE  IInv'
<1>1. UNCHANGED <<port, sendPosted, stmt, send_buf, wire, queued, send_flag>>
      /\ UNCHANGED <<sentBytes, closed, reset, net, packet, thrown>>
  BY DEF Accept, AcceptCounts, AcceptPosts, client, kernel, session, ghosts
<1>2. Fits' /\ Wired'
  BY <1>1, SameWire DEF IInv
<1>3. acc \notin {"print", "done"}
  BY DEF Accept, AcceptCounts, AcceptPosts
<1>4. /\ Recvs = 0 /\ Sends = 0 /\ Handling = 0 /\ state # "released"
      /\ io_count = Bit(acc = "wsaRecv")
  <2>1. Recvs = 0 /\ Sends = 0 /\ Handling = 0 /\ state # "released"
    BY <1>3 DEF IInv, Unused, Released
  <2>2. Making = 0
    BY <2>1, Idle DEF IInv
  <2>3. Bit(acc = "wsaRecv") \in Nat
    BY DEF Bit
  <2> QED BY <2>1, <2>2, <2>3 DEF IInv, Counted
<1>5. Making = 0 /\ Receiving = 0 /\ Sending = 0
  BY <1>4, Idle DEF IInv
<1>6. /\ Sends' = 0 /\ Handling' = 0 /\ Making' = 0
      /\ Receiving' = 0 /\ Sending' = 0
  BY <1>1, <1>4, <1>5, SameWorkers DEF Sends
<1>7. CASE Accept
  <2>1. TypeOK'
    BY <1>7 DEF IInv, TypeOK, Accept, client, kernel, ghosts
  <2>2. Recvs' = 0 /\ io_count' = 0 /\ acc' = "postRecv" /\ state' = "live"
    BY <1>4, <1>7, SameCounts DEF Accept, kernel, Bit
  <2> QED BY <1>2, <1>6, <2>1, <2>2
          DEF IInv, Counted, Unused, Released, Single, Bit
<1>8. CASE AcceptCounts
  <2>1. TypeOK'
    BY <1>8 DEF IInv, TypeOK, AcceptCounts, client, kernel, ghosts
  <2>2. Recvs' = 0 /\ io_count' = 1 /\ acc' = "wsaRecv" /\ state' = state
    BY <1>4, <1>8, SameCounts DEF AcceptCounts, kernel, Bit
  <2> QED BY <1>2, <1>4, <1>6, <2>1, <2>2
          DEF IInv, Counted, Unused, Released, Single, Bit
<1>9. CASE AcceptPosts
  <2>1. TypeOK'
    <3>1. /\ acc' \in {"print", "done"}
          /\ io_count' \in Int /\ state' \in {"none", "live", "released"}
      <4>1. (io_count' = io_count \/ io_count' = io_count - 1)
            /\ (state' = state \/ state' = "released") /\ acc' \in {"print", "done"}
        BY <1>9 DEF AcceptPosts
      <4> QED BY <4>1 DEF IInv, TypeOK
    <3>3. recvPosted' \in BOOLEAN
      <4>1. recvPosted' = recvPosted \/ recvPosted' = TRUE
        BY <1>9 DEF AcceptPosts
      <4> QED BY <4>1 DEF IInv, TypeOK
    <3>2. stmt' = stmt /\ packet' = packet /\ thrown' = thrown
      BY <1>1
    <3> QED BY <1>1, <3>1, <3>2, <3>3 DEF IInv, TypeOK
  <2>2. acc' \in {"print", "done"} /\ io_count = 1
    BY <1>4, <1>9 DEF AcceptPosts, Bit
  <2>3. CASE reset
    <3>1. io_count' = 0 /\ Recvs' = 0
      BY <1>1, <1>4, <1>9, <2>2, <2>3, SameCounts DEF AcceptPosts
    <3> QED BY <1>2, <1>6, <2>1, <2>2, <3>1
            DEF IInv, Counted, Unused, Released, Single, Bit
  <2>4. CASE ~reset
    <3>1. /\ io_count' = 1 /\ state' = state
          /\ recvPosted' = TRUE /\ port' = port
      BY <1>1, <1>9, <2>2, <2>4 DEF AcceptPosts
    <3>2. /\ Cardinality(Of(port, "recv")) \in Nat
          /\ Bit(recvPosted) \in Nat /\ Bit(TRUE) = 1
      BY CountTypes, FS_CardinalityType DEF Bit, IInv
    <3>4. Cardinality(Of(port, "recv")) = 0
      BY <1>4, <3>2 DEF Recvs
    <3>5. Cardinality(Of(port', "recv")) = 0
      BY <3>1, <3>4
    <3>6. Bit(recvPosted') = 1
      BY <3>1, <3>2
    <3>3. Recvs' = 1
      BY <3>5, <3>6 DEF Recvs
    <3> QED BY <1>2, <1>4, <1>6, <2>1, <2>2, <3>1, <3>3
            DEF IInv, Counted, Unused, Released, Single, Bit
  <2> QED BY <2>3, <2>4
<1> QED BY <1>7, <1>8, <1>9

\* The printf of Post_Recv changes nothing.
LEMMA AcceptPrintsKeeps ==
  ASSUME IInv, AcceptPrints
  PROVE  IInv'
<1>1. /\ acc = "print" /\ acc' = "done"
      /\ UNCHANGED <<sentBytes, net, closed, reset, wire, recvPosted, sendPosted,
                      port, io_count, send_flag, send_buf, state, stmt, packet,
                      queued, thrown>>
  BY DEF AcceptPrints, client, kernel, session, ghosts
<1>2. TypeOK'
  BY <1>1 DEF IInv, TypeOK
<1>3. Fits' /\ Wired'
  BY <1>1, SameWire DEF IInv
<1> QED BY <1>1, <1>2, <1>3, SameCounts, SameWorkers
        DEF IInv, Counted, Unused, Released, Single, Bit

\* The quiet steps of a worker that handles a completion: those that leave
\* the calls alone and move the worker, io_count, state and send_flag.
Quiet(w, from, to) ==
  /\ GoesTo(w, from, to)
  /\ UNCHANGED <<client, kernel, send_buf, acc, queued>>
  /\ packet' \in [Workers -> Seq(Nat)]
  /\ send_flag' \in BOOLEAN /\ thrown' \in BOOLEAN
  /\ io_count' = io_count - Bit(to = "gqcs")
                   - Bit(from \in {"wsaRecv", "wsaSend"})
                   + Bit(to \in {"wsaRecv", "wsaSend"})
  /\ state' = IF io_count' = 0 THEN "released" ELSE state
  /\ from \in {"postRecv", "wsaRecv"} \/ to \notin {"postRecv", "wsaRecv"}
  /\ \/ from \in {"flag", "sendCount", "wsaSend"}
     \/ to \notin {"flag", "sendCount", "wsaSend"}
     \/ ~send_flag /\ send_flag'
  /\ send_flag' \/ ~send_flag \/ (from = "flag" /\ to = "empty")

LEMMA QuietKeeps ==
  ASSUME IInv, ~thrown, NEW w \in Workers,
         NEW from \in Statements \ {"gqcs"}, NEW to \in Statements,
         Quiet(w, from, to)
  PROVE  IInv'
<1>1. UNCHANGED <<port, recvPosted, sendPosted, wire, net, send_buf, queued>>
      /\ UNCHANGED <<sentBytes, closed, reset, acc>>
  BY DEF Quiet, client, kernel
<1>2. Fits' /\ Wired'
  BY <1>1, SameWire DEF IInv
<1>3. /\ stmt' \in [Workers -> Statements] /\ stmt[w] = from
      /\ Handling' = Handling - 1 + Bit(to # "gqcs")
      /\ Making' = Making - Bit(from \in {"wsaRecv", "wsaSend"})
                          + Bit(to \in {"wsaRecv", "wsaSend"})
      /\ Receiving' = Receiving - Bit(from \in {"postRecv", "wsaRecv"})
                                + Bit(to \in {"postRecv", "wsaRecv"})
      /\ Sending' = Sending - Bit(from \in {"flag", "sendCount", "wsaSend"})
                            + Bit(to \in {"flag", "sendCount", "wsaSend"})
  BY GotoCounts DEF Quiet, IInv, Bit
<1>4. Recvs' = Recvs /\ Sends' = Sends
  BY <1>1, SameCounts
<1>5. /\ Recvs \in Nat /\ Sends \in Nat /\ Handling \in Nat /\ Making \in Nat
      /\ Receiving \in Nat /\ Sending \in Nat /\ io_count \in Int
  BY CountTypes DEF IInv, TypeOK
<1>6. /\ Handling >= 1
      /\ from \in {"wsaRecv", "wsaSend"} => Making >= 1
      /\ from \in {"flag", "sendCount", "wsaSend"} => Sending >= 1
      /\ from \in {"postRecv", "wsaRecv"} => Receiving >= 1
  BY <1>3, Present DEF IInv
<1>7. acc \in {"print", "done"} /\ state # "released" /\ Bit(acc = "wsaRecv") = 0
      /\ io_count = Recvs + Sends + Handling + Making
  <2>1. acc \in {"print", "done"} /\ state # "released"
    BY <1>5, <1>6 DEF IInv, Unused
  <2>2. Bit(acc = "wsaRecv") = 0
    BY <2>1 DEF Bit
  <2> QED BY <1>5, <2>1, <2>2 DEF IInv, Counted
<1>8. io_count' = Recvs + Sends + Handling' + Making'
  BY <1>3, <1>5, <1>7 DEF Quiet, Bit
<1>9. TypeOK'
  <2>1. io_count' \in Int
    BY <1>5 DEF Quiet, Bit
  <2>2. state' \in {"none", "live", "released"}
    BY DEF Quiet, IInv, TypeOK
  <2>3. /\ packet' \in [Workers -> Seq(Nat)]
        /\ send_flag' \in BOOLEAN /\ thrown' \in BOOLEAN
    BY DEF Quiet
  <2> QED BY <1>1, <1>3, <2>1, <2>2, <2>3 DEF IInv, TypeOK
<1>10. Counted' /\ Unused' /\ Released'
  <2>1. Handling' \in Nat /\ Making' \in Nat
    BY <1>3, <1>5, <1>6 DEF Bit
  <2>2. io_count' = 0 => Recvs' = 0 /\ Sends' = 0 /\ Handling' = 0
    <3>1. Recvs + Sends + Handling' + Making' = 0
            => Recvs = 0 /\ Sends = 0 /\ Handling' = 0
      <4> SUFFICES ASSUME Recvs + Sends + Handling' + Making' = 0
                   PROVE  Recvs = 0 /\ Sends = 0 /\ Handling' = 0
        OBVIOUS
      <4> QED BY <1>5, <2>1, ZeroSum
    <3> QED BY <1>4, <1>8, <3>1, Zenon
  <2>3. state' = "released" => io_count' = 0
    BY <1>7 DEF Quiet
  <2>4. acc' \in {"print", "done"}
    BY <1>1, <1>7
  <2>5. Counted'
    <3>1. Bit(acc' = "wsaRecv") = 0
      BY <2>4 DEF Bit
    <3>2. Recvs + Sends + Handling' + Making' + 0
            = Recvs + Sends + Handling' + Making'
      <4>1. \A a \in Int : a + 0 = a
        OBVIOUS
      <4>2. Recvs + Sends + Handling' + Making' \in Int
        BY <1>8, <1>9 DEF TypeOK
      <4> QED BY <4>1, <4>2, Zenon
    <3> QED BY <1>4, <1>8, <3>1, <3>2, Zenon DEF Counted
  <2> QED BY <2>2, <2>3, <2>4, <2>5 DEF Unused, Released
<1>11. Single'
  <2>1. Receiving' <= Receiving /\ Receiving' \in Nat
    <3> DEFINE next == Receiving - Bit(from \in {"postRecv", "wsaRecv"})
                                 + Bit(to \in {"postRecv", "wsaRecv"})
    <3>1. from \in {"postRecv", "wsaRecv"} \/ to \notin {"postRecv", "wsaRecv"}
      BY DEF Quiet
    <3>2. next <= Receiving /\ next \in Nat
      BY <1>5, <1>6, <3>1 DEF Bit
    <3> HIDE DEF next
    <3>3. Receiving' = next
      BY <1>3 DEF next
    <3> QED BY <3>2, <3>3
  <2>4. Sending' \in Nat
    BY <1>3, <1>5, <1>6 DEF Bit
  <2>5. /\ Recvs + Receiving <= 1 /\ Sends + Sending <= 1
        /\ ~send_flag => Sends + Sending = 0
    BY DEF IInv, Single
  <2>2. Sends' + Sending' <= 1
    <3>1. CASE Sending' <= Sending
      BY <1>4, <1>5, <2>4, <2>5, <3>1, LessSum, Zenon
    <3>2. CASE ~send_flag
      <4>1. Sends = 0 /\ Sending = 0
        BY <1>5, <3>2 DEF IInv, Single
      <4> QED BY <1>3, <1>4, <4>1 DEF Bit
    <3>3. Sending' <= Sending \/ ~send_flag
      BY <1>3, <1>5 DEF Bit, Quiet
    <3> QED BY <3>1, <3>2, <3>3
  <2>3. ~send_flag' => Sends' + Sending' = 0
    <3> SUFFICES ASSUME ~send_flag' PROVE Sends' + Sending' = 0
      OBVIOUS
    <3>1. CASE from = "flag" /\ to = "empty"
      <4>1. Sending' = Sending - 1
        BY <1>3, <1>5, <3>1 DEF Bit
      <4>2. Sending >= 1 /\ Sends + Sending <= 1
        BY <1>6, <3>1 DEF IInv, Single
      <4> QED BY <1>4, <1>5, <4>1, <4>2
    <3>2. CASE ~send_flag
      <4>1. Sends + Sending = 0
        BY <2>5, <3>2
      <4>2. to \notin {"flag", "sendCount", "wsaSend"}
              \/ from \in {"flag", "sendCount", "wsaSend"}
        BY DEF Quiet
      <4> DEFINE next == Sending - Bit(from \in {"flag", "sendCount", "wsaSend"})
                                 + Bit(to \in {"flag", "sendCount", "wsaSend"})
      <4>3. next <= Sending
        BY <1>5, <4>2 DEF Bit
      <4> HIDE DEF next
      <4>4. Sending' = next
        BY <1>3 DEF next
      <4>5. Sending' <= Sending
        BY <4>3, <4>4
      <4> QED BY <1>4, <1>5, <2>4, <4>1, <4>5, LessSum, Zenon
    <3>3. ~send_flag \/ (from = "flag" /\ to = "empty")
      BY DEF Quiet
    <3> QED BY <3>1, <3>2, <3>3
  <2>6. Recvs' + Receiving' <= 1
    BY <1>4, <1>5, <2>1, <2>5, LessSum, Zenon
  <2> QED BY <2>2, <2>3, <2>6 DEF Single
<1> QED BY <1>2, <1>9, <1>10, <1>11 DEF IInv

\* The quiet statements of WorkerFunc, one by one.
LEMMA QuietSteps ==
  ASSUME IInv, ~thrown, NEW w \in Workers,
         \/ RecvCounts(w) \/ ClearFlag(w) \/ TestEmpty(w) \/ SetFlag(w)
         \/ SendCounts(w) \/ RecvFails(w) \/ SendFails(w) \/ Decrement(w)
  PROVE  IInv'
<1>1. /\ packet \in [Workers -> Seq(Nat)] /\ <<>> \in Seq(Nat)
      /\ send_flag \in BOOLEAN /\ thrown \in BOOLEAN /\ io_count \in Int
      /\ state \in {"none", "live", "released"}
  BY DEF IInv, TypeOK
<1>2. ASSUME stmt[w] # "gqcs"
      PROVE  /\ io_count >= 1 /\ state # "released"
             /\ stmt[w] \in {"wsaRecv", "wsaSend"} => io_count >= 2
  <2>1. /\ Recvs \in Nat /\ Sends \in Nat /\ Handling \in Nat /\ Making \in Nat
    BY CountTypes DEF IInv
  <2>2. /\ Handling >= 1
        /\ stmt[w] \in {"wsaRecv", "wsaSend"} => Making >= 1
    BY <1>2, Present DEF IInv
  <2>3. Bit(acc = "wsaRecv") \in Nat
    BY DEF Bit
  <2>4. io_count = Recvs + Sends + Handling + Making + Bit(acc = "wsaRecv")
    BY DEF IInv, Counted
  <2>5. state # "released"
    BY <2>1, <2>2 DEF IInv, Unused
  <2> QED BY <2>1, <2>2, <2>3, <2>4, <2>5
<1>3. CASE RecvCounts(w)
  <2>1. stmt[w] = "postRecv"
    BY <1>3 DEF RecvCounts, GoesTo
  <2>2. io_count >= 1
    BY <1>2, <2>1
  <2>3. Quiet(w, "postRecv", "wsaRecv")
    <3>1. /\ GoesTo(w, "postRecv", "wsaRecv") /\ io_count' = io_count + 1
          /\ UNCHANGED <<client, kernel, send_buf, acc, queued>>
          /\ UNCHANGED <<packet, send_flag, thrown, state>>
      BY <1>3 DEF RecvCounts, ghosts
    <3>2. io_count + 1 = io_count - Bit("wsaRecv" = "gqcs")
                   - Bit("postRecv" \in {"wsaRecv", "wsaSend"})
                   + Bit("wsaRecv" \in {"wsaRecv", "wsaSend"})
      BY <1>1 DEF Bit
    <3>3. io_count' # 0
      BY <1>1, <2>2, <3>1
    <3> QED BY <1>1, <3>1, <3>2, <3>3 DEF Quiet
  <2> QED BY <2>3, QuietKeeps DEF Statements
<1>4. CASE SendCounts(w)
  <2>1. stmt[w] = "sendCount"
    BY <1>4 DEF SendCounts, GoesTo
  <2>2. io_count >= 1
    BY <1>2, <2>1
  <2>3. Quiet(w, "sendCount", "wsaSend")
    <3>1. /\ GoesTo(w, "sendCount", "wsaSend") /\ io_count' = io_count + 1
          /\ UNCHANGED <<client, kernel, send_buf, acc, queued>>
          /\ UNCHANGED <<packet, send_flag, thrown, state>>
      BY <1>4 DEF SendCounts, ghosts
    <3>2. io_count + 1 = io_count - Bit("wsaSend" = "gqcs")
                   - Bit("sendCount" \in {"wsaRecv", "wsaSend"})
                   + Bit("wsaSend" \in {"wsaRecv", "wsaSend"})
      BY <1>1 DEF Bit
    <3>3. io_count' # 0
      BY <1>1, <2>2, <3>1
    <3> QED BY <1>1, <3>1, <3>2, <3>3 DEF Quiet
  <2> QED BY <2>3, QuietKeeps DEF Statements
<1>5. CASE ClearFlag(w)
  <2>1. stmt[w] = "flag"
    BY <1>5 DEF ClearFlag, GoesTo
  <2>2. io_count >= 1
    BY <1>2, <2>1
  <2>3. Quiet(w, "flag", "empty")
    <3>1. /\ GoesTo(w, "flag", "empty") /\ send_flag' = FALSE
          /\ UNCHANGED <<client, kernel, send_buf, acc, queued>>
          /\ UNCHANGED <<packet, io_count, thrown, state>>
      BY <1>5 DEF ClearFlag, ghosts
    <3>2. io_count = io_count - Bit("empty" = "gqcs")
                   - Bit("flag" \in {"wsaRecv", "wsaSend"})
                   + Bit("empty" \in {"wsaRecv", "wsaSend"})
      BY <1>1 DEF Bit
    <3>3. io_count' # 0
      BY <1>1, <2>2, <3>1
    <3> QED BY <1>1, <3>1, <3>2, <3>3 DEF Quiet
  <2> QED BY <2>3, QuietKeeps DEF Statements
<1>6. CASE RecvFails(w)
  <2>1. stmt[w] = "wsaRecv"
    BY <1>6 DEF RecvFails, GoesTo
  <2>2. io_count >= 2
    BY <1>2, <2>1
  <2>3. Quiet(w, "wsaRecv", "thrown")
    <3>1. /\ GoesTo(w, "wsaRecv", "thrown") /\ io_count' = io_count - 1
          /\ UNCHANGED <<client, kernel, send_buf, acc, queued>>
          /\ UNCHANGED <<packet, send_flag>>
          /\ state' = IF io_count = 1 THEN "released" ELSE state
      BY <1>6 DEF RecvFails, ghosts
    <3>2. io_count - 1 = io_count - Bit("thrown" = "gqcs")
                   - Bit("wsaRecv" \in {"wsaRecv", "wsaSend"})
                   + Bit("thrown" \in {"wsaRecv", "wsaSend"})
      BY <1>1 DEF Bit
    <3>3. io_count' # 0 /\ state' = state
      BY <1>1, <2>2, <3>1
    <3>4. thrown' \in BOOLEAN
      <4>1. thrown' = TRUE
        BY <1>6 DEF RecvFails, ghosts
      <4> QED BY <1>1, <4>1
    <3> QED BY <1>1, <3>1, <3>2, <3>3, <3>4 DEF Quiet
  <2> QED BY <2>3, QuietKeeps DEF Statements
<1>7. CASE SendFails(w)
  <2>1. stmt[w] = "wsaSend"
    BY <1>7 DEF SendFails, GoesTo
  <2>2. io_count >= 2
    BY <1>2, <2>1
  <2>3. Quiet(w, "wsaSend", "decrement")
    <3>1. /\ GoesTo(w, "wsaSend", "decrement") /\ io_count' = io_count - 1
          /\ UNCHANGED <<client, kernel, send_buf, acc, queued>>
          /\ UNCHANGED <<packet, send_flag>>
          /\ state' = IF io_count = 1 THEN "released" ELSE state
      BY <1>7 DEF SendFails, ghosts
    <3>2. io_count - 1 = io_count - Bit("decrement" = "gqcs")
                   - Bit("wsaSend" \in {"wsaRecv", "wsaSend"})
                   + Bit("decrement" \in {"wsaRecv", "wsaSend"})
      BY <1>1 DEF Bit
    <3>3. io_count' # 0 /\ state' = state
      BY <1>1, <2>2, <3>1
    <3>4. thrown' \in BOOLEAN
      <4>1. thrown' = thrown
        BY <1>7 DEF SendFails, ghosts
      <4> QED BY <1>1, <4>1
    <3> QED BY <1>1, <3>1, <3>2, <3>3, <3>4 DEF Quiet
  <2> QED BY <2>3, QuietKeeps DEF Statements
<1>8. CASE TestEmpty(w)
  <2>1. stmt[w] = "empty"
    BY <1>8 DEF TestEmpty, GoesTo
  <2>2. io_count >= 1
    BY <1>2, <2>1
  <2>3. CASE send_buf = <<>>
    <3>1. Quiet(w, "empty", "decrement")
      <4>1. /\ GoesTo(w, "empty", "decrement") /\ send_flag' = send_flag
            /\ UNCHANGED <<client, kernel, send_buf, acc, queued>>
            /\ UNCHANGED <<packet, io_count, thrown, state>>
        BY <1>8, <2>3 DEF TestEmpty, ghosts, session
      <4>2. io_count = io_count - Bit("decrement" = "gqcs")
                     - Bit("empty" \in {"wsaRecv", "wsaSend"})
                     + Bit("decrement" \in {"wsaRecv", "wsaSend"})
        BY <1>1 DEF Bit
      <4>3. io_count' # 0
        BY <1>1, <2>2, <4>1
      <4> QED BY <1>1, <2>3, <4>1, <4>2, <4>3 DEF Quiet
    <3> QED BY <3>1, QuietKeeps DEF Statements
  <2>4. CASE ~(send_buf = <<>>)
    <3>1. Quiet(w, "empty", "postSend")
      <4>1. /\ GoesTo(w, "empty", "postSend") /\ send_flag' = send_flag
            /\ UNCHANGED <<client, kernel, send_buf, acc, queued>>
            /\ UNCHANGED <<packet, io_count, thrown, state>>
        BY <1>8, <2>4 DEF TestEmpty, ghosts, session
      <4>2. io_count = io_count - Bit("postSend" = "gqcs")
                     - Bit("empty" \in {"wsaRecv", "wsaSend"})
                     + Bit("postSend" \in {"wsaRecv", "wsaSend"})
        BY <1>1 DEF Bit
      <4>3. io_count' # 0
        BY <1>1, <2>2, <4>1
      <4> QED BY <1>1, <2>4, <4>1, <4>2, <4>3 DEF Quiet
    <3> QED BY <3>1, QuietKeeps DEF Statements
  <2> QED BY <2>3, <2>4
<1>9. CASE SetFlag(w)
  <2>1. stmt[w] = "postSend"
    BY <1>9 DEF SetFlag, GoesTo
  <2>2. io_count >= 1
    BY <1>2, <2>1
  <2>3. CASE send_flag
    <3>1. Quiet(w, "postSend", "decrement")
      <4>1. /\ GoesTo(w, "postSend", "decrement") /\ send_flag' = TRUE
            /\ UNCHANGED <<client, kernel, send_buf, acc, queued>>
            /\ UNCHANGED <<packet, io_count, thrown, state>>
        BY <1>9, <2>3 DEF SetFlag, ghosts, session
      <4>2. io_count = io_count - Bit("decrement" = "gqcs")
                     - Bit("postSend" \in {"wsaRecv", "wsaSend"})
                     + Bit("decrement" \in {"wsaRecv", "wsaSend"})
        BY <1>1 DEF Bit
      <4>3. io_count' # 0
        BY <1>1, <2>2, <4>1
      <4> QED BY <1>1, <2>3, <4>1, <4>2, <4>3 DEF Quiet
    <3> QED BY <3>1, QuietKeeps DEF Statements
  <2>4. CASE ~send_flag
    <3>1. Quiet(w, "postSend", "sendCount")
      <4>1. /\ GoesTo(w, "postSend", "sendCount") /\ send_flag' = TRUE
            /\ UNCHANGED <<client, kernel, send_buf, acc, queued>>
            /\ UNCHANGED <<packet, io_count, thrown, state>>
        BY <1>9, <2>4 DEF SetFlag, ghosts, session
      <4>2. io_count = io_count - Bit("sendCount" = "gqcs")
                     - Bit("postSend" \in {"wsaRecv", "wsaSend"})
                     + Bit("sendCount" \in {"wsaRecv", "wsaSend"})
        BY <1>1 DEF Bit
      <4>3. io_count' # 0
        BY <1>1, <2>2, <4>1
      <4> QED BY <1>1, <2>4, <4>1, <4>2, <4>3 DEF Quiet
    <3> QED BY <3>1, QuietKeeps DEF Statements
  <2> QED BY <2>3, <2>4
<1>10. CASE Decrement(w)
  <2>1. stmt[w] = "decrement"
    BY <1>10 DEF Decrement, GoesTo
  <2>2. io_count >= 1
    BY <1>2, <2>1
  <2>3. Quiet(w, "decrement", "gqcs")
    <3>1. /\ GoesTo(w, "decrement", "gqcs") /\ io_count' = io_count - 1
          /\ UNCHANGED <<client, kernel, send_buf, acc, queued>>
          /\ UNCHANGED <<send_flag, thrown>>
          /\ packet' = [packet EXCEPT ![w] = <<>>]
          /\ state' = IF io_count = 1 THEN "released" ELSE state
      BY <1>10 DEF Decrement, ghosts
    <3>2. io_count - 1 = io_count - Bit("gqcs" = "gqcs")
                   - Bit("decrement" \in {"wsaRecv", "wsaSend"})
                   + Bit("gqcs" \in {"wsaRecv", "wsaSend"})
      BY <1>1 DEF Bit
    <3>3. state' = IF io_count' = 0 THEN "released" ELSE state
      BY <1>1, <2>2, <3>1
    <3>4. packet' \in [Workers -> Seq(Nat)]
      BY <1>1, <3>1
    <3> QED BY <1>1, <3>1, <3>2, <3>3, <3>4 DEF Quiet
  <2> QED BY <2>3, QuietKeeps DEF Statements
<1> QED BY <1>3, <1>4, <1>5, <1>6, <1>7, <1>8, <1>9, <1>10

LEMMA NotMore ==
  ASSUME NEW a \in Nat, NEW b \in Nat, a <= b
  PROVE  (b <= 1 => a <= 1) /\ (b = 0 => a = 0)
OBVIOUS

\* The steps that hand a call on: from a thread to Windows, from Windows to
\* the queue, from the queue to a worker.
LEMMA HandedOn ==
  ASSUME IInv, ~thrown, acc \in {"print", "done"}, state # "released",
         UNCHANGED <<acc, state, io_count, send_flag>>,
         Recvs' + Sends' + Handling' + Making' = Recvs + Sends + Handling + Making,
         Recvs' + Receiving' \in Nat, Recvs' + Receiving' <= Recvs + Receiving,
         Sends' + Sending' \in Nat, Sends' + Sending' <= Sends + Sending
  PROVE  Counted' /\ Unused' /\ Released' /\ Single'
<1>1. /\ Recvs \in Nat /\ Sends \in Nat /\ Handling \in Nat /\ Making \in Nat
      /\ Receiving \in Nat /\ Sending \in Nat
  BY CountTypes DEF IInv
<1>2. Recvs + Receiving \in Nat /\ Sends + Sending \in Nat
  BY <1>1
<1>3. Single'
  <2>1. /\ Recvs + Receiving <= 1 /\ Sends + Sending <= 1
        /\ ~send_flag => Sends + Sending = 0
    BY DEF IInv, Single
  <2>2. Recvs' + Receiving' <= 1
    BY <1>2, <2>1, NotMore, Zenon
  <2>3. Sends' + Sending' <= 1 /\ (~send_flag => Sends' + Sending' = 0)
    BY <1>2, <2>1, NotMore, Zenon
  <2> QED BY <2>2, <2>3 DEF Single
<1>4. Counted'
  <2>1. Bit(acc = "wsaRecv") = 0
    BY DEF Bit
  <2>2. io_count = Recvs' + Sends' + Handling' + Making' + Bit(acc = "wsaRecv")
    BY DEF IInv, Counted
  <2>3. io_count' = io_count /\ acc' = acc
    OBVIOUS
  <2> QED BY <2>2, <2>3, Zenon DEF Counted
<1>5. Unused' /\ Released'
  BY DEF Unused, Released
<1> QED BY <1>3, <1>4, <1>5

LEMMA RecvPostedKeeps ==
  ASSUME IInv, ~thrown, NEW w \in Workers, RecvPosted(w)
  PROVE  IInv'
<1>1. /\ GoesTo(w, "wsaRecv", "onRecv") /\ recvPosted' = TRUE
      /\ UNCHANGED <<sentBytes, closed, reset, net, wire, sendPosted, port,
                     io_count, send_flag, send_buf, state, acc, packet,
                     queued, thrown>>
  BY DEF RecvPosted, client, session, ghosts
<1>2. /\ stmt' \in [Workers -> Statements] /\ stmt[w] = "wsaRecv"
      /\ Handling' = Handling - 1 + 1
      /\ Making' = Making - 1 + 0
      /\ Receiving' = Receiving - 1 + 0
      /\ Sending' = Sending - 0 + 0
  BY <1>1, GotoCounts DEF IInv, Bit, Statements
<1>3. /\ Recvs \in Nat /\ Sends \in Nat /\ Handling \in Nat /\ Making \in Nat
      /\ Receiving \in Nat /\ Sending \in Nat
  BY CountTypes DEF IInv
<1>4. Handling >= 1 /\ Making >= 1 /\ Receiving >= 1
  BY <1>2, Present DEF IInv
<1>5. acc \in {"print", "done"} /\ state # "released"
  BY <1>3, <1>4 DEF IInv, Unused
<1>6. Recvs = 0 /\ Receiving = 1
  BY <1>3, <1>4 DEF IInv, Single
<1>7. Recvs' = 1
  <2>1. /\ Cardinality(Of(port, "recv")) \in Nat
        /\ Bit(recvPosted) \in Nat /\ Bit(TRUE) = 1
    BY CountTypes, FS_CardinalityType DEF Bit, IInv
  <2>2. Cardinality(Of(port, "recv")) = 0
    BY <1>6, <2>1 DEF Recvs
  <2>3. Cardinality(Of(port', "recv")) = 0 /\ Bit(recvPosted') = 1
    BY <1>1, <2>1, <2>2
  <2> QED BY <2>3 DEF Recvs
<1>8. Sends' = Sends
  BY <1>1 DEF Sends
<1>9. /\ Handling' = Handling /\ Making' = Making - 1 /\ Receiving' = 0
      /\ Sending' = Sending
  BY <1>2, <1>3, <1>6
<1>10. Counted' /\ Unused' /\ Released' /\ Single'
  <2>1. Recvs' + Sends' + Handling' + Making' = Recvs + Sends + Handling + Making
    <3>1. 1 + Sends + Handling + (Making - 1) = 0 + Sends + Handling + Making
      BY <1>3
    <3> QED BY <1>6, <1>7, <1>8, <1>9, <3>1, Zenon
  <2>2. Recvs' + Receiving' = 1 /\ Recvs + Receiving = 1
    BY <1>6, <1>7, <1>9
  <2>3. Sends' + Sending' = Sends + Sending
    BY <1>8, <1>9, Zenon
  <2>4. /\ Recvs' + Receiving' \in Nat /\ Recvs' + Receiving' <= Recvs + Receiving
        /\ Sends' + Sending' \in Nat /\ Sends' + Sending' <= Sends + Sending
    BY <1>3, <2>2, <2>3
  <2> QED BY <1>1, <1>5, <2>1, <2>4, HandedOn
<1>11. TypeOK'
  <2>1. recvPosted' \in BOOLEAN
    BY <1>1
  <2> QED BY <1>1, <1>2, <2>1 DEF IInv, TypeOK
<1>12. Fits' /\ Wired'
  BY <1>1, SameWire DEF IInv
<1> QED BY <1>10, <1>11, <1>12 DEF IInv

LEMMA SendPostedKeeps ==
  ASSUME IInv, ~thrown, NEW w \in Workers, SendPosted(w)
  PROVE  IInv'
<1>1. /\ GoesTo(w, "wsaSend", "decrement") /\ sendPosted' = Len(send_buf)
      /\ UNCHANGED <<sentBytes, closed, reset, net, wire, recvPosted, port,
                     io_count, send_flag, send_buf, state, acc, packet,
                     queued, thrown>>
  BY DEF SendPosted, client, session, ghosts
<1>2. /\ stmt' \in [Workers -> Statements] /\ stmt[w] = "wsaSend"
      /\ Handling' = Handling - 1 + 1
      /\ Making' = Making - 1 + 0
      /\ Receiving' = Receiving - 0 + 0
      /\ Sending' = Sending - 1 + 0
  BY <1>1, GotoCounts DEF IInv, Bit, Statements
<1>3. /\ Recvs \in Nat /\ Sends \in Nat /\ Handling \in Nat /\ Making \in Nat
      /\ Receiving \in Nat /\ Sending \in Nat
  BY CountTypes DEF IInv
<1>4. Handling >= 1 /\ Making >= 1 /\ Sending >= 1
  BY <1>2, Present DEF IInv
<1>5. acc \in {"print", "done"} /\ state # "released"
  BY <1>3, <1>4 DEF IInv, Unused
<1>6. Sends = 0 /\ Sending = 1
  BY <1>3, <1>4 DEF IInv, Single
<1>7. Len(send_buf) \in Nat
  BY LenProperties DEF IInv, TypeOK
<1>8. Sends' = 1
  <2>1. /\ Cardinality(Of(port, "send")) \in Nat
        /\ Bit(sendPosted >= 0) \in Nat
    BY CountTypes, FS_CardinalityType DEF Bit, IInv
  <2>2. Cardinality(Of(port, "send")) = 0
    BY <1>6, <2>1 DEF Sends
  <2>3. Bit(Len(send_buf) >= 0) = 1
    BY <1>7 DEF Bit
  <2>4. Cardinality(Of(port', "send")) = 0 /\ Bit(sendPosted' >= 0) = 1
    BY <1>1, <2>2, <2>3
  <2> QED BY <2>4 DEF Sends
<1>9. Recvs' = Recvs
  BY <1>1 DEF Recvs
<1>10. /\ Handling' = Handling /\ Making' = Making - 1 /\ Sending' = 0
       /\ Receiving' = Receiving
  BY <1>2, <1>3, <1>6
<1>11. Counted' /\ Unused' /\ Released' /\ Single'
  <2>1. Recvs' + Sends' + Handling' + Making' = Recvs + Sends + Handling + Making
    <3>1. Recvs + 1 + Handling + (Making - 1) = Recvs + 0 + Handling + Making
      BY <1>3
    <3> QED BY <1>6, <1>8, <1>9, <1>10, <3>1, Zenon
  <2>2. Sends' + Sending' = 1 /\ Sends + Sending = 1
    BY <1>6, <1>8, <1>10
  <2>3. Recvs' + Receiving' = Recvs + Receiving
    BY <1>9, <1>10, Zenon
  <2>4. /\ Recvs' + Receiving' \in Nat /\ Recvs' + Receiving' <= Recvs + Receiving
        /\ Sends' + Sending' \in Nat /\ Sends' + Sending' <= Sends + Sending
    BY <1>3, <2>2, <2>3
  <2> QED BY <1>1, <1>5, <2>1, <2>4, HandedOn
<1>12. TypeOK'
  <2>1. sendPosted' \in Int
    BY <1>1, <1>7
  <2> QED BY <1>1, <1>2, <2>1 DEF IInv, TypeOK
<1>13. Fits' /\ Wired'
  BY <1>1, SameWire DEF IInv
<1> QED BY <1>11, <1>12, <1>13 DEF IInv

\* What is put behind send_buf is put behind any rest of it.
LEMMA RestOfConcat ==
  ASSUME NEW s \in Seq(Nat), NEW t \in Seq(Nat), NEW k \in 0 .. Len(s)
  PROVE  SubSeq(s \o t, k + 1, Len(s \o t)) = SubSeq(s, k + 1, Len(s)) \o t
<1> DEFINE u == s \o t
           l == SubSeq(u, k + 1, Len(u))
           r == SubSeq(s, k + 1, Len(s))
<1>1. /\ Len(s) \in Nat /\ Len(t) \in Nat
      /\ \A i \in 1 .. Len(s) : s[i] \in Nat
      /\ \A i \in 1 .. Len(t) : t[i] \in Nat
  BY LenProperties, ElementOfSeq
<1>2. /\ u \in Seq(Nat) /\ Len(u) = Len(s) + Len(t)
      /\ \A i \in 1 .. Len(s) + Len(t) :
           u[i] = IF i <= Len(s) THEN s[i] ELSE t[i - Len(s)]
  BY ConcatProperties
<1>3. /\ l \in Seq(Nat) /\ Len(l) = Len(s) + Len(t) - k
      /\ \A i \in 1 .. Len(s) + Len(t) - k : l[i] = u[k + i]
  <2>1. \A i \in k + 1 .. Len(u) : u[i] \in Nat
    BY <1>1, <1>2, ElementOfSeq
  <2> HIDE DEF u
  <2> QED BY <1>1, <1>2, <2>1, SubSeqProperties
<1>4. /\ r \in Seq(Nat) /\ Len(r) = Len(s) - k
      /\ \A i \in 1 .. Len(s) - k : r[i] = s[k + i]
  <2>1. \A i \in k + 1 .. Len(s) : s[i] \in Nat
    BY <1>1
  <2>2. k + 1 \in Int /\ Len(s) \in Int
    BY <1>1
  <2>3. /\ r \in Seq(Nat)
        /\ Len(r) = IF k + 1 <= Len(s) THEN Len(s) - (k + 1) + 1 ELSE 0
        /\ \A i \in 1 .. Len(s) - (k + 1) + 1 : r[i] = s[k + 1 + i - 1]
    BY <2>1, <2>2, SubSeqProperties
  <2> HIDE DEF r
  <2> QED BY <1>1, <2>3
<1> HIDE DEF u, l, r
<1> DEFINE v == r \o t
<1>5. /\ v \in Seq(Nat) /\ Len(v) = Len(s) - k + Len(t)
      /\ \A i \in 1 .. Len(s) - k + Len(t) :
           v[i] = IF i <= Len(s) - k THEN r[i] ELSE t[i - (Len(s) - k)]
  <2>1. /\ v \in Seq(Nat) /\ Len(v) = Len(r) + Len(t)
        /\ \A i \in 1 .. Len(r) + Len(t) :
             v[i] = IF i <= Len(r) THEN r[i] ELSE t[i - Len(r)]
    BY <1>4, ConcatProperties
  <2> HIDE DEF v
  <2> QED BY <1>1, <1>4, <2>1
<1> HIDE DEF v
<1>6. ASSUME NEW i \in 1 .. Len(l) PROVE l[i] = v[i]
  <2>1. i \in 1 .. Len(s) + Len(t) - k /\ i \in 1 .. Len(s) - k + Len(t)
        /\ k + i \in 1 .. Len(s) + Len(t)
    BY <1>1, <1>3
  <2>2. l[i] = u[k + i]
    BY <1>3, <2>1
  <2>3. CASE i <= Len(s) - k
    <3>1. i \in 1 .. Len(s) - k /\ k + i \in 1 .. Len(s)
      BY <1>1, <2>1, <2>3
    <3>2. u[k + i] = s[k + i]
      BY <1>1, <1>2, <2>1, <3>1
    <3>3. r[i] = s[k + i]
      BY <1>4, <3>1
    <3>4. v[i] = r[i]
      BY <1>5, <2>1, <2>3
    <3> QED BY <2>2, <3>2, <3>3, <3>4
  <2>4. CASE i > Len(s) - k
    <3>1. k + i - Len(s) = i - (Len(s) - k)
      BY <1>1, <2>1
    <3>2. u[k + i] = t[k + i - Len(s)]
      BY <1>1, <1>2, <2>1, <2>4
    <3>3. v[i] = t[i - (Len(s) - k)]
      BY <1>1, <1>5, <2>1, <2>4
    <3> QED BY <2>2, <3>1, <3>2, <3>3
  <2> QED BY <1>1, <2>1, <2>3, <2>4
<1>7. l = v
  <2>1. Len(l) = Len(v)
    BY <1>1, <1>3, <1>5
  <2> QED BY <1>3, <1>5, <1>6, <2>1, SeqEqual
<1> QED BY <1>7 DEF u, l, r, v

LEMMA BytesAssociate ==
  ASSUME NEW s \in Seq(Nat), NEW t \in Seq(Nat), NEW u \in Seq(Nat)
  PROVE  (s \o t) \o u = s \o (t \o u)
BY ConcatAssociative

LEMMA OnRecvKeeps ==
  ASSUME IInv, ~thrown, NEW w \in Workers, OnRecv(w)
  PROVE  IInv'
<1>1. /\ GoesTo(w, "onRecv", "postSend")
      /\ send_buf' = send_buf \o packet[w] /\ queued' = queued \o packet[w]
      /\ packet' = [packet EXCEPT ![w] = <<>>]
      /\ UNCHANGED <<sentBytes, closed, reset, net, wire, recvPosted, sendPosted,
                     port, io_count, send_flag, state, acc, thrown>>
  BY DEF OnRecv, client, kernel
<1>2. /\ stmt' \in [Workers -> Statements] /\ stmt[w] = "onRecv"
      /\ Handling' = Handling - 1 + 1
      /\ Making' = Making - 0 + 0
      /\ Receiving' = Receiving - 0 + 0
      /\ Sending' = Sending - 0 + 0
  BY <1>1, GotoCounts DEF IInv, Bit, Statements
<1>3. /\ Recvs \in Nat /\ Sends \in Nat /\ Handling \in Nat /\ Making \in Nat
      /\ Receiving \in Nat /\ Sending \in Nat
  BY CountTypes DEF IInv
<1>4. Handling >= 1
  BY <1>2, Present DEF IInv
<1>5. acc \in {"print", "done"} /\ state # "released"
  BY <1>3, <1>4 DEF IInv, Unused
<1>6. /\ Handling' = Handling /\ Making' = Making /\ Receiving' = Receiving
      /\ Sending' = Sending /\ Recvs' = Recvs /\ Sends' = Sends
  BY <1>1, <1>2, <1>3, SameCounts
<1>7. Counted' /\ Unused' /\ Released' /\ Single'
  <2>1. Recvs' + Sends' + Handling' + Making' = Recvs + Sends + Handling + Making
    BY <1>6, Zenon
  <2>2. Recvs' + Receiving' = Recvs + Receiving /\ Sends' + Sending' = Sends + Sending
    BY <1>6, Zenon
  <2>3. /\ Recvs' + Receiving' \in Nat /\ Recvs' + Receiving' <= Recvs + Receiving
        /\ Sends' + Sending' \in Nat /\ Sends' + Sending' <= Sends + Sending
    BY <1>3, <2>2
  <2> QED BY <1>1, <1>5, <2>1, <2>3, HandedOn
<1>8. /\ packet[w] \in Seq(Nat) /\ send_buf \in Seq(Nat) /\ wire \in Seq(Nat)
      /\ queued \in Seq(Nat) /\ sendPosted \in Int
  BY DEF IInv, TypeOK
<1>9. /\ send_buf' \in Seq(Nat) /\ queued' \in Seq(Nat)
      /\ Len(send_buf') = Len(send_buf) + Len(packet[w])
      /\ Len(send_buf) \in Nat /\ Len(packet[w]) \in Nat
  BY <1>1, <1>8, ConcatProperties, LenProperties
<1>10. TypeOK'
  <2>1. packet' \in [Workers -> Seq(Nat)]
    <3>1. <<>> \in Seq(Nat) /\ packet \in [Workers -> Seq(Nat)]
      BY DEF IInv, TypeOK
    <3> QED BY <1>1, <3>1
  <2> QED BY <1>1, <1>2, <1>9, <2>1 DEF IInv, TypeOK
<1>11. Fits'
  <2>1. sendPosted <= Len(send_buf)
    BY DEF IInv, Fits
  <2>2. sendPosted <= Len(send_buf) + Len(packet[w])
    BY <1>8, <1>9, <2>1
  <2>3. sendPosted' <= Len(send_buf')
    BY <1>1, <1>9, <2>2, Zenon
  <2> QED BY <2>3 DEF Fits
<1>12. Wired'
  <2>1. Of(port, "send") = {} => queued' = wire \o send_buf'
    <3>1. (wire \o send_buf) \o packet[w] = wire \o (send_buf \o packet[w])
      BY <1>8, BytesAssociate, Zenon
    <3> QED BY <1>1, <3>1 DEF IInv, Wired
  <2>2. ASSUME NEW i \in Of(port, "send")
        PROVE  /\ Len(port[i].size) <= Len(send_buf')
               /\ queued' = wire \o SubSeq(send_buf', Len(port[i].size) + 1, Len(send_buf'))
    <3> DEFINE k == Len(port[i].size)
               r == SubSeq(send_buf, k + 1, Len(send_buf))
    <3>1. k \in Nat /\ k <= Len(send_buf) /\ queued = wire \o r
      <4>1. port \in Seq(Completions) /\ i \in DOMAIN port
        BY DEF IInv, TypeOK, Of
      <4>2. port[i] \in Completions
        BY <4>1, ElementOfSeq, LenProperties
      <4>3. k \in Nat
        BY <4>2, LenProperties DEF Completions
      <4> QED BY <4>3 DEF IInv, Wired, Rest
    <3>2. r \in Seq(Nat)
      <4>1. \A j \in k + 1 .. Len(send_buf) : send_buf[j] \in Nat
        BY <1>8, <1>9, <3>1, ElementOfSeq
      <4> QED BY <1>9, <3>1, <4>1, SubSeqProperties
    <3>3. SubSeq(send_buf', k + 1, Len(send_buf')) = r \o packet[w]
      <4>1. k \in 0 .. Len(send_buf)
        BY <1>9, <3>1
      <4>2. SubSeq(send_buf \o packet[w], k + 1, Len(send_buf \o packet[w]))
              = r \o packet[w]
        BY <1>8, <4>1, RestOfConcat, Zenon
      <4> HIDE DEF k, r
      <4> QED BY <1>1, <4>2, Zenon
    <3> HIDE DEF r
    <3>4. (wire \o r) \o packet[w] = wire \o (r \o packet[w])
      BY <1>8, <3>2, BytesAssociate, Zenon
    <3>5. queued' = wire \o SubSeq(send_buf', k + 1, Len(send_buf'))
      BY <1>1, <3>1, <3>3, <3>4, Zenon
    <3>6. k <= Len(send_buf) + Len(packet[w])
      BY <1>9, <3>1
    <3> QED BY <1>9, <3>5, <3>6, Zenon
  <2> QED BY <1>1, <2>1, <2>2 DEF Wired, Rest
<1> QED BY <1>7, <1>10, <1>11, <1>12 DEF IInv

\* The completions of the queue, and those of what is put behind it or left
\* of it.
LEMMA OfBehind ==
  ASSUME NEW q \in Seq(Completions), NEW c \in Completions
  PROVE  /\ c.io = "recv" => Of(Append(q, c), "send") = Of(q, "send")
         /\ c.io = "send" => Of(Append(q, c), "send") = Of(q, "send") \union {Len(q) + 1}
         /\ \A i \in Of(q, "send") : Append(q, c)[i] = q[i]
         /\ Append(q, c)[Len(q) + 1] = c
<1>1. /\ Len(q) \in Nat /\ DOMAIN q = 1 .. Len(q)
      /\ DOMAIN Append(q, c) = 1 .. Len(q) + 1
      /\ \A i \in 1 .. Len(q) : Append(q, c)[i] = q[i]
      /\ Append(q, c)[Len(q) + 1] = c
  BY AppendProperties, LenProperties
<1>2. Of(q, "send") \subseteq 1 .. Len(q)
  BY <1>1 DEF Of
<1>3. \A io : Of(Append(q, c), io) =
                Of(q, io) \union (IF c.io = io THEN {Len(q) + 1} ELSE {})
  BY <1>1 DEF Of
<1> QED BY <1>1, <1>2, <1>3

LEMMA OfLeft ==
  ASSUME NEW q \in Seq(Completions), q # <<>>
  PROVE  /\ Head(q).io # "send" =>
              /\ Of(Tail(q), "send") = {} => Of(q, "send") = {}
              /\ \A i \in Of(Tail(q), "send") :
                   i + 1 \in Of(q, "send") /\ Tail(q)[i] = q[i + 1]
         /\ Head(q).io = "send" => 1 \in Of(q, "send") /\ q[1] = Head(q)
<1>1. /\ Len(Tail(q)) = Len(q) - 1 /\ Len(q) \in Nat /\ DOMAIN q = 1 .. Len(q)
      /\ DOMAIN Tail(q) = 1 .. Len(q) - 1
      /\ \A i \in 1 .. Len(q) - 1 : Tail(q)[i] = q[i + 1]
      /\ Head(q) = q[1] /\ Len(q) >= 1
  BY HeadTailProperties, LenProperties, EmptySeq
<1>2. Head(q).io = "send" => 1 \in Of(q, "send") /\ q[1] = Head(q)
  BY <1>1 DEF Of
<1>3. \A i \in Of(Tail(q), "send") :
        i + 1 \in Of(q, "send") /\ Tail(q)[i] = q[i + 1]
  BY <1>1 DEF Of
<1>4. ASSUME Head(q).io # "send", NEW i \in Of(q, "send")
      PROVE  i - 1 \in Of(Tail(q), "send")
  <2>1. i \in 1 .. Len(q) /\ i # 1 /\ q[i].io = "send"
    BY <1>1, <1>4 DEF Of
  <2>2. i - 1 \in 1 .. Len(q) - 1 /\ Tail(q)[i - 1] = q[i]
    BY <1>1, <2>1
  <2> QED BY <1>1, <2>1, <2>2 DEF Of
<1> QED BY <1>2, <1>3, <1>4

LEMMA TakeKeeps ==
  ASSUME IInv, ~thrown, NEW w \in Workers, TakeCompletion(w)
  PROVE  IInv'
<1> DEFINE c == Head(port)
           to == CASE c.size = <<>> \/ ~c.ok -> "decrement"
                   [] c.io = "recv" -> "postRecv"
                   [] c.io = "send" -> "flag"
<1>1. /\ port # <<>> /\ port' = Tail(port)
      /\ GoesTo(w, "gqcs", to)
      /\ packet' = [packet EXCEPT ![w] = IF c.io = "recv" THEN c.size ELSE @]
      /\ send_buf' = IF c.io = "send"
                       THEN SubSeq(send_buf, Len(c.size) + 1, Len(send_buf))
                       ELSE send_buf
      /\ UNCHANGED <<sentBytes, closed, reset, net, wire, recvPosted, sendPosted,
                     io_count, send_flag, state, acc, queued, thrown>>
  BY DEF TakeCompletion, client, ghosts
<1>2. /\ port' \in Seq(Completions) /\ c \in Completions
      /\ Recvs' = Recvs - Bit(c.io = "recv")
      /\ Sends' = Sends - Bit(c.io = "send")
      /\ Bit(c.io = "recv") <= Recvs
      /\ Bit(c.io = "send") <= Sends
  BY <1>1, PortTail DEF IInv
<1>3. /\ c.io \in {"recv", "send"} /\ c.size \in Seq(Nat)
      /\ Len(c.size) \in Nat
  BY <1>2, LenProperties DEF Completions
<1>4. /\ to \in {"decrement", "postRecv", "flag"}
      /\ to = "postRecv" => c.io = "recv"
      /\ to = "flag" => c.io = "send"
  BY <1>3
<1> HIDE DEF c, to
<1>5. /\ stmt' \in [Workers -> Statements]
      /\ Handling' = Handling - 0 + 1
      /\ Making' = Making - 0 + 0
      /\ Receiving' = Receiving - 0 + Bit(to = "postRecv")
      /\ Sending' = Sending - 0 + Bit(to = "flag")
  <2>1. /\ Bit("gqcs" # "gqcs") = 0 /\ Bit("gqcs" \in {"wsaRecv", "wsaSend"}) = 0
        /\ Bit("gqcs" \in {"postRecv", "wsaRecv"}) = 0
        /\ Bit("gqcs" \in {"flag", "sendCount", "wsaSend"}) = 0
        /\ Bit(to # "gqcs") = 1 /\ Bit(to \in {"wsaRecv", "wsaSend"}) = 0
        /\ Bit(to \in {"postRecv", "wsaRecv"}) = Bit(to = "postRecv")
        /\ Bit(to \in {"flag", "sendCount", "wsaSend"}) = Bit(to = "flag")
    BY <1>4 DEF Bit
  <2>2. to \in Statements
    BY <1>4 DEF Statements
  <2> QED BY <1>1, <2>1, <2>2, GotoCounts DEF IInv
<1>6. /\ Recvs \in Nat /\ Sends \in Nat /\ Handling \in Nat /\ Making \in Nat
      /\ Receiving \in Nat /\ Sending \in Nat
  BY CountTypes DEF IInv
<1>7. Recvs >= 1 \/ Sends >= 1
  BY <1>2, <1>3, <1>6 DEF Bit
<1>8. acc \in {"print", "done"} /\ state # "released"
  BY <1>6, <1>7 DEF IInv, Unused
<1>9. Counted' /\ Unused' /\ Released' /\ Single'
  <2> DEFINE b == Bit(c.io = "recv")
             d == Bit(c.io = "send")
             e == Bit(to = "postRecv")
             f == Bit(to = "flag")
  <2>1. /\ b \in Nat /\ d \in Nat /\ e \in Nat /\ f \in Nat
        /\ b + d = 1 /\ e <= b /\ f <= d
    BY <1>3, <1>4 DEF Bit
  <2> HIDE DEF b, d, e, f
  <2>2. /\ Recvs' = Recvs - b /\ Sends' = Sends - d
        /\ Handling' = Handling + 1 /\ Making' = Making
        /\ Receiving' = Receiving + e /\ Sending' = Sending + f
        /\ b <= Recvs /\ d <= Sends
    BY <1>2, <1>5, <1>6, <2>1 DEF b, d, e, f
  <2>3. Recvs' + Sends' + Handling' + Making' = Recvs + Sends + Handling + Making
    <3>1. (Recvs - b) + (Sends - d) + (Handling + 1) + Making
            = Recvs + Sends + Handling + Making
      BY <1>6, <2>1
    <3> QED BY <2>2, <3>1, Zenon
  <2>4. Recvs' + Receiving' \in Nat /\ Recvs' + Receiving' <= Recvs + Receiving
    <3>1. /\ (Recvs - b) + (Receiving + e) \in Nat
          /\ (Recvs - b) + (Receiving + e) <= Recvs + Receiving
      BY <1>6, <2>1, <2>2
    <3> QED BY <2>2, <3>1, Zenon
  <2>5. Sends' + Sending' \in Nat /\ Sends' + Sending' <= Sends + Sending
    <3>1. /\ (Sends - d) + (Sending + f) \in Nat
          /\ (Sends - d) + (Sending + f) <= Sends + Sending
      BY <1>6, <2>1, <2>2
    <3> QED BY <2>2, <3>1, Zenon
  <2> QED BY <1>1, <1>8, <2>3, <2>4, <2>5, HandedOn
<1>10. /\ send_buf \in Seq(Nat) /\ Len(send_buf) \in Nat
       /\ port \in Seq(Completions) /\ packet \in [Workers -> Seq(Nat)]
       /\ sendPosted \in Int
  BY LenProperties DEF IInv, TypeOK
<1>11. SubSeq(send_buf, Len(c.size) + 1, Len(send_buf)) \in Seq(Nat)
  <2>1. \A j \in Len(c.size) + 1 .. Len(send_buf) : send_buf[j] \in Nat
    BY <1>3, <1>10, ElementOfSeq
  <2> QED BY <1>3, <1>10, <2>1, SubSeqProperties
<1>12. TypeOK'
  <2>1. send_buf' \in Seq(Nat)
    BY <1>1, <1>10, <1>11
  <2>2. packet' \in [Workers -> Seq(Nat)]
    BY <1>1, <1>3, <1>10
  <2> QED BY <1>1, <1>2, <1>5, <2>1, <2>2 DEF IInv, TypeOK
<1>13. CASE c.io = "recv"
  <2>1. send_buf' = send_buf
    BY <1>1, <1>13
  <2>2. Fits'
    BY <1>1, <2>1 DEF IInv, Fits
  <2>3. /\ Of(Tail(port), "send") = {} => Of(port, "send") = {}
        /\ \A i \in Of(Tail(port), "send") :
             i + 1 \in Of(port, "send") /\ Tail(port)[i] = port[i + 1]
    BY <1>1, <1>10, <1>13, OfLeft DEF c
  <2>4. Wired'
    BY <1>1, <2>1, <2>3 DEF IInv, Wired, Rest
  <2> QED BY <1>9, <1>12, <2>2, <2>4 DEF IInv
<1>14. CASE c.io = "send"
  <2>1. Cardinality(Of(port, "send")) \in Nat /\ Bit(sendPosted >= 0) \in Nat
    BY CountTypes, FS_CardinalityType DEF IInv, Bit
  <2>2. 1 \in Of(port, "send") /\ port[1] = c
    BY <1>1, <1>10, <1>14, OfLeft DEF c
  <2>3. Cardinality(Of(port, "send")) = 1 /\ Bit(sendPosted >= 0) = 0
    <3>1. Cardinality(Of(port, "send")) # 0
      BY <2>2, CountTypes, FS_EmptySet DEF IInv
    <3>2. Sends <= 1
      BY <1>6 DEF IInv, Single
    <3> QED BY <2>1, <3>1, <3>2 DEF Sends
  <2>4. Of(Tail(port), "send") = {}
    <3>1. Cardinality(Of(Tail(port), "send")) = 1 - 1
      BY <1>1, <1>10, <1>14, <2>3, OfTail DEF c, Bit
    <3>2. IsFiniteSet(Of(Tail(port), "send"))
      BY <1>1, <1>2, OfAppend
    <3> QED BY <3>1, <3>2, FS_EmptySet
  <2>5. send_buf' = Rest(Len(c.size))
    BY <1>1, <1>14 DEF Rest
  <2>6. queued' = wire' \o send_buf'
    BY <1>1, <2>2, <2>5 DEF IInv, Wired
  <2>7. Wired'
    BY <1>1, <2>4, <2>6 DEF Wired
  <2>8. Fits'
    <3>1. ~(sendPosted >= 0)
      BY <2>3 DEF Bit
    <3>2. sendPosted < 0
      BY <1>10, <3>1
    <3>3. Len(send_buf') \in Nat
      BY <1>12, LenProperties DEF TypeOK
    <3>4. \A a \in Nat : sendPosted <= a
      BY <1>10, <3>2
    <3>5. sendPosted <= Len(send_buf')
      BY <3>3, <3>4, Zenon
    <3> QED BY <1>1, <3>5 DEF Fits
  <2> QED BY <1>9, <1>12, <2>7, <2>8 DEF IInv
<1> QED BY <1>3, <1>13, <1>14

LEMMA RecvCompletesKeeps ==
  ASSUME IInv, ~thrown, RecvCompletes
  PROVE  IInv'
<1>1. /\ recvPosted /\ recvPosted' = FALSE
      /\ UNCHANGED <<sentBytes, closed, reset, wire, sendPosted, io_count,
                     send_flag, send_buf, state, acc, stmt, packet, queued,
                     thrown>>
  BY DEF RecvCompletes, client, session, threads, ghosts
<1>2. net \in Seq(Nat) /\ Len(net) \in Nat /\ port \in Seq(Completions)
      /\ <<>> \in Seq(Nat) /\ reset \in BOOLEAN
  BY LenProperties DEF IInv, TypeOK
<1>3. PICK c \in Completions :
        c.io = "recv" /\ port' = Append(port, c) /\ net' \in Seq(Nat)
  <2>1. ASSUME NEW n \in 1 .. Len(net),
               port' = Append(port, Completion("recv", SubSeq(net, 1, n), TRUE)),
               net' = SubSeq(net, n + 1, Len(net))
        PROVE  \E c \in Completions :
                 c.io = "recv" /\ port' = Append(port, c) /\ net' \in Seq(Nat)
    <3>1. \A j \in 1 .. Len(net) : net[j] \in Nat
      BY <1>2, ElementOfSeq
    <3>2. SubSeq(net, 1, n) \in Seq(Nat)
      BY <1>2, <3>1, SubSeqProperties
    <3>3. SubSeq(net, n + 1, Len(net)) \in Seq(Nat)
      BY <1>2, <3>1, SubSeqProperties
    <3>4. /\ Completion("recv", SubSeq(net, 1, n), TRUE) \in Completions
          /\ Completion("recv", SubSeq(net, 1, n), TRUE).io = "recv"
      BY <3>2 DEF Completion, Completions
    <3> QED BY <2>1, <3>3, <3>4
  <2>2. ASSUME port' = Append(port, Completion("recv", <<>>, ~reset)), net' = net
        PROVE  \E c \in Completions :
                 c.io = "recv" /\ port' = Append(port, c) /\ net' \in Seq(Nat)
    <3>1. (~reset) \in BOOLEAN
      OBVIOUS
    <3>2. /\ Completion("recv", <<>>, ~reset) \in Completions
          /\ Completion("recv", <<>>, ~reset).io = "recv"
      BY <1>2, <3>1 DEF Completion, Completions
    <3> QED BY <1>2, <2>2, <3>2
  <2> QED BY <2>1, <2>2 DEF RecvCompletes
<1>4. /\ port' \in Seq(Completions)
      /\ Recvs' = Recvs - Bit(recvPosted) + Bit(recvPosted') + Bit(c.io = "recv")
      /\ Sends' = Sends - Bit(sendPosted >= 0) + Bit(sendPosted' >= 0)
                        + Bit(c.io = "send")
  BY <1>3, PortAppend DEF IInv
<1>5. /\ Recvs \in Nat /\ Sends \in Nat /\ Handling \in Nat /\ Making \in Nat
      /\ Receiving \in Nat /\ Sending \in Nat
  BY CountTypes DEF IInv
<1>6. Recvs' = Recvs /\ Sends' = Sends
  <2>1. /\ Bit(recvPosted) = 1 /\ Bit(recvPosted') = 0
        /\ Bit(c.io = "recv") = 1 /\ Bit(c.io = "send") = 0
    BY <1>1, <1>3 DEF Bit
  <2>2. Bit(sendPosted' >= 0) = Bit(sendPosted >= 0) /\ Bit(sendPosted >= 0) \in Nat
    BY <1>1 DEF Bit
  <2>3. Recvs' = Recvs - 1 + 0 + 1 /\ Sends' = Sends - Bit(sendPosted >= 0)
                                                + Bit(sendPosted >= 0) + 0
    BY <1>4, <2>1, <2>2, Zenon
  <2> QED BY <1>5, <2>2, <2>3
<1>7. Recvs >= 1
  <2>1. Cardinality(Of(port, "recv")) \in Nat /\ Bit(recvPosted) = 1
    BY <1>1, CountTypes, FS_CardinalityType DEF IInv, Bit
  <2> QED BY <2>1 DEF Recvs
<1>8. acc \in {"print", "done"} /\ state # "released"
  BY <1>5, <1>7 DEF IInv, Unused
<1>9. /\ Handling' = Handling /\ Making' = Making /\ Receiving' = Receiving
      /\ Sending' = Sending
  BY <1>1, SameWorkers
<1>10. Counted' /\ Unused' /\ Released' /\ Single'
  <2>1. Recvs' + Sends' + Handling' + Making' = Recvs + Sends + Handling + Making
    BY <1>6, <1>9, Zenon
  <2>2. Recvs' + Receiving' = Recvs + Receiving /\ Sends' + Sending' = Sends + Sending
    BY <1>6, <1>9, Zenon
  <2>3. /\ Recvs' + Receiving' \in Nat /\ Recvs' + Receiving' <= Recvs + Receiving
        /\ Sends' + Sending' \in Nat /\ Sends' + Sending' <= Sends + Sending
    BY <1>5, <2>2
  <2> QED BY <1>1, <1>8, <2>1, <2>3, HandedOn
<1>11. TypeOK'
  <2>1. recvPosted' \in BOOLEAN
    BY <1>1
  <2> QED BY <1>1, <1>3, <1>4, <2>1 DEF IInv, TypeOK
<1>12. Fits'
  BY <1>1 DEF IInv, Fits
<1>13. Wired'
  <2>1. /\ Of(port', "send") = Of(port, "send")
        /\ \A i \in Of(port, "send") : port'[i] = port[i]
    BY <1>2, <1>3, OfBehind
  <2> QED BY <1>1, <2>1 DEF IInv, Wired, Rest
<1> QED BY <1>10, <1>11, <1>12, <1>13 DEF IInv

LEMMA SendCompletesKeeps ==
  ASSUME IInv, ~thrown, SendCompletes
  PROVE  IInv'
<1> DEFINE bytes == SubSeq(send_buf, 1, sendPosted)
           c == IF reset THEN Completion("send", <<>>, FALSE)
                         ELSE Completion("send", bytes, TRUE)
<1>1. /\ sendPosted >= 0 /\ sendPosted' = -1 /\ port' = Append(port, c)
      /\ wire' = IF reset THEN wire ELSE wire \o bytes
      /\ UNCHANGED <<sentBytes, closed, reset, net, recvPosted, io_count,
                     send_flag, send_buf, state, acc, stmt, packet, queued,
                     thrown>>
  BY DEF SendCompletes, client, session, threads, ghosts
<1>2. /\ send_buf \in Seq(Nat) /\ wire \in Seq(Nat) /\ port \in Seq(Completions)
      /\ <<>> \in Seq(Nat) /\ sendPosted \in Nat /\ Len(send_buf) \in Nat
      /\ sendPosted <= Len(send_buf)
  BY <1>1, LenProperties DEF IInv, TypeOK, Fits
<1>3. /\ bytes \in Seq(Nat) /\ Len(bytes) = sendPosted
      /\ Rest(sendPosted) \in Seq(Nat)
      /\ bytes \o Rest(sendPosted) = send_buf
  <2>1. \A j \in 1 .. Len(send_buf) : send_buf[j] \in Nat
    BY <1>2, ElementOfSeq
  <2>2. bytes \in Seq(Nat) /\ Len(bytes) = sendPosted
    BY <1>2, <2>1, SubSeqProperties
  <2>3. Rest(sendPosted) \in Seq(Nat)
    BY <1>2, <2>1, SubSeqProperties DEF Rest
  <2>4. bytes \o Rest(sendPosted) = SubSeq(send_buf, 1, Len(send_buf))
    <3>1. 1 \in 1 .. Len(send_buf) + 1 /\ sendPosted \in 1 - 1 .. Len(send_buf)
          /\ Len(send_buf) \in sendPosted .. Len(send_buf)
      BY <1>2
    <3> QED BY <1>2, <3>1, ConcatAdjacentSubSeq DEF Rest
  <2>5. SubSeq(send_buf, 1, Len(send_buf)) = send_buf
    BY <1>2, SubSeqFull
  <2> QED BY <2>2, <2>3, <2>4, <2>5
<1> HIDE DEF bytes
<1>4. c \in Completions /\ c.io = "send" /\ c.size = IF reset THEN <<>> ELSE bytes
  BY <1>2, <1>3 DEF Completion, Completions
<1> HIDE DEF c
<1>5. /\ port' \in Seq(Completions)
      /\ Recvs' = Recvs - Bit(recvPosted) + Bit(recvPosted') + Bit(c.io = "recv")
      /\ Sends' = Sends - Bit(sendPosted >= 0) + Bit(sendPosted' >= 0)
                        + Bit(c.io = "send")
  BY <1>1, <1>4, PortAppend DEF IInv
<1>6. /\ Recvs \in Nat /\ Sends \in Nat /\ Handling \in Nat /\ Making \in Nat
      /\ Receiving \in Nat /\ Sending \in Nat
  BY CountTypes DEF IInv
<1>7. Recvs' = Recvs /\ Sends' = Sends
  <2>1. /\ Bit(sendPosted >= 0) = 1 /\ Bit(c.io = "send") = 1 /\ Bit(c.io = "recv") = 0
    BY <1>1, <1>4 DEF Bit
  <2>2. Bit(sendPosted' >= 0) = 0
    <3>1. ~(-1 >= 0)
      OBVIOUS
    <3>2. Bit(-1 >= 0) = 0
      BY <3>1 DEF Bit
    <3> QED BY <1>1, <3>2, Zenon
  <2>3. Bit(recvPosted') = Bit(recvPosted) /\ Bit(recvPosted) \in Nat
    BY <1>1 DEF Bit
  <2>4. Sends' = Sends - 1 + 0 + 1 /\ Recvs' = Recvs - Bit(recvPosted)
                                                + Bit(recvPosted) + 0
    BY <1>5, <2>1, <2>2, <2>3, Zenon
  <2> QED BY <1>6, <2>3, <2>4
<1>8. Of(port, "send") = {} /\ Sends = 1
  <2>1. Cardinality(Of(port, "send")) \in Nat /\ Bit(sendPosted >= 0) = 1
    BY <1>1, CountTypes, FS_CardinalityType DEF IInv, Bit
  <2>2. Sends <= 1
    BY <1>6 DEF IInv, Single
  <2>3. Cardinality(Of(port, "send")) = 0
    BY <2>1, <2>2 DEF Sends
  <2> QED BY <2>1, <2>3, CountTypes, FS_EmptySet DEF IInv, Sends
<1>9. acc \in {"print", "done"} /\ state # "released"
  BY <1>6, <1>8 DEF IInv, Unused
<1>10. /\ Handling' = Handling /\ Making' = Making /\ Receiving' = Receiving
       /\ Sending' = Sending
  BY <1>1, SameWorkers
<1>11. Counted' /\ Unused' /\ Released' /\ Single'
  <2>1. Recvs' + Sends' + Handling' + Making' = Recvs + Sends + Handling + Making
    BY <1>7, <1>10, Zenon
  <2>2. Recvs' + Receiving' = Recvs + Receiving /\ Sends' + Sending' = Sends + Sending
    BY <1>7, <1>10, Zenon
  <2>3. /\ Recvs' + Receiving' \in Nat /\ Recvs' + Receiving' <= Recvs + Receiving
        /\ Sends' + Sending' \in Nat /\ Sends' + Sending' <= Sends + Sending
    BY <1>6, <2>2
  <2> QED BY <1>1, <1>9, <2>1, <2>3, HandedOn
<1>12. TypeOK'
  <2>1. wire' \in Seq(Nat)
    BY <1>1, <1>2, <1>3, ConcatProperties
  <2>2. sendPosted' \in Int
    BY <1>1
  <2> QED BY <1>1, <1>5, <2>1, <2>2 DEF IInv, TypeOK
<1>13. Fits'
  <2>1. -1 <= Len(send_buf)
    BY <1>2
  <2> QED BY <1>1, <2>1, Zenon DEF Fits
<1>14. Wired'
  <2>1. /\ Of(port', "send") = {Len(port) + 1} /\ port'[Len(port) + 1] = c
    BY <1>1, <1>2, <1>4, <1>8, OfBehind
  <2>2. queued = wire \o send_buf
    BY <1>8 DEF IInv, Wired
  <2>3. CASE reset
    <3>1. Len(c.size) = 0 /\ wire' = wire
      BY <1>1, <1>4, <2>3, EmptySeq
    <3>2. SubSeq(send_buf, Len(c.size) + 1, Len(send_buf)) = send_buf
      <4>1. Len(c.size) + 1 = 1
        BY <3>1
      <4> QED BY <1>2, <4>1, SubSeqFull
    <3>3. queued = wire \o SubSeq(send_buf, Len(c.size) + 1, Len(send_buf))
      BY <2>2, <3>2, Zenon
    <3>4. /\ queued' = wire' \o SubSeq(send_buf', Len(c.size) + 1, Len(send_buf'))
          /\ Len(c.size) <= Len(send_buf')
      <4>1. Len(c.size) <= Len(send_buf)
        BY <1>2, <3>1
      <4>2. send_buf' = send_buf /\ queued' = queued /\ wire' = wire
        BY <1>1, <3>1
      <4> QED BY <3>3, <4>1, <4>2, Zenon
    <3> QED BY <2>1, <3>1, <3>4 DEF Wired, Rest
  <2>4. CASE ~reset
    <3>1. c.size = bytes /\ wire' = wire \o bytes
      BY <1>1, <1>4, <2>4
    <3>2. (wire \o bytes) \o Rest(sendPosted) = wire \o (bytes \o Rest(sendPosted))
      BY <1>2, <1>3, BytesAssociate, Zenon
    <3>3. queued = wire' \o Rest(sendPosted)
      BY <1>3, <2>2, <3>1, <3>2, Zenon
    <3>4. /\ queued' = wire' \o SubSeq(send_buf', Len(c.size) + 1, Len(send_buf'))
          /\ Len(c.size) <= Len(send_buf')
      BY <1>1, <1>2, <1>3, <3>1, <3>3 DEF Rest
    <3> QED BY <2>1, <3>4 DEF Wired, Rest
  <2> QED BY <2>3, <2>4
<1> QED BY <1>11, <1>12, <1>13, <1>14 DEF IInv

-----------------------------------------------------------------------------
(* The theorems *)

LEMMA NextKeeps == IInv /\ [EchoNext]_echoVars => IInv'
<1> SUFFICES ASSUME IInv, [EchoNext]_echoVars PROVE IInv'
  OBVIOUS
<1>1. CASE EchoNext
  <2>1. ~thrown
    BY <1>1 DEF EchoNext
  <2>2. CASE AcceptStep
    BY <2>1, <2>2, AcceptKeeps, AcceptPrintsKeeps DEF AcceptStep
  <2>3. ASSUME NEW w \in Workers, WorkerStep(w) PROVE IInv'
    BY <2>1, <2>3, QuietSteps, TakeKeeps, RecvPostedKeeps, OnRecvKeeps,
       SendPostedKeeps DEF WorkerStep
  <2>4. CASE KernelStep
    BY <2>1, <2>4, RecvCompletesKeeps, SendCompletesKeeps DEF KernelStep
  <2>5. CASE ClientStep
    BY <2>5, ClientKeeps
  <2> QED BY <1>1, <2>2, <2>3, <2>4, <2>5 DEF EchoNext
<1>2. CASE UNCHANGED echoVars
  <2>1. UNCHANGED <<sentBytes, net, closed, reset, wire, recvPosted, sendPosted,
                    port, io_count, send_flag, send_buf, state, acc, stmt,
                    packet, queued, thrown>>
    BY <1>2 DEF echoVars, client, kernel, session, threads, ghosts
  <2>2. TypeOK'
    BY <2>1 DEF IInv, TypeOK
  <2>3. Fits' /\ Wired'
    BY <2>1, SameWire DEF IInv
  <2> QED BY <2>1, <2>2, <2>3, SameCounts, SameWorkers
          DEF IInv, Counted, Unused, Released, Single
<1> QED BY <1>1, <1>2

\* In every reachable state the counts are those of the calls in flight and
\* of the workers, and the bytes on the wire those of send_buf.
THEOREM EchoInvariance == EchoSpec => []IInv
<1>1. EchoInit => IInv
  BY InitIInv
<1>2. IInv /\ [EchoNext]_echoVars => IInv'
  BY NextKeeps
<1> QED BY <1>1, <1>2, PTL DEF EchoSpec

\* io_count (Session.h, Server.cpp: InterlockedIncrement and
\* InterlockedDecrement) is the number of the calls in flight, the
\* completions being handled and the calls about to be made.
THEOREM IoCountAlwaysExact == EchoSpec => []IoCountExact
<1>1. IInv => IoCountExact
  <2> SUFFICES ASSUME IInv, ~thrown
               PROVE  io_count = InFlight("recv") + InFlight("send")
                        + Cardinality(Busy)
                        + Cardinality(WorkersAt({"wsaRecv", "wsaSend"}))
                        + (IF acc = "wsaRecv" THEN 1 ELSE 0)
    BY DEF IoCountExact
  <2>1. io_count = Recvs + Sends + Handling + Making + Bit(acc = "wsaRecv")
    BY DEF IInv, Counted
  <2>2. /\ InFlight("recv") = Recvs /\ InFlight("send") = Sends
        /\ Cardinality(Busy) = Handling
        /\ Cardinality(WorkersAt({"wsaRecv", "wsaSend"})) = Making
    BY Meaning DEF IInv, Handling, Making
  <2> QED BY <2>1, <2>2, Zenon DEF Bit
<1> QED BY <1>1, EchoInvariance, PTL

\* Release_Session runs when no call is in flight and no thread is with the
\* session, however many workers there are.
THEOREM ReleasedAlwaysUnused == EchoSpec => []ReleasedUnused
<1>1. IInv => ReleasedUnused
  <2> SUFFICES ASSUME IInv, state = "released"
               PROVE  /\ InFlight("recv") = 0 /\ InFlight("send") = 0
                      /\ Busy = {} /\ acc \in {"print", "done"}
    BY DEF ReleasedUnused
  <2>1. Recvs = 0 /\ Sends = 0 /\ Handling = 0 /\ acc \in {"print", "done"}
    BY DEF IInv, Unused, Released
  <2>2. InFlight("recv") = Recvs /\ InFlight("send") = Sends
    BY Meaning DEF IInv
  <2>3. Busy = AtOf(stmt, Statements \ {"gqcs"})
    BY Meaning DEF IInv
  <2>4. Busy = {}
    BY <2>1, <2>3, CountTypes, FS_EmptySet DEF IInv, Handling
  <2> QED BY <2>1, <2>2, <2>4
<1> QED BY <1>1, EchoInvariance, PTL

\* No OVERLAPPED of a session is given to two calls at once, and recv_buf is
\* used by one thread at a time.
THEOREM OneCallAlways == EchoSpec => []OneCallEach
<1>1. IInv => OneCallEach
  <2> SUFFICES ASSUME IInv PROVE OneCallEach
    OBVIOUS
  <2>1. /\ InFlight("recv") = Recvs /\ InFlight("send") = Sends
        /\ Cardinality(WorkersAt({"postRecv", "wsaRecv"})) = Receiving
        /\ Cardinality(WorkersAt({"flag", "sendCount", "wsaSend"})) = Sending
    BY Meaning DEF IInv, Receiving, Sending
  <2> QED BY <2>1 DEF IInv, Single, OneCallEach
<1> QED BY <1>1, EchoInvariance, PTL

\* What is on the wire is a first part of what was put into send_buf.
LEMMA WireFirst ==
  ASSUME IInv
  PROVE  /\ wire \in Seq(Nat) /\ queued \in Seq(Nat)
         /\ Len(wire) \in Nat /\ Len(queued) \in Nat /\ Len(wire) <= Len(queued)
         /\ \A i \in 1 .. Len(wire) : wire[i] = queued[i]
<1>1. /\ wire \in Seq(Nat) /\ queued \in Seq(Nat) /\ send_buf \in Seq(Nat)
      /\ Len(send_buf) \in Nat /\ Len(wire) \in Nat
  BY LenProperties DEF IInv, TypeOK
<1>2. PICK t \in Seq(Nat) : queued = wire \o t
  <2>1. CASE Of(port, "send") = {}
    BY <1>1, <2>1 DEF IInv, Wired
  <2>2. ASSUME NEW i \in Of(port, "send")
        PROVE  \E t \in Seq(Nat) : queued = wire \o t
    <3>1. port[i] \in Completions
      BY ElementOfSeq, LenProperties DEF IInv, TypeOK, Of
    <3>2. Len(port[i].size) \in Nat
      BY <3>1, LenProperties DEF Completions
    <3>3. \A j \in Len(port[i].size) + 1 .. Len(send_buf) : send_buf[j] \in Nat
      BY <1>1, <3>2, ElementOfSeq
    <3>4. Rest(Len(port[i].size)) \in Seq(Nat)
      BY <1>1, <3>2, <3>3, SubSeqProperties DEF Rest
    <3> QED BY <3>4 DEF IInv, Wired
  <2> QED BY <2>1, <2>2
<1>3. Len(queued) = Len(wire) + Len(t) /\ Len(t) \in Nat
  BY <1>1, <1>2, ConcatProperties, LenProperties
<1>4. \A i \in 1 .. Len(wire) : queued[i] = wire[i]
  BY <1>1, <1>2, <1>3, ConcatProperties
<1> QED BY <1>1, <1>3, <1>4

\* The bytes on the wire are the first of those that were put into send_buf:
\* posting all of send_buf again and again, with Move_Front only when a send
\* completes, sends nothing twice and skips nothing.
THEOREM WireAlwaysQueued == EchoSpec => []WireIsQueued
<1>1. IInv => WireIsQueued
  <2> SUFFICES ASSUME IInv PROVE IsPrefix(wire, queued)
    BY DEF WireIsQueued
  <2> DEFINE u == SubSeq(queued, 1, Len(wire))
  <2>1. \A j \in 1 .. Len(wire) : queued[j] \in Nat
    BY WireFirst, ElementOfSeq
  <2>2. /\ u \in Seq(Nat) /\ Len(u) = Len(wire)
        /\ \A j \in 1 .. Len(wire) : u[j] = queued[j]
    BY WireFirst, <2>1, SubSeqProperties
  <2> HIDE DEF u
  <2>3. u = wire
    BY WireFirst, <2>2, SeqEqual
  <2>4. SubSeq(wire, 1, Len(wire)) = wire
    BY WireFirst, SubSeqFull
  <2> QED BY WireFirst, <2>3, <2>4 DEF IsPrefix, u
<1> QED BY <1>1, EchoInvariance, PTL

=============================================================================
