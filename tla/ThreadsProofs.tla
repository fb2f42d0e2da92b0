---------------------------- MODULE ThreadsProofs ----------------------------
(* A session of ApcEcho has one turn to be received from, for any number of   *)
(* clients, bytes and buffers; a session of ThreadDebug has one player, for   *)
(* any ids and any number of packets.                                         *)
EXTENDS ThreadDebug, ApcEcho, FiniteSetTheorems, SequenceTheorems, TLAPS

Arriving == {"insert", "inserting", "push"}
Holding == {"find", "post", "copy", "send", "apcPush", "crashed"}

Known == 1..accept_id

TypeOK ==
  /\ accept_id \in 0..MaxClients
  /\ accepting \in Arriving \cup {"accept", "signal", "ended"}
  /\ accepting \in Arriving \cup {"signal"} => accept_id > 0
  /\ recving \in Holding \cup {"wait", "apcs", "empty", "take"}
  /\ recvJob_queue \in Seq(Known) /\ apcs \in Seq(Known)
  /\ posted \subseteq Known
  /\ recving \in Holding => job \in Known
  /\ overlapped \in [SessionIds -> Nat]
  /\ pending \in [SessionIds -> Seq(Nat \ {0})]

\* There is something to echo where Recv_APC goes on.
Received ==
  /\ cbTransferred \in Nat
  /\ recving \in {"copy", "send", "apcPush"} => cbTransferred > 0

\* A completion routine that is due finds a number other than 0, or rightly 0:
\* ZeroMemory does not come between, and a WSASend of 0 bytes is never made.
DueRight ==
  \A s \in Known :
    Places(apcs, s) # 0 /\ overlapped[s] = 0 => s \in fin \cup broken

TurnsInv == TypeOK /\ Received /\ DueRight /\ OneTurn

\* front() and pop() are not called on an empty queue, although empty() was
\* asked without recvQ_lock: only RecvProc takes ids out.
NeverPopsEmpty == recving = "take" => recvJob_queue # <<>>

IInv == TurnsInv /\ NeverPopsEmpty

-----------------------------------------------------------------------------
(* Counting *)

LEMMA PlacesType ==
  ASSUME NEW S, NEW q \in Seq(S), NEW s
  PROVE  /\ IsFiniteSet({i \in DOMAIN q : q[i] = s})
         /\ Places(q, s) \in Nat
<1>1. IsFiniteSet({i \in DOMAIN q : q[i] = s})
  <2>1. DOMAIN q = 1 .. Len(q) /\ Len(q) \in Nat
    BY LenProperties
  <2>2. IsFiniteSet(1 .. Len(q))
    BY <2>1, FS_Interval
  <2> QED BY <2>1, <2>2, FS_Subset
<1> QED BY <1>1, FS_CardinalityType DEF Places

\* One more at the end.
LEMMA PlacesAppend ==
  ASSUME NEW S, NEW q \in Seq(S), NEW x \in S, NEW s
  PROVE  Places(Append(q, x), s) = Places(q, s) + Bit(x = s)
<1> DEFINE at == {i \in DOMAIN q : q[i] = s}
           atMore == {i \in DOMAIN Append(q, x) : Append(q, x)[i] = s}
<1>1. /\ DOMAIN q = 1 .. Len(q) /\ DOMAIN Append(q, x) = 1 .. Len(q) + 1
      /\ \A i \in 1 .. Len(q) : Append(q, x)[i] = q[i]
      /\ Append(q, x)[Len(q) + 1] = x
      /\ Len(q) \in Nat
  BY AppendProperties, LenProperties
<1>2. IsFiniteSet(at) /\ Cardinality(at) \in Nat
  BY PlacesType DEF Places
<1>3. CASE x = s
  <2>1. atMore = at \cup {Len(q) + 1} /\ Len(q) + 1 \notin at
    BY <1>1, <1>3
  <2>2. Cardinality(atMore) = Cardinality(at) + 1
    BY <1>2, <2>1, FS_AddElement
  <2> QED BY <1>3, <2>2 DEF Places, Bit
<1>4. CASE x # s
  <2>1. atMore = at
    BY <1>1, <1>4
  <2>2. Cardinality(at) + 0 = Cardinality(at)
    BY <1>2
  <2> QED BY <1>4, <2>1, <2>2 DEF Places, Bit
<1> QED BY <1>3, <1>4

\* One less at the head: the others move up.
LEMMA PlacesTail ==
  ASSUME NEW S, NEW q \in Seq(S), q # <<>>, NEW s
  PROVE  Places(q, s) = Places(Tail(q), s) + Bit(Head(q) = s)
<1> DEFINE at == {i \in DOMAIN q : q[i] = s}
           behind == {i \in DOMAIN Tail(q) : Tail(q)[i] = s}
           f == [i \in behind |-> i + 1]
<1>1. /\ Tail(q) \in Seq(S) /\ Len(q) \in Nat /\ Len(q) >= 1
      /\ DOMAIN q = 1 .. Len(q) /\ DOMAIN Tail(q) = 1 .. Len(q) - 1
      /\ \A i \in 1 .. Len(q) - 1 : Tail(q)[i] = q[i + 1]
      /\ Head(q) = q[1]
  BY HeadTailProperties, LenProperties, EmptySeq
<1>2. /\ IsFiniteSet(at) /\ Cardinality(at) \in Nat
      /\ IsFiniteSet(behind) /\ Cardinality(behind) \in Nat
  BY <1>1, PlacesType DEF Places
<1>3. f \in Bijection(behind, at \ {1})
  <2>1. f \in [behind -> at \ {1}]
    BY <1>1
  <2>2. \A a, b \in behind : f[a] = f[b] => a = b
    BY <1>1
  <2>3. \A t \in at \ {1} : \E i \in behind : f[i] = t
    <3> SUFFICES ASSUME NEW t \in at \ {1}
                 PROVE  t - 1 \in behind /\ f[t - 1] = t
      OBVIOUS
    <3>1. t \in 2 .. Len(q) /\ q[t] = s
      BY <1>1
    <3>2. t - 1 \in 1 .. Len(q) - 1 /\ Tail(q)[t - 1] = q[t]
      BY <1>1, <3>1
    <3> QED BY <1>1, <3>1, <3>2
  <2>4. DOMAIN f = behind
    OBVIOUS
  <2> HIDE DEF f, at, behind
  <2> QED BY <2>1, <2>2, <2>3, <2>4
          DEF Bijection, Injection, Surjection, IsInjective
<1>4. Cardinality(at \ {1}) = Cardinality(behind)
  BY <1>2, <1>3, FS_Bijection DEF ExistsBijection
<1>5. 1 \in at <=> Head(q) = s
  BY <1>1
<1>6. Cardinality(at \ {1}) = IF 1 \in at THEN Cardinality(at) - 1
                                          ELSE Cardinality(at)
  BY <1>2, FS_RemoveElement
<1> HIDE DEF at, behind
<1>7. Cardinality(at) = Cardinality(behind) + Bit(Head(q) = s)
  BY <1>2, <1>4, <1>5, <1>6 DEF Bit
<1> QED BY <1>7 DEF Places, at, behind

-----------------------------------------------------------------------------
(* What a step does to the turns *)

\* The five places a turn can be at are counted by numbers.
LEMMA PartsType ==
  ASSUME TypeOK, NEW s
  PROVE  /\ Places(recvJob_queue, s) \in Nat /\ Places(apcs, s) \in Nat
         /\ \A b : Bit(b) \in {0, 1}
<1>1. recvJob_queue \in Seq(Known) /\ apcs \in Seq(Known)
  BY DEF TypeOK
<1>2. Places(recvJob_queue, s) \in Nat /\ Places(apcs, s) \in Nat
  BY <1>1, PlacesType
<1> QED BY <1>2 DEF Bit

\* The turns of s, from their parts.
LEMMA TurnsAre ==
  ASSUME NEW s
  PROVE  Turns(s) = Bit(accept_id = s /\ accepting \in Arriving)
                    + Places(recvJob_queue, s)
                    + Bit(job = s /\ recving \in Holding)
                    + Bit(s \in posted)
                    + Places(apcs, s)
BY DEF Turns, Arriving, Holding

LEMMA QuietTurns ==
  ASSUME UNCHANGED <<accept_id, recvJob_queue, posted, apcs, job>>,
         accepting' \in Arriving <=> accepting \in Arriving,
         recving' \in Holding <=> recving \in Holding,
         NEW s
  PROVE  Turns(s)' = Turns(s)
<1>1. /\ Bit(accept_id' = s /\ accepting' \in Arriving)
           = Bit(accept_id = s /\ accepting \in Arriving)
      /\ Bit(job' = s /\ recving' \in Holding)
           = Bit(job = s /\ recving \in Holding)
  BY DEF Bit
<1>2. Bit(s \in posted') = Bit(s \in posted)
  BY DEF Bit
<1> QED BY <1>1, <1>2 DEF Turns, Arriving, Holding

\* Sessions keep their turns, or lose them for a reason.
LEMMA OneTurnKept ==
  ASSUME OneTurn, accept_id' = accept_id,
         fin \subseteq fin', broken \subseteq broken',
         \A s \in Known : \/ Turns(s)' = Turns(s)
                          \/ Turns(s)' = 0 /\ s \in fin' \cup broken'
  PROVE  OneTurn'
<1> SUFFICES ASSUME NEW s \in Known
             PROVE  /\ Turns(s)' <= 1
                    /\ Turns(s)' = 0 => s \in fin' \cup broken'
  BY DEF OneTurn, Known
<1>1. Turns(s) <= 1 /\ (Turns(s) = 0 => s \in fin \cup broken)
  BY DEF OneTurn, Known
<1>2. CASE Turns(s)' = Turns(s)
  BY <1>1, <1>2
<1>3. CASE Turns(s)' = 0 /\ s \in fin' \cup broken'
  BY <1>3
<1> QED BY <1>2, <1>3

LEMMA QuietKeeps ==
  ASSUME TurnsInv, TypeOK', Received',
         UNCHANGED <<accept_id, recvJob_queue, posted, apcs, job>>,
         accepting' \in Arriving <=> accepting \in Arriving,
         recving' \in Holding <=> recving \in Holding,
         fin \subseteq fin', broken \subseteq broken',
         \A s \in Known : overlapped'[s] = 0 => overlapped[s] = 0
  PROVE  TurnsInv'
<1>1. OneTurn'
  BY QuietTurns, OneTurnKept DEF TurnsInv
<1>2. DueRight'
  BY DEF TurnsInv, DueRight, Known
<1> QED BY <1>1, <1>2 DEF TurnsInv

-----------------------------------------------------------------------------
(* The clients, the sockets, and AcceptProc *)

LEMMA SocketKeeps ==
  ASSUME TurnsInv, ClientSends \/ ClientCloses \/ ConnectionBreaks
  PROVE  TurnsInv'
<1>1. /\ UNCHANGED <<acceptProc, shared, recvProc, buffers, posted, apcs>>
      /\ fin \subseteq fin' /\ broken \subseteq broken'
      /\ pending' \in [SessionIds -> Seq(Nat \ {0})]
  <2>1. pending \in [SessionIds -> Seq(Nat \ {0})]
    BY DEF TurnsInv, TypeOK
  <2>2. CASE ClientSends
    BY <2>1, <2>2 DEF ClientSends, calls
  <2>3. CASE ClientCloses
    BY <2>1, <2>3 DEF ClientCloses, calls
  <2>4. CASE ConnectionBreaks
    <3>1. /\ \E s : pending' = [pending EXCEPT ![s] = <<>>]
          /\ UNCHANGED <<acceptProc, shared, recvProc, buffers, posted, apcs, fin>>
          /\ broken \subseteq broken'
      BY <2>4 DEF ConnectionBreaks
    <3>2. <<>> \in Seq(Nat \ {0})
      BY EmptySeq
    <3> QED BY <2>1, <3>1, <3>2
  <2> QED BY <2>2, <2>3, <2>4
<1>2. TypeOK' /\ Received'
  BY <1>1 DEF TurnsInv, TypeOK, Received, Known, acceptProc, shared, recvProc, buffers
<1> QED BY <1>1, <1>2, QuietKeeps DEF acceptProc, shared, recvProc, buffers

LEMMA SendCompletesKeeps ==
  ASSUME TurnsInv, NEW s \in SessionIds, SendCompletes(s)
  PROVE  TurnsInv'
<1>1. /\ pending \in [SessionIds -> Seq(Nat \ {0})] /\ pending[s] # <<>>
      /\ overlapped \in [SessionIds -> Nat]
      /\ overlapped' = [overlapped EXCEPT ![s] = Head(pending[s])]
      /\ pending' = [pending EXCEPT ![s] = Tail(@)]
      /\ UNCHANGED <<acceptProc, shared, recvProc, fin, broken, posted, apcs>>
  BY DEF SendCompletes, TurnsInv, TypeOK
<1>2. Head(pending[s]) \in Nat \ {0} /\ Tail(pending[s]) \in Seq(Nat \ {0})
  BY <1>1, HeadTailProperties
<1>3. /\ pending' \in [SessionIds -> Seq(Nat \ {0})]
      /\ overlapped' \in [SessionIds -> Nat]
      /\ \A u \in SessionIds : overlapped'[u] = 0 => overlapped[u] = 0
  BY <1>1, <1>2
<1>4. Known \subseteq SessionIds
  BY ApcAssumption DEF TurnsInv, TypeOK, Known, SessionIds
<1>5. TypeOK' /\ Received'
  BY <1>1, <1>3 DEF TurnsInv, TypeOK, Received, Known, acceptProc, shared, recvProc
<1> QED BY <1>1, <1>3, <1>4, <1>5, QuietKeeps DEF acceptProc, shared, recvProc

\* The statements of AcceptProc that move no turn, and 'q'.
LEMMA AcceptQuietKeeps ==
  ASSUME TurnsInv, AcceptFails \/ InsertBegins \/ InsertEnds \/ Signals \/ TypedQ
  PROVE  TurnsInv'
<1>1. /\ UNCHANGED <<accept_id, recvJob_queue, recvProc, buffers, sockets, calls>>
      /\ accepting' \in Arriving \cup {"accept", "signal", "ended"}
      /\ accepting' \in Arriving <=> accepting \in Arriving
      /\ accepting' \in Arriving \cup {"signal"} =>
           accepting \in Arriving \cup {"signal"}
  <2>1. accepting \in Arriving \cup {"accept", "signal", "ended"}
    BY DEF TurnsInv, TypeOK
  <2>2. CASE AcceptFails
    BY <2>2 DEF AcceptFails, AcceptGoto, Arriving, shared
  <2>3. CASE InsertBegins
    BY <2>3 DEF InsertBegins, AcceptGoto, Arriving, shared
  <2>4. CASE InsertEnds
    BY <2>4 DEF InsertEnds, AcceptGoto, Arriving
  <2>5. CASE Signals
    BY <2>5 DEF Signals, AcceptGoto, Arriving
  <2>6. CASE TypedQ
    BY <2>1, <2>6 DEF TypedQ, acceptProc
  <2> QED BY <2>2, <2>3, <2>4, <2>5, <2>6
<1>2. TypeOK' /\ Received'
  BY <1>1 DEF TurnsInv, TypeOK, Received, Known, recvProc, buffers, calls
<1> QED BY <1>1, <1>2, QuietKeeps DEF recvProc, buffers, sockets, calls

\* The statements of RecvProc and Recv_APC that move no turn.
LEMMA RecvQuietKeeps ==
  ASSUME TurnsInv, Wakes \/ ApcsDone \/ Copies \/ SendsNow \/ SendsLater
               \/ TestEmpty \/ Finds
  PROVE  TurnsInv'
<1>1. /\ UNCHANGED <<acceptProc, recvJob_queue, job, cbTransferred, fin, broken,
                     posted, apcs>>
      /\ recving' \in Holding \cup {"wait", "apcs", "empty", "take"}
      /\ recving' \in Holding <=> recving \in Holding
      /\ recving' \in {"copy", "send", "apcPush"} =>
           recving \in {"copy", "send", "apcPush"}
  <2>1. CASE Wakes
    BY <2>1 DEF Wakes, RecvGoto, Holding, sockets, calls
  <2>2. CASE ApcsDone
    BY <2>2 DEF ApcsDone, RecvGoto, Holding, shared, sockets, calls
  <2>3. CASE Copies
    BY <2>3 DEF Copies, RecvGoto, Holding, shared, sockets, calls
  <2>4. CASE SendsNow
    BY <2>4 DEF SendsNow, RecvGoto, Holding, shared, calls
  <2>5. CASE SendsLater
    BY <2>5 DEF SendsLater, RecvGoto, Holding, shared, sockets
  <2>6. CASE TestEmpty
    BY <2>6 DEF TestEmpty, RecvGoto, Holding, shared, sockets, calls
  <2>7. CASE Finds
    BY <2>7 DEF Finds, RecvGoto, Holding, shared, sockets, calls
  <2> QED BY <2>1, <2>2, <2>3, <2>4, <2>5, <2>6, <2>7
<1>2. Known \subseteq SessionIds
  BY ApcAssumption DEF TurnsInv, TypeOK, Known, SessionIds
<1>3. /\ overlapped \in [SessionIds -> Nat]
      /\ pending \in [SessionIds -> Seq(Nat \ {0})]
      /\ recving \in Holding => job \in SessionIds
      /\ recving \in {"copy", "send", "apcPush"} =>
           cbTransferred \in Nat \ {0} /\ job \in SessionIds
  BY <1>2 DEF TurnsInv, TypeOK, Received, Holding
<1>4. /\ overlapped' \in [SessionIds -> Nat]
      /\ pending' \in [SessionIds -> Seq(Nat \ {0})]
      /\ \A s \in SessionIds : overlapped'[s] = 0 => overlapped[s] = 0
  <2>1. CASE Wakes \/ ApcsDone \/ Copies \/ TestEmpty \/ Finds
    <3>1. overlapped' = overlapped /\ pending' = pending
      BY <2>1 DEF Wakes, ApcsDone, Copies, TestEmpty, Finds, buffers, calls
    <3> QED BY <1>3, <3>1
  <2>2. CASE SendsNow
    <3>1. /\ recving = "send" /\ pending' = pending
          /\ overlapped' = [overlapped EXCEPT ![job] = cbTransferred]
      BY <2>2 DEF SendsNow, RecvGoto, calls
    <3> QED BY <1>3, <3>1
  <2>3. CASE SendsLater
    <3>1. /\ recving = "send" /\ overlapped' = overlapped
          /\ pending' = [pending EXCEPT ![job] = Append(@, cbTransferred)]
      BY <2>3 DEF SendsLater, RecvGoto, buffers
    <3>2. Append(pending[job], cbTransferred) \in Seq(Nat \ {0})
      BY <1>3, <3>1, AppendProperties
    <3> QED BY <1>3, <3>1, <3>2
  <2> QED BY <2>1, <2>2, <2>3
<1>5. TypeOK' /\ Received'
  BY <1>1, <1>4 DEF TurnsInv, TypeOK, Received, Known, acceptProc
<1> QED BY <1>1, <1>2, <1>4, <1>5, QuietKeeps DEF acceptProc

-----------------------------------------------------------------------------
(* The steps that move a turn *)

LEMMA PlacesNone ==
  ASSUME NEW S, NEW q \in Seq(S), NEW s, s \notin S
  PROVE  Places(q, s) = 0
<1>1. \A i \in DOMAIN q : q[i] \in S
  BY ElementOfSeq, LenProperties
<1>2. {i \in DOMAIN q : q[i] = s} = {}
  BY <1>1
<1> QED BY <1>2, FS_EmptySet DEF Places

LEMMA SeqGrows ==
  ASSUME NEW S, NEW T, S \subseteq T
  PROVE  Seq(S) \subseteq Seq(T)
<1> SUFFICES ASSUME NEW q \in Seq(S) PROVE q \in Seq(T)
  OBVIOUS
<1>1. Len(q) \in Nat /\ q \in [1 .. Len(q) -> S]
  BY LenProperties
<1>2. q \in [1 .. Len(q) -> T]
  BY <1>1
<1> QED BY <1>1, <1>2, SeqDef

\* A turn is made for a new session alone.
LEMMA AcceptsKeeps ==
  ASSUME TurnsInv, Accepts
  PROVE  TurnsInv'
<1>1. /\ accept_id < MaxClients /\ accepting = "accept" /\ accepting' = "insert"
      /\ accept_id' = accept_id + 1
      /\ UNCHANGED <<shared, recvProc, buffers, sockets, calls>>
  BY DEF Accepts, AcceptGoto
<1>2. /\ accept_id \in Nat /\ accept_id' \in 0..MaxClients /\ accept_id' > 0
      /\ Known' = Known \cup {accept_id + 1} /\ accept_id + 1 \notin Known
  BY <1>1, ApcAssumption DEF TurnsInv, TypeOK, Known
<1>3. recvJob_queue' \in Seq(Known') /\ apcs' \in Seq(Known')
  BY <1>1, <1>2, SeqGrows DEF TurnsInv, TypeOK, shared, calls
<1>4. TypeOK' /\ Received'
  <2>1. posted' \subseteq Known' /\ (recving' \in Holding => job' \in Known')
    BY <1>1, <1>2 DEF TurnsInv, TypeOK, recvProc, calls
  <2> QED BY <1>1, <1>2, <1>3, <2>1
          DEF TurnsInv, TypeOK, Received, Arriving, recvProc, buffers, calls
<1>5. ASSUME NEW s \in Known
      PROVE  Turns(s)' = Turns(s)
  <2>1. accepting \notin Arriving /\ accept_id' # s
    BY <1>1, <1>2, <1>5 DEF Arriving
  <2>2. Bit(accept_id' = s /\ accepting' \in Arriving)
          = Bit(accept_id = s /\ accepting \in Arriving)
    BY <2>1 DEF Bit
  <2>3. UNCHANGED <<recvJob_queue, job, recving, posted, apcs>>
    BY <1>1 DEF shared, recvProc, calls
  <2> QED BY <2>2, <2>3 DEF Turns, Arriving
<1>6. ASSUME NEW s, s = accept_id + 1
      PROVE  Turns(s)' = 1 /\ Places(apcs, s)' = 0
  <2>1. s \notin Known
    BY <1>2, <1>6
  <2>2. Places(recvJob_queue, s) = 0 /\ Places(apcs, s) = 0
    BY <2>1, PlacesNone DEF TurnsInv, TypeOK
  <2>3. Bit(job = s /\ recving \in Holding) = 0 /\ Bit(s \in posted) = 0
    BY <2>1 DEF TurnsInv, TypeOK, Bit
  <2>4. Bit(accept_id' = s /\ accepting' \in Arriving) = 1
    BY <1>1, <1>6 DEF Bit, Arriving
  <2>5. UNCHANGED <<recvJob_queue, job, recving, posted, apcs>>
    BY <1>1 DEF shared, recvProc, calls
  <2> QED BY <2>2, <2>3, <2>4, <2>5 DEF Turns, Arriving, Holding
<1>7. fin' = fin /\ broken' = broken /\ overlapped' = overlapped /\ apcs' = apcs
  BY <1>1 DEF sockets, buffers, calls
<1>8. OneTurn'
  <2> SUFFICES ASSUME NEW s \in Known'
               PROVE  Turns(s)' <= 1 /\ (Turns(s)' = 0 => s \in fin' \cup broken')
    BY DEF OneTurn, Known
  <2>1. CASE s \in Known
    BY <1>5, <1>7, <2>1 DEF TurnsInv, OneTurn, Known
  <2>2. CASE s = accept_id + 1
    BY <1>6, <2>2
  <2> QED BY <1>2, <2>1, <2>2
<1>9. DueRight'
  <2> SUFFICES ASSUME NEW s \in Known', Places(apcs, s) # 0, overlapped[s] = 0
               PROVE  s \in fin \cup broken
    BY <1>7 DEF DueRight
  <2>1. CASE s \in Known
    BY <2>1 DEF TurnsInv, DueRight
  <2>2. CASE s = accept_id + 1
    BY <1>6, <1>7, <2>2
  <2> QED BY <1>2, <2>1, <2>2
<1> QED BY <1>4, <1>8, <1>9 DEF TurnsInv

\* From one of the five places to another.
LEMMA Sums ==
  ASSUME NEW a \in Nat, NEW b \in Nat, NEW c \in Nat, NEW d \in Nat, NEW e \in Nat
  PROVE  /\ 1 + b + c + d + e = 0 + (b + 1) + c + d + e
         /\ a + b + 1 + d + e = a + (b + 1) + 0 + d + e
         /\ a + b + c + 1 + e = a + b + c + 0 + (e + 1)
         /\ a + b + 1 + d + e = a + b + 0 + d + e + 1
         /\ a + b + 0 + d + (e + 1) = a + b + 1 + d + e
         /\ a + (b + 1) + 0 + d + e = a + b + 1 + d + e
         /\ a + b + 1 + 0 + e = a + b + 0 + 1 + e
         /\ a + b + c + d + (e + 1) = a + b + c + d + e + 1
         /\ a + b + c + d + e \in Nat
         /\ a + b + c + d + e <= 1 /\ c = 1 => a = 0 /\ b = 0 /\ d = 0 /\ e = 0
OBVIOUS

\* recvJob_queue.push in AcceptProc
LEMMA PushKeeps ==
  ASSUME TurnsInv, PushAccepted
  PROVE  TurnsInv'
<1>1. /\ accepting = "push" /\ accepting' = "signal"
      /\ recvJob_queue' = Append(recvJob_queue, accept_id)
      /\ UNCHANGED <<accept_id, session_map, recv_event, shutdown, recvProc,
                     buffers, sockets, calls>>
  BY DEF PushAccepted, AcceptGoto
<1>2. accept_id \in Known /\ recvJob_queue \in Seq(Known)
  BY <1>1 DEF TurnsInv, TypeOK, Known, Arriving
<1>3. recvJob_queue' \in Seq(Known)
  BY <1>1, <1>2, AppendProperties
<1>4. TypeOK' /\ Received'
  BY <1>1, <1>3 DEF TurnsInv, TypeOK, Received, Known, Arriving, recvProc, buffers, calls
<1>5. ASSUME NEW s \in Known
      PROVE  Turns(s)' = Turns(s)
  <2>1. Places(recvJob_queue', s) = Places(recvJob_queue, s) + Bit(accept_id = s)
    BY <1>1, <1>2, PlacesAppend
  <2>2. /\ Bit(accept_id' = s /\ accepting' \in Arriving) = 0
        /\ Bit(accept_id = s /\ accepting \in Arriving) = Bit(accept_id = s)
    BY <1>1 DEF Arriving, Bit
  <2>3. UNCHANGED <<job, recving, posted, apcs>>
    BY <1>1 DEF recvProc, calls
  <2>4. /\ Places(recvJob_queue, s) \in Nat /\ Places(apcs, s) \in Nat
        /\ Bit(job = s /\ recving \in Holding) \in Nat /\ Bit(s \in posted) \in Nat
        /\ Bit(accept_id = s) \in {0, 1}
    BY PartsType DEF TurnsInv
  <2>5. Places(recvJob_queue', s) =
          IF accept_id = s THEN Places(recvJob_queue, s) + 1
                           ELSE Places(recvJob_queue, s)
    BY <2>1, <2>4 DEF Bit
  <2> DEFINE b == Places(recvJob_queue, s)
             c == Bit(job = s /\ recving \in Holding)
             d == Bit(s \in posted)
             e == Places(apcs, s)
  <2>6. /\ Turns(s) = Bit(accept_id = s) + b + c + d + e
        /\ Turns(s)' = 0 + Places(recvJob_queue', s) + c + d + e
    BY <2>2, <2>3 DEF Turns, Arriving, Holding
  <2> HIDE DEF b, c, d, e
  <2>7. b \in Nat /\ c \in Nat /\ d \in Nat /\ e \in Nat
    BY <2>4 DEF b, c, d, e
  <2>8. CASE accept_id = s
    <3>1. Turns(s) = 1 + b + c + d + e /\ Turns(s)' = 0 + (b + 1) + c + d + e
      BY <2>5, <2>6, <2>8 DEF Bit, b
    <3> QED BY <2>7, <3>1, Sums
  <2>9. CASE accept_id # s
    BY <2>5, <2>6, <2>9 DEF Bit, b
  <2> QED BY <2>8, <2>9
<1>6. OneTurn'
  BY <1>1, <1>5, OneTurnKept DEF TurnsInv, sockets
<1>7. DueRight'
  BY <1>1 DEF TurnsInv, DueRight, Known, buffers, sockets, calls
<1> QED BY <1>4, <1>6, <1>7 DEF TurnsInv

\* The turns after a step of RecvProc or of a socket.
LEMMA TurnsNow ==
  ASSUME UNCHANGED <<accept_id, accepting>>, NEW s
  PROVE  Turns(s)' = Bit(accept_id = s /\ accepting \in Arriving)
                     + Places(recvJob_queue', s)
                     + Bit(job' = s /\ recving' \in Holding)
                     + Bit(s \in posted')
                     + Places(apcs', s)
BY DEF Turns, Arriving, Holding

\* In flight, then due
LEMMA RecvCompletesKeeps ==
  ASSUME TurnsInv, NEW r \in SessionIds, RecvCompletes(r)
  PROVE  TurnsInv'
<1>1. /\ r \in posted /\ posted' = posted \ {r} /\ apcs' = Append(apcs, r)
      /\ UNCHANGED <<acceptProc, shared, recvProc, fin, broken, pending>>
  BY DEF RecvCompletes
<1>2. r \in Known /\ apcs \in Seq(Known) /\ Known \subseteq SessionIds
      /\ overlapped \in [SessionIds -> Nat]
  BY <1>1, ApcAssumption DEF TurnsInv, TypeOK, Known, SessionIds
<1>3. apcs' \in Seq(Known)
  BY <1>1, <1>2, AppendProperties
<1>4. \E n \in Nat : /\ overlapped' = [overlapped EXCEPT ![r] = n]
                     /\ n = 0 => r \in fin \cup broken
  <2>1. CASE \E n \in 1..Len(inbox[r]) : overlapped' = [overlapped EXCEPT ![r] = n]
    <3>1. PICK n \in 1..Len(inbox[r]) : overlapped' = [overlapped EXCEPT ![r] = n]
      BY <2>1
    <3>2. n \in Nat /\ n # 0
      OBVIOUS
    <3> QED BY <3>1, <3>2
  <2>2. CASE r \in fin \cup broken /\ overlapped' = [overlapped EXCEPT ![r] = 0]
    BY <2>2
  <2> QED BY <2>1, <2>2 DEF RecvCompletes
<1>5. /\ overlapped' \in [SessionIds -> Nat]
      /\ \A s \in SessionIds : s # r => overlapped'[s] = overlapped[s]
      /\ overlapped'[r] = 0 => r \in fin \cup broken
  BY <1>2, <1>4
<1>6. TypeOK' /\ Received'
  BY <1>1, <1>3, <1>5 DEF TurnsInv, TypeOK, Received, Known, acceptProc, shared, recvProc
<1>7. \A s \in Known : Places(apcs', s) = Places(apcs, s) + Bit(r = s)
  BY <1>1, <1>2, PlacesAppend
<1>8. ASSUME NEW s \in Known
      PROVE  Turns(s)' = Turns(s)
  <2> DEFINE a == Bit(accept_id = s /\ accepting \in Arriving)
             b == Places(recvJob_queue, s)
             c == Bit(job = s /\ recving \in Holding)
             e == Places(apcs, s)
  <2>1. /\ Turns(s) = a + b + c + Bit(s \in posted) + e
        /\ Turns(s)' = a + b + c + Bit(s \in posted') + Places(apcs', s)
    BY <1>1, TurnsAre, TurnsNow DEF acceptProc, shared, recvProc
  <2>2. a \in Nat /\ b \in Nat /\ c \in Nat /\ e \in Nat
    BY PartsType DEF TurnsInv
  <2> HIDE DEF a, b, c, e
  <2>3. CASE r = s
    <3>1. /\ Bit(s \in posted) = 1 /\ Bit(s \in posted') = 0
          /\ Places(apcs', s) = e + 1
      BY <1>1, <1>7, <2>3 DEF Bit, e
    <3> QED BY <2>1, <2>2, <3>1, Sums
  <2>4. CASE r # s
    <3>1. Bit(s \in posted') = Bit(s \in posted) /\ Places(apcs', s) = e
      <4>1. e + 0 = e
        BY <2>2
      <4> QED BY <1>1, <1>7, <2>4, <4>1 DEF Bit, e
    <3> QED BY <2>1, <3>1
  <2> QED BY <2>3, <2>4
<1>9. OneTurn'
  BY <1>1, <1>8, OneTurnKept DEF TurnsInv, acceptProc
<1>10. DueRight'
  <2> SUFFICES ASSUME NEW s \in Known, Places(apcs', s) # 0, overlapped'[s] = 0
               PROVE  s \in fin' \cup broken'
    BY <1>1 DEF DueRight, Known, acceptProc
  <2>1. CASE r = s
    BY <1>1, <1>5, <2>1
  <2>2. CASE r # s
    <3>1. Places(apcs, s) # 0
      <4>1. Places(apcs, s) \in Nat
        BY PartsType DEF TurnsInv
      <4>2. Bit(r = s) = 0
        BY <2>2 DEF Bit
      <4> QED BY <1>7, <4>1, <4>2
    <3> QED BY <1>1, <1>2, <1>5, <2>2, <3>1 DEF TurnsInv, DueRight
  <2> QED BY <2>1, <2>2
<1> QED BY <1>6, <1>9, <1>10 DEF TurnsInv

\* Due, then with Recv_APC; or dropped, when the client closed or broke off
LEMMA ApcBeginsKeeps ==
  ASSUME TurnsInv, ApcBegins
  PROVE  TurnsInv'
<1> DEFINE h == Head(apcs)
<1>1. /\ recving \in {"wait", "apcs"} /\ apcs # <<>> /\ apcs' = Tail(apcs)
      /\ cbTransferred' = overlapped[h]
      /\ UNCHANGED <<acceptProc, shared, buffers, sockets, posted, pending>>
  BY DEF ApcBegins
<1>2. /\ apcs \in Seq(Known) /\ h \in Known /\ apcs' \in Seq(Known)
      /\ h \in SessionIds /\ overlapped[h] \in Nat
  <2>1. apcs \in Seq(Known)
    BY DEF TurnsInv, TypeOK
  <2>2. h \in Known /\ apcs' \in Seq(Known)
    BY <1>1, <2>1, HeadTailProperties
  <2>3. Known \subseteq SessionIds /\ overlapped \in [SessionIds -> Nat]
    BY ApcAssumption DEF TurnsInv, TypeOK, Known, SessionIds
  <2> QED BY <2>1, <2>2, <2>3
<1>3. \/ cbTransferred' = 0 /\ recving' = "apcs"
      \/ cbTransferred' # 0 /\ recving' = "copy" /\ job' = h
  BY DEF ApcBegins
<1> HIDE DEF h
<1>4. TypeOK'
  <2>1. recving' \in Holding => job' \in Known
    BY <1>2, <1>3 DEF Holding
  <2> QED BY <1>1, <1>2, <1>3, <2>1
          DEF TurnsInv, TypeOK, Known, Holding, acceptProc, shared, buffers
<1>5. Received'
  BY <1>1, <1>2, <1>3 DEF Received
<1>6. \A s \in Known : Places(apcs, s) = Places(apcs', s) + Bit(h = s)
  BY <1>1, <1>2, PlacesTail DEF h
<1>7. \A s : Places(apcs', s) \in Nat
  BY <1>2, PlacesType
<1>8. ASSUME NEW s \in Known
      PROVE  \/ Turns(s)' = Turns(s)
             \/ Turns(s)' = 0 /\ s \in fin' \cup broken'
  <2> DEFINE a == Bit(accept_id = s /\ accepting \in Arriving)
             b == Places(recvJob_queue, s)
             d == Bit(s \in posted)
             e == Places(apcs', s)
  <2>1. /\ Turns(s) = a + b + 0 + d + Places(apcs, s)
        /\ Turns(s)' = a + b + Bit(job' = s /\ recving' \in Holding) + d + e
    <3>1. Bit(job = s /\ recving \in Holding) = 0
      BY <1>1 DEF Bit, Holding
    <3> QED BY <1>1, <3>1, TurnsAre, TurnsNow DEF acceptProc, shared
  <2>2. a \in Nat /\ b \in Nat /\ d \in Nat /\ e \in Nat
    BY <1>7, PartsType DEF TurnsInv
  <2> HIDE DEF a, b, d, e
  <2>3. CASE h # s
    <3>1. Bit(job' = s /\ recving' \in Holding) = 0
      BY <1>3, <2>3 DEF Bit, Holding
    <3>2. Places(apcs, s) = e
      <4>1. e + 0 = e
        BY <2>2
      <4> QED BY <1>6, <2>3, <4>1 DEF Bit, e
    <3> QED BY <2>1, <3>1, <3>2
  <2>4. CASE h = s
    <3>1. Places(apcs, s) = e + 1
      BY <1>6, <2>4 DEF Bit, e
    <3>2. CASE cbTransferred' # 0
      <4>1. Bit(job' = s /\ recving' \in Holding) = 1
        BY <1>3, <2>4, <3>2 DEF Bit, Holding
      <4> QED BY <2>1, <2>2, <3>1, <4>1, Sums
    <3>3. CASE cbTransferred' = 0
      <4>1. Bit(job' = s /\ recving' \in Holding) = 0
        BY <1>3, <3>3 DEF Bit, Holding
      <4>2. Turns(s)' = a + b + 0 + d + e
        BY <2>1, <4>1
      <4>3. a + b + 0 + d + (e + 1) <= 1
        BY <2>1, <3>1 DEF TurnsInv, OneTurn, Known
      <4>4. a + b + 0 + d + e = 0
        BY <2>2, <4>3
      <4>5. s \in fin \cup broken
        <5>1. Places(apcs, s) # 0
          BY <2>2, <3>1
        <5>2. overlapped[s] = 0
          BY <1>1, <2>4, <3>3
        <5> QED BY <5>1, <5>2 DEF TurnsInv, DueRight
      <4> QED BY <1>1, <4>2, <4>4, <4>5 DEF sockets
    <3> QED BY <3>2, <3>3
  <2> QED BY <2>3, <2>4
<1>9. OneTurn'
  BY <1>1, <1>8, OneTurnKept DEF TurnsInv, acceptProc, sockets
<1>10. DueRight'
  <2> SUFFICES ASSUME NEW s \in Known, Places(apcs', s) # 0, overlapped[s] = 0
               PROVE  s \in fin \cup broken
    BY <1>1 DEF DueRight, Known, acceptProc, buffers, sockets
  <2>1. Places(apcs, s) # 0
    <3>1. Bit(h = s) \in Nat
      BY DEF Bit
    <3> QED BY <1>6, <1>7, <3>1
  <2> QED BY <2>1 DEF TurnsInv, DueRight
<1> QED BY <1>4, <1>5, <1>9, <1>10 DEF TurnsInv

\* What the steps that begin or end with a session in RecvProc's hands have in
\* common: the others keep their turns, and the routines due are the same.
LEMMA HandKeeps ==
  ASSUME TurnsInv, TypeOK', Received', NEW r \in Known,
         UNCHANGED <<accept_id, accepting, apcs, fin, broken>>,
         \A s \in Known \ {r} : /\ Places(recvJob_queue', s) = Places(recvJob_queue, s)
                                /\ s \in posted' <=> s \in posted
                                /\ Bit(job' = s /\ recving' \in Holding)
                                     = Bit(job = s /\ recving \in Holding)
                                /\ overlapped'[s] = overlapped[s],
         \/ Turns(r)' = Turns(r)
         \/ Turns(r)' = 0 /\ r \in broken,
         overlapped'[r] = overlapped[r] \/ Places(apcs, r) = 0
  PROVE  TurnsInv'
<1>1. ASSUME NEW s \in Known
      PROVE  \/ Turns(s)' = Turns(s)
             \/ Turns(s)' = 0 /\ s \in fin' \cup broken'
  <2>1. CASE s = r
    BY <2>1
  <2>2. CASE s # r
    <3>1. Bit(s \in posted') = Bit(s \in posted)
      BY <2>2 DEF Bit
    <3> QED BY <2>2, <3>1, TurnsAre, TurnsNow
  <2> QED BY <2>1, <2>2
<1>2. OneTurn'
  BY <1>1, OneTurnKept DEF TurnsInv
<1>3. DueRight'
  <2> SUFFICES ASSUME NEW s \in Known, Places(apcs, s) # 0, overlapped'[s] = 0
               PROVE  s \in fin \cup broken
    BY DEF DueRight, Known
  <2>1. overlapped[s] = 0
    OBVIOUS
  <2> QED BY <2>1 DEF TurnsInv, DueRight
<1> QED BY <1>2, <1>3 DEF TurnsInv

\* For the session in hand everything else is 0.
LEMMA InHand ==
  ASSUME TurnsInv, recving \in Holding
  PROVE  \E r \in Known :
           /\ r = job
           /\ Bit(accept_id = r /\ accepting \in Arriving) = 0
           /\ Places(recvJob_queue, r) = 0
           /\ Bit(job = r /\ recving \in Holding) = 1
           /\ Bit(r \in posted) = 0
           /\ Places(apcs, r) = 0
           /\ Turns(r) = 1
<1> DEFINE a == Bit(accept_id = job /\ accepting \in Arriving)
           b == Places(recvJob_queue, job)
           d == Bit(job \in posted)
           e == Places(apcs, job)
<1>1. job \in Known
  BY DEF TurnsInv, TypeOK
<1>2. Bit(job = job /\ recving \in Holding) = 1
  BY DEF Bit
<1>3. a \in Nat /\ b \in Nat /\ d \in Nat /\ e \in Nat
  BY PartsType DEF TurnsInv
<1>4. Turns(job) = a + b + 1 + d + e
  BY <1>2, TurnsAre
<1>5. Turns(job) <= 1
  BY <1>1 DEF TurnsInv, OneTurn, Known
<1> HIDE DEF a, b, d, e
<1>6. a = 0 /\ b = 0 /\ d = 0 /\ e = 0 /\ Turns(job) = 1
  BY <1>3, <1>4, <1>5
<1> QED BY <1>1, <1>2, <1>6 DEF a, b, d, e

\* WSASend fails: the session is dropped, its connection is gone.
LEMMA SendFailsKeeps ==
  ASSUME TurnsInv, SendFails
  PROVE  TurnsInv'
<1>1. /\ recving = "send" /\ recving' = "apcs" /\ job \in broken
      /\ job' = 0 /\ cbTransferred' = 0
      /\ UNCHANGED <<acceptProc, shared, buffers, sockets, calls>>
  BY DEF SendFails, RecvGoto
<1>2. TypeOK' /\ Received'
  BY <1>1 DEF TurnsInv, TypeOK, Received, Known, Holding, acceptProc, shared, buffers,
              calls
<1>3. recving \in Holding /\ recving' \notin Holding
  BY <1>1 DEF Holding
<1>4. PICK r \in Known :
        /\ r = job
        /\ Bit(accept_id = r /\ accepting \in Arriving) = 0
        /\ Places(recvJob_queue, r) = 0 /\ Bit(r \in posted) = 0
        /\ Places(apcs, r) = 0
  BY <1>3, InHand
<1>5. UNCHANGED <<accept_id, accepting, recvJob_queue, posted, apcs, fin, broken,
                  overlapped>>
  BY <1>1 DEF acceptProc, shared, buffers, sockets, calls
<1>6. Turns(r)' = 0
  <2>1. Bit(job' = r /\ recving' \in Holding) = 0
    BY <1>3 DEF Bit
  <2> QED BY <1>4, <1>5, <2>1, TurnsNow
<1>7. \A s \in Known \ {r} : Bit(job' = s /\ recving' \in Holding)
                               = Bit(job = s /\ recving \in Holding)
  BY <1>3, <1>4 DEF Bit
<1> QED BY <1>1, <1>2, <1>4, <1>5, <1>6, <1>7, HandKeeps

\* recvJob_queue.push in Recv_APC
LEMMA ApcPushKeeps ==
  ASSUME TurnsInv, ApcPush
  PROVE  TurnsInv'
<1>1. /\ recving = "apcPush" /\ recving' = "apcs"
      /\ recvJob_queue' = Append(recvJob_queue, job)
      /\ job' = 0 /\ cbTransferred' = 0
      /\ UNCHANGED <<acceptProc, session_map, recv_event, shutdown, buffers,
                     sockets, calls>>
  BY DEF ApcPush, RecvGoto
<1>2. recving \in Holding /\ recving' \notin Holding
  BY <1>1 DEF Holding
<1>3. PICK r \in Known :
        /\ r = job
        /\ Bit(accept_id = r /\ accepting \in Arriving) = 0
        /\ Places(recvJob_queue, r) = 0 /\ Bit(r \in posted) = 0
        /\ Places(apcs, r) = 0 /\ Turns(r) = 1
  BY <1>2, InHand
<1>4. recvJob_queue \in Seq(Known) /\ recvJob_queue' = Append(recvJob_queue, r)
  BY <1>1, <1>3 DEF TurnsInv, TypeOK
<1>5. recvJob_queue' \in Seq(Known)
  BY <1>4, AppendProperties
<1>6. TypeOK' /\ Received'
  BY <1>1, <1>5 DEF TurnsInv, TypeOK, Received, Known, Holding, acceptProc, buffers,
                    calls
<1>7. UNCHANGED <<accept_id, accepting, posted, apcs, fin, broken, overlapped>>
  BY <1>1 DEF acceptProc, buffers, sockets, calls
<1>8. \A s \in Known : Places(recvJob_queue', s) = Places(recvJob_queue, s) + Bit(r = s)
  BY <1>4, PlacesAppend
<1>9. \A s \in Known \ {r} : Places(recvJob_queue', s) = Places(recvJob_queue, s)
  <2> SUFFICES ASSUME NEW s \in Known \ {r}
               PROVE  Places(recvJob_queue', s) = Places(recvJob_queue, s)
    OBVIOUS
  <2>1. Places(recvJob_queue, s) \in Nat
    BY PartsType DEF TurnsInv
  <2>2. Places(recvJob_queue, s) + 0 = Places(recvJob_queue, s)
    BY <2>1
  <2>3. Bit(r = s) = 0
    BY DEF Bit
  <2> QED BY <1>8, <2>2, <2>3
<1>10. Turns(r)' = Turns(r)
  <2>1. Bit(job' = r /\ recving' \in Holding) = 0
    BY <1>2 DEF Bit
  <2>2. Places(recvJob_queue', r) = 1
    BY <1>3, <1>8 DEF Bit
  <2> QED BY <1>3, <1>7, <2>1, <2>2, TurnsNow
<1>11. \A s \in Known \ {r} : Bit(job' = s /\ recving' \in Holding)
                                = Bit(job = s /\ recving \in Holding)
  BY <1>2, <1>3 DEF Bit
<1> QED BY <1>6, <1>7, <1>9, <1>10, <1>11, HandKeeps

\* front and pop
LEMMA TakesKeeps ==
  ASSUME TurnsInv, recvJob_queue # <<>>, Takes
  PROVE  TurnsInv'
<1> DEFINE r == Head(recvJob_queue)
<1>1. /\ recving = "take" /\ recving' = "find"
      /\ job' = r /\ recvJob_queue' = Tail(recvJob_queue)
      /\ UNCHANGED <<acceptProc, session_map, recv_event, shutdown,
                     cbTransferred, buffers, sockets, calls>>
  BY DEF Takes, RecvGoto
<1>2. recving \notin Holding /\ recving' \in Holding
  BY <1>1 DEF Holding
<1>3. recvJob_queue \in Seq(Known)
  BY DEF TurnsInv, TypeOK
<1>4. r \in Known /\ recvJob_queue' \in Seq(Known)
  BY <1>1, <1>3, HeadTailProperties
<1>5. \A s \in Known : Places(recvJob_queue, s) = Places(recvJob_queue', s) + Bit(r = s)
  BY <1>1, <1>3, PlacesTail
<1>6. PICK h \in Known : h = r
  BY <1>4
<1> HIDE DEF r
<1>7. TypeOK' /\ Received'
  BY <1>1, <1>4 DEF TurnsInv, TypeOK, Received, Known, Holding, acceptProc, buffers,
                    calls
<1>8. UNCHANGED <<accept_id, accepting, posted, apcs, fin, broken, overlapped>>
  BY <1>1 DEF acceptProc, buffers, sockets, calls
<1>9. \A s : Places(recvJob_queue', s) \in Nat
  BY <1>4, PlacesType
<1>10. \A s \in Known \ {h} : Places(recvJob_queue', s) = Places(recvJob_queue, s)
  <2> SUFFICES ASSUME NEW s \in Known \ {h}
               PROVE  Places(recvJob_queue', s) = Places(recvJob_queue, s)
    OBVIOUS
  <2>1. Places(recvJob_queue', s) + 0 = Places(recvJob_queue', s)
    BY <1>9
  <2>2. Bit(r = s) = 0
    BY <1>6 DEF Bit
  <2> QED BY <1>5, <2>1, <2>2
<1>11. Turns(h)' = Turns(h)
  <2> DEFINE a == Bit(accept_id = h /\ accepting \in Arriving)
             b == Places(recvJob_queue', h)
             d == Bit(h \in posted)
             e == Places(apcs, h)
  <2>1. a \in Nat /\ b \in Nat /\ d \in Nat /\ e \in Nat
    BY <1>9, PartsType DEF TurnsInv
  <2>2. Places(recvJob_queue, h) = b + 1
    BY <1>5, <1>6 DEF Bit
  <2>3. /\ Bit(job = h /\ recving \in Holding) = 0
        /\ Bit(job' = h /\ recving' \in Holding) = 1
    BY <1>1, <1>2, <1>6 DEF Bit
  <2>4. Turns(h) = a + (b + 1) + 0 + d + e /\ Turns(h)' = a + b + 1 + d + e
    BY <1>8, <2>2, <2>3, TurnsAre, TurnsNow
  <2> HIDE DEF a, b, d, e
  <2> QED BY <2>1, <2>4, Sums
<1>12. \A s \in Known \ {h} : Bit(job' = s /\ recving' \in Holding)
                                = Bit(job = s /\ recving \in Holding)
  BY <1>1, <1>2, <1>6 DEF Bit
<1> QED BY <1>7, <1>8, <1>10, <1>11, <1>12, HandKeeps

\* WSARecv is in flight, or has failed because the connection is gone.
LEMMA PostsKeeps ==
  ASSUME TurnsInv, Posts
  PROVE  TurnsInv'
<1>1. /\ recving = "post" /\ recving' = "empty" /\ job' = 0
      /\ overlapped' = [overlapped EXCEPT ![job] = 0]
      /\ posted' = IF job \in broken THEN posted ELSE posted \cup {job}
      /\ UNCHANGED <<acceptProc, shared, cbTransferred, sockets, apcs, pending>>
  BY DEF Posts, RecvGoto
<1>2. recving \in Holding /\ recving' \notin Holding
  BY <1>1 DEF Holding
<1>3. PICK r \in Known :
        /\ r = job
        /\ Bit(accept_id = r /\ accepting \in Arriving) = 0
        /\ Places(recvJob_queue, r) = 0 /\ Bit(r \in posted) = 0
        /\ Places(apcs, r) = 0 /\ Turns(r) = 1
  BY <1>2, InHand
<1>4. Known \subseteq SessionIds /\ overlapped \in [SessionIds -> Nat]
  BY ApcAssumption DEF TurnsInv, TypeOK, Known, SessionIds
<1>5. /\ overlapped' \in [SessionIds -> Nat]
      /\ \A s \in Known \ {r} : overlapped'[s] = overlapped[s]
  BY <1>1, <1>3, <1>4
<1>6. posted' \subseteq Known
  BY <1>1, <1>3 DEF TurnsInv, TypeOK
<1>7. TypeOK' /\ Received'
  BY <1>1, <1>5, <1>6 DEF TurnsInv, TypeOK, Received, Known, Holding, acceptProc, shared
<1>8. UNCHANGED <<accept_id, accepting, recvJob_queue, apcs, fin, broken>>
  BY <1>1 DEF acceptProc, shared, sockets
<1>9. Bit(job' = r /\ recving' \in Holding) = 0
  BY <1>2 DEF Bit
<1>10. \/ Turns(r)' = Turns(r)
       \/ Turns(r)' = 0 /\ r \in broken
  <2>1. Turns(r)' = 0 + 0 + 0 + Bit(r \in posted') + 0
    BY <1>3, <1>8, <1>9, TurnsNow
  <2>2. CASE r \in broken
    BY <1>1, <1>3, <2>1, <2>2
  <2>3. CASE r \notin broken
    <3>1. Bit(r \in posted') = 1
      BY <1>1, <1>3, <2>3 DEF Bit
    <3> QED BY <1>3, <2>1, <3>1
  <2> QED BY <2>2, <2>3
<1>11. \A s \in Known \ {r} : /\ s \in posted' <=> s \in posted
                              /\ Bit(job' = s /\ recving' \in Holding)
                                   = Bit(job = s /\ recving \in Holding)
  BY <1>1, <1>2, <1>3 DEF Bit
<1> QED BY <1>3, <1>5, <1>7, <1>8, <1>10, <1>11, HandKeeps

-----------------------------------------------------------------------------
(* The invariant *)

LEMMA NotEmptyStep ==
  ASSUME IInv, [ApcNext]_apcVars
  PROVE  NeverPopsEmpty'
<1> USE DEF NeverPopsEmpty
<1>1. recvJob_queue \in Seq(Known) /\ accept_id \in Int
  BY DEF IInv, TurnsInv, TypeOK
<1>2. \A x : Append(recvJob_queue, x) # <<>>
  <2> SUFFICES ASSUME NEW x PROVE Append(recvJob_queue, x) # <<>>
    OBVIOUS
  <2>1. recvJob_queue \in Seq(Known \cup {x})
    BY <1>1, SeqGrows
  <2>2. Len(Append(recvJob_queue, x)) = Len(recvJob_queue) + 1 /\ Len(recvJob_queue) \in Nat
    BY <2>1, AppendProperties, LenProperties
  <2>3. Len(<<>>) = 0
    BY EmptySeq
  <2> QED BY <2>2, <2>3
<1>3. CASE UNCHANGED apcVars
  BY <1>3 DEF IInv, apcVars, recvProc, shared
<1>4. CASE AcceptProc \/ Accepts \/ AcceptFails \/ TypedQ
  <2>1. recving' = recving
    BY <1>4 DEF AcceptProc, Accepts, AcceptFails, TypedQ, InsertBegins,
                InsertEnds, PushAccepted, Signals, recvProc
  <2>2. \/ recvJob_queue' = recvJob_queue
        \/ recvJob_queue' = Append(recvJob_queue, accept_id)
    BY <1>4 DEF AcceptProc, Accepts, AcceptFails, TypedQ, InsertBegins,
                InsertEnds, PushAccepted, Signals, shared
  <2> QED BY <1>2, <2>1, <2>2 DEF IInv
<1>5. CASE RecvProc
  <2>1. CASE TestEmpty
    BY <2>1 DEF TestEmpty, RecvGoto, shared
  <2>2. CASE ~TestEmpty
    <3>1. recving' # "take"
      BY <1>5, <2>2 DEF RecvProc, Wakes, ApcBegins, ApcsDone, Copies, SendsNow,
                        SendsLater, SendFails, ApcPush, Takes, Finds, Posts,
                        RecvGoto
    <3> QED BY <3>1
  <2> QED BY <2>1, <2>2
<1>6. CASE ClientSends \/ ClientCloses \/ ConnectionBreaks \/ Completes
  <2>1. recving' = recving /\ recvJob_queue' = recvJob_queue
    BY <1>6 DEF ClientSends, ClientCloses, ConnectionBreaks, Completes,
                RecvCompletes, SendCompletes, recvProc, shared
  <2> QED BY <2>1 DEF IInv
<1> QED BY <1>3, <1>4, <1>5, <1>6 DEF ApcNext

LEMMA StepKeeps == IInv /\ [ApcNext]_apcVars => IInv'
<1> SUFFICES ASSUME IInv, [ApcNext]_apcVars PROVE IInv'
  OBVIOUS
<1>1. NeverPopsEmpty'
  BY NotEmptyStep
<1>2. TurnsInv
  BY DEF IInv
<1>3. CASE UNCHANGED apcVars
  <2>1. UNCHANGED <<acceptProc, shared, recvProc, buffers, sockets, calls>>
    BY <1>3 DEF apcVars
  <2>2. TypeOK' /\ Received'
    BY <1>2, <2>1 DEF TurnsInv, TypeOK, Received, Known, acceptProc, shared,
                      recvProc, buffers, sockets, calls
  <2>3. TurnsInv'
    BY <1>2, <2>1, <2>2, QuietKeeps
       DEF acceptProc, shared, recvProc, buffers, sockets, calls
  <2> QED BY <1>1, <2>3 DEF IInv
<1>4. CASE ApcNext
  <2> SUFFICES TurnsInv'
    BY <1>1 DEF IInv
  <2>1. CASE Accepts
    BY <1>2, <2>1, AcceptsKeeps
  <2>2. CASE AcceptFails \/ TypedQ
    BY <1>2, <2>2, AcceptQuietKeeps
  <2>3. CASE AcceptProc
    BY <1>2, <2>3, AcceptQuietKeeps, PushKeeps DEF AcceptProc
  <2>4. CASE RecvProc
    <3>1. CASE Wakes \/ ApcsDone \/ Copies \/ SendsNow \/ SendsLater
               \/ TestEmpty \/ Finds
      BY <1>2, <3>1, RecvQuietKeeps
    <3>2. CASE ApcBegins
      BY <1>2, <3>2, ApcBeginsKeeps
    <3>3. CASE SendFails
      BY <1>2, <3>3, SendFailsKeeps
    <3>4. CASE ApcPush
      BY <1>2, <3>4, ApcPushKeeps
    <3>5. CASE Takes
      <4>1. recvJob_queue # <<>>
        BY <3>5 DEF IInv, NeverPopsEmpty, Takes, RecvGoto
      <4> QED BY <1>2, <3>5, <4>1, TakesKeeps
    <3>6. CASE Posts
      BY <1>2, <3>6, PostsKeeps
    <3> QED BY <2>4, <3>1, <3>2, <3>3, <3>4, <3>5, <3>6 DEF RecvProc
  <2>5. CASE ClientSends \/ ClientCloses \/ ConnectionBreaks
    BY <1>2, <2>5, SocketKeeps
  <2>6. CASE Completes
    BY <1>2, <2>6, RecvCompletesKeeps, SendCompletesKeeps DEF Completes
  <2> QED BY <1>4, <2>1, <2>2, <2>3, <2>4, <2>5, <2>6 DEF ApcNext
<1> QED BY <1>3, <1>4

LEMMA InitInv == ApcInit => IInv
<1> SUFFICES ASSUME ApcInit PROVE IInv
  OBVIOUS
<1>1. Known = {} /\ accept_id = 0
  BY DEF ApcInit, Known
<1>2. TypeOK
  <2>1. /\ <<>> \in Seq(Known) /\ <<>> \in Seq(Nat \ {0})
    BY EmptySeq
  <2> QED BY <1>1, <2>1, ApcAssumption DEF ApcInit, TypeOK, Arriving, Holding
<1>3. Received /\ DueRight /\ OneTurn
  BY <1>1 DEF ApcInit, Received, DueRight, OneTurn, Known
<1> QED BY <1>2, <1>3 DEF ApcInit, IInv, TurnsInv, NeverPopsEmpty

\* The invariant of AcceptProc, RecvProc and Recv_APC: where the turn of each
\* session is, that a routine which is due does not mistake bytes for FIN, and
\* that ids are popped only when there are some.
THEOREM ApcInvariance == ApcSpec => []IInv
<1>1. ApcInit => IInv
  BY InitInv
<1>2. IInv /\ [ApcNext]_apcVars => IInv'
  BY StepKeeps
<1> QED BY <1>1, <1>2, PTL DEF ApcSpec

\* A session is never received from twice at once, and is dropped only when its
\* client closed or its connection broke, for any number of clients, whatever
\* they send, however many WSASends are left in flight.
THEOREM OneTurnAlways == ApcSpec => []OneTurn
<1>1. IInv => OneTurn
  BY DEF IInv, TurnsInv
<1> QED BY <1>1, ApcInvariance, PTL

\* RecvProc tests recvJob_queue.empty() without recvQ_lock, and still never
\* calls front() and pop() on an empty queue.
THEOREM NeverPopsEmptyAlways == ApcSpec => []NeverPopsEmpty
<1>1. IInv => NeverPopsEmpty
  BY DEF IInv
<1> QED BY <1>1, ApcInvariance, PTL

-----------------------------------------------------------------------------
(* ThreadDebug.  The inductive invariant: what each thread holds, that a       *)
(* packet list holds the packets counted but for the one IOThread is pushing,  *)
(* and that the two object lists differ only where AcceptThread is between     *)
(* them.                                                                       *)

SessionIDs == Ids \union {Garbage}
Player == [SessionID : SessionIDs, Content : Nat]

AcceptAt == {"wait", "accepts", "peek", "pop", "disconnects", "take", "find", "newSession",
             "newPlayer", "deleteSession", "deletePlayer", "ended"}
IoAt == {"wait", "push", "link", "signal", "ended"}
UpdateAt == {"wait", "actions", "take", "act", "ended"}
MainAt == {"getwch", "join", "ended"}

\* The statements between which AcceptThread is at work on dwSessionID.
AtWork == {"pop", "find", "newSession", "newPlayer", "deleteSession", "deletePlayer"}

DebugTypeOK ==
  /\ size \in [Packets -> Nat] /\ list \in [Packets -> Seq(Ids)]
  /\ cs \in [Locks -> Threads \union {Nobody}]
  /\ pc \in [Threads -> AcceptAt \union IoAt \union UpdateAt \union MainAt]
  /\ pc["Accept"] \in AcceptAt /\ pc["IO"] \in IoAt
  /\ pc["Update"] \in UpdateAt /\ pc["main"] \in MainAt
  /\ dwSessionID \in [Threads -> SessionIDs \union {Nobody}]
  /\ pc["IO"] \in {"push", "link", "signal"} => dwSessionID["IO"] \in Ids
  /\ pc["Accept"] \in AtWork => dwSessionID["Accept"] \in SessionIDs
  /\ kind \in [Threads -> Packets]

\* The packets that wait are those counted, and who is inside a push_back or
\* at work on an action is in the critical section.
PacketsOK ==
  /\ pc["IO"] = "link" => cs[kind["IO"]] = "IO"
  /\ pc["Update"] = "act" => cs["Action"] = "Update"
  /\ \A q \in Packets :
       size[q] = Len(list[q]) + (IF pc["IO"] = "link" /\ kind["IO"] = q THEN 1 ELSE 0)
  /\ pc["Accept"] \in {"peek", "pop"} => size["Accept"] > 0
  /\ pc["Accept"] = "take" => size["Disconnect"] > 0
  /\ pc["Update"] = "take" => size["Action"] > 0

PlayerIDs == {g_PlayerList[i].SessionID : i \in DOMAIN g_PlayerList}

ObjectsOK ==
  LET it == dwSessionID["Accept"]
      sessions == ToSet(g_SessionList)
  IN  /\ g_SessionList \in Seq(SessionIDs) /\ g_PlayerList \in Seq(Player)
      /\ IsInjective(g_SessionList)
      /\ \A i, j \in DOMAIN g_PlayerList :
           g_PlayerList[i].SessionID = g_PlayerList[j].SessionID => i = j
      /\ pc["Accept"] = "newSession" => it \notin sessions
      /\ pc["Accept"] = "deleteSession" => it \in sessions
      /\ pc["Accept"] = "newPlayer" =>
           it \notin PlayerIDs /\ sessions = PlayerIDs \union {it}
      /\ pc["Accept"] = "deletePlayer" =>
           it \notin sessions /\ PlayerIDs = sessions \union {it}
      /\ pc["Accept"] \notin {"newPlayer", "deletePlayer"} => sessions = PlayerIDs

DebugInv == DebugTypeOK /\ PacketsOK /\ ObjectsOK

\* pop_front and begin() of LockDisconnect, LockAccept and LockAction meet a
\* packet: the lists that were not empty outside the critical section still
\* are not.
PopsFindPackets ==
  /\ pc["Accept"] = "pop" /\ cs["Accept"] = Nobody => list["Accept"] # <<>>
  /\ pc["Accept"] = "take" /\ cs["Disconnect"] = Nobody => list["Disconnect"] # <<>>
  /\ pc["Update"] = "take" /\ cs["Action"] = Nobody => list["Action"] # <<>>

-----------------------------------------------------------------------------
(* What the lists do *)

LEMMA PushBack ==
  ASSUME NEW V, NEW s \in Seq(V), NEW e \in V
  PROVE  /\ Append(s, e) \in Seq(V) /\ Len(Append(s, e)) = Len(s) + 1 /\ Len(s) \in Nat
         /\ ToSet(Append(s, e)) = ToSet(s) \union {e}
         /\ DOMAIN s = 1 .. Len(s) /\ DOMAIN Append(s, e) = 1 .. Len(s) + 1
         /\ \A i \in 1 .. Len(s) : Append(s, e)[i] = s[i]
         /\ Append(s, e)[Len(s) + 1] = e
<1> DEFINE r == Append(s, e)
<1>1. /\ r \in Seq(V) /\ Len(r) = Len(s) + 1
      /\ \A i \in 1 .. Len(s) : r[i] = s[i]
      /\ r[Len(s) + 1] = e
  BY AppendProperties
<1> HIDE DEF r
<1>2. Len(s) \in Nat /\ DOMAIN s = 1 .. Len(s) /\ DOMAIN r = 1 .. Len(s) + 1
  BY <1>1, LenProperties
<1>3. 1 .. Len(s) + 1 = (1 .. Len(s)) \union {Len(s) + 1}
  BY <1>2
<1>4. \A x : x \in ToSet(r) <=> x \in ToSet(s) \union {e}
  BY <1>1, <1>2, <1>3 DEF ToSet
<1>5. ToSet(r) = ToSet(s) \union {e}
  BY <1>4
<1> QED BY <1>1, <1>2, <1>5 DEF r

LEMMA PopsFront ==
  ASSUME NEW V, NEW s \in Seq(V), Len(s) > 0
  PROVE  Head(s) \in V /\ Tail(s) \in Seq(V) /\ Len(Tail(s)) = Len(s) - 1 /\ Len(s) \in Nat
<1>1. s # <<>> /\ Len(s) \in Nat
  BY LenProperties, EmptySeq
<1> QED BY <1>1, HeadTailProperties

\* What is left when the i-th element is taken out.
LEMMA TakesOut ==
  ASSUME NEW V, NEW s \in Seq(V), NEW i \in 1 .. Len(s)
  PROVE  /\ RemoveAt(s, i) \in Seq(V) /\ Len(s) \in Nat
         /\ DOMAIN s = 1 .. Len(s) /\ DOMAIN RemoveAt(s, i) = 1 .. Len(s) - 1
         /\ \A j \in 1 .. Len(s) - 1 : RemoveAt(s, i)[j] = s[IF j < i THEN j ELSE j + 1]
<1>1. PICK n : n = Len(s)
  OBVIOUS
<1>2. n \in Nat /\ i \in 1 .. n /\ DOMAIN s = 1 .. n /\ \A j \in 1 .. n : s[j] \in V
  BY <1>1, LenProperties
<1> DEFINE a == SubSeq(s, 1, i - 1)
           b == SubSeq(s, i + 1, n)
<1>3. a \in Seq(V) /\ Len(a) = i - 1 /\ \A j \in 1 .. i - 1 : a[j] = s[j]
  <2>1. \A j \in 1 .. i - 1 : s[j] \in V
    BY <1>2
  <2>2. /\ a \in Seq(V) /\ Len(a) = (IF 1 <= i - 1 THEN (i - 1) - 1 + 1 ELSE 0)
        /\ \A j \in 1 .. (i - 1) - 1 + 1 : a[j] = s[1 + j - 1]
    BY <1>2, <2>1, SubSeqProperties
  <2> HIDE DEF a
  <2>3. Len(a) = i - 1 /\ (i - 1) - 1 + 1 = i - 1
    BY <1>2, <2>2
  <2>4. \A j \in 1 .. i - 1 : 1 + j - 1 = j
    BY <1>2
  <2> QED BY <2>2, <2>3, <2>4
<1>4. b \in Seq(V) /\ Len(b) = n - i /\ \A j \in 1 .. n - i : b[j] = s[i + j]
  <2>1. \A j \in i + 1 .. n : s[j] \in V
    BY <1>2
  <2>2. /\ b \in Seq(V) /\ Len(b) = (IF i + 1 <= n THEN n - (i + 1) + 1 ELSE 0)
        /\ \A j \in 1 .. n - (i + 1) + 1 : b[j] = s[(i + 1) + j - 1]
    BY <1>2, <2>1, SubSeqProperties
  <2> HIDE DEF b
  <2>3. Len(b) = n - i /\ n - (i + 1) + 1 = n - i
    BY <1>2, <2>2
  <2>4. \A j \in 1 .. n - i : (i + 1) + j - 1 = i + j
    BY <1>2
  <2> QED BY <2>2, <2>3, <2>4
<1> HIDE DEF a, b
<1> DEFINE r == a \o b
<1>5. /\ r \in Seq(V) /\ Len(r) = Len(a) + Len(b)
      /\ \A j \in 1 .. Len(a) + Len(b) : r[j] = IF j <= Len(a) THEN a[j] ELSE b[j - Len(a)]
  BY <1>3, <1>4, ConcatProperties
<1>6. RemoveAt(s, i) = r
  BY <1>1 DEF RemoveAt, a, b
<1> HIDE DEF r
<1>7. Len(r) = n - 1 /\ DOMAIN r = 1 .. n - 1
  <2>1. Len(r) = n - 1
    BY <1>2, <1>3, <1>4, <1>5
  <2> QED BY <1>5, <2>1, LenProperties
<1>8. \A j \in 1 .. n - 1 : r[j] = s[IF j < i THEN j ELSE j + 1]
  <2> TAKE j \in 1 .. n - 1
  <2>1. r[j] = IF j <= i - 1 THEN a[j] ELSE b[j - (i - 1)]
    BY <1>2, <1>3, <1>4, <1>5
  <2>2. CASE j < i
    <3>1. j <= i - 1 /\ j \in 1 .. i - 1
      BY <1>2, <2>2
    <3> QED BY <1>3, <2>1, <2>2, <3>1
  <2>3. CASE ~(j < i)
    <3>1. ~(j <= i - 1) /\ j - (i - 1) \in 1 .. n - i /\ i + (j - (i - 1)) = j + 1
      BY <1>2, <2>3
    <3>2. r[j] = s[i + (j - (i - 1))]
      BY <1>4, <2>1, <3>1
    <3> QED BY <2>3, <3>1, <3>2
  <2> QED BY <2>2, <2>3
<1> QED BY <1>1, <1>2, <1>5, <1>6, <1>7, <1>8

\* The elements that are left, when i is taken out of s.
LEMMA Leaves ==
  ASSUME NEW V, NEW s \in Seq(V), NEW i \in 1 .. Len(s), NEW r, r = RemoveAt(s, i)
  PROVE  /\ r \in Seq(V)
         /\ \A j \in DOMAIN r : \E k \in DOMAIN s : k # i /\ r[j] = s[k]
         /\ \A k \in DOMAIN s : k # i => \E j \in DOMAIN r : r[j] = s[k]
         /\ \A j, m \in DOMAIN r : j # m =>
              \E k, l \in DOMAIN s : k # l /\ r[j] = s[k] /\ r[m] = s[l]
<1>1. PICK n : n = Len(s)
  OBVIOUS
<1>2. /\ n \in Nat /\ i \in 1 .. n /\ r \in Seq(V) /\ DOMAIN s = 1 .. n /\ DOMAIN r = 1 .. n - 1
      /\ \A j \in 1 .. n - 1 : r[j] = s[IF j < i THEN j ELSE j + 1]
  BY <1>1, TakesOut
<1> DEFINE at(j) == IF j < i THEN j ELSE j + 1
<1>3. \A j \in 1 .. n - 1 : at(j) \in 1 .. n /\ at(j) # i /\ r[j] = s[at(j)]
  BY <1>2
<1>4. \A j, m \in 1 .. n - 1 : j # m => at(j) # at(m)
  BY <1>2
<1>5. \A k \in 1 .. n : k # i => \E j \in 1 .. n - 1 : at(j) = k
  <2> TAKE k \in 1 .. n
  <2> HAVE k # i
  <2>1. CASE k < i
    <3>1. k \in 1 .. n - 1 /\ at(k) = k
      BY <1>2, <2>1
    <3> QED BY <3>1
  <2>2. CASE ~(k < i)
    <3>1. k - 1 \in 1 .. n - 1 /\ at(k - 1) = k
      BY <1>2, <2>2
    <3> QED BY <3>1
  <2> QED BY <2>1, <2>2
<1> HIDE DEF at
<1>6. \A j \in DOMAIN r : \E k \in DOMAIN s : k # i /\ r[j] = s[k]
  BY <1>2, <1>3
<1>7. ASSUME NEW k \in DOMAIN s, k # i PROVE \E j \in DOMAIN r : r[j] = s[k]
  <2>1. PICK j \in 1 .. n - 1 : at(j) = k
    BY <1>2, <1>5, <1>7
  <2> QED BY <1>2, <1>3, <2>1
<1>8. \A j, m \in DOMAIN r : j # m =>
        \E k, l \in DOMAIN s : k # l /\ r[j] = s[k] /\ r[m] = s[l]
  BY <1>2, <1>3, <1>4
<1> QED BY <1>2, <1>6, <1>7, <1>8

\* The one index at which an element is found.
LEMMA FindsOne ==
  ASSUME NEW I, NEW i \in Nat, I = {i}
  PROVE  (IF I # {} THEN Min(I) ELSE 0) = i
<1>1. \A x \in {i} : x = i
  OBVIOUS
<1> QED BY <1>1 DEF Min

LEMMA RemovesSession ==
  ASSUME NEW V, NEW s \in Seq(V), IsInjective(s), NEW e \in ToSet(s)
  PROVE  /\ RemoveFirst(s, e) \in Seq(V) /\ IsInjective(RemoveFirst(s, e))
         /\ ToSet(RemoveFirst(s, e)) = ToSet(s) \ {e}
<1>1. Len(s) \in Nat /\ DOMAIN s = 1 .. Len(s)
  BY LenProperties
<1>2. PICK i \in 1 .. Len(s) : s[i] = e
  BY <1>1 DEF ToSet
<1>3. {j \in 1 .. Len(s) : s[j] = e} = {i}
  BY <1>1, <1>2 DEF IsInjective
<1> DEFINE r == RemoveAt(s, i)
<1>4. RemoveFirst(s, e) = r
  <2>1. SelectInSeq(s, LAMBDA v : v = e) = i
    BY <1>1, <1>3, FindsOne DEF SelectInSeq
  <2> QED BY <1>2, <2>1 DEF RemoveFirst
<1>5. /\ r \in Seq(V)
      /\ \A j \in DOMAIN r : \E k \in DOMAIN s : k # i /\ r[j] = s[k]
      /\ \A k \in DOMAIN s : k # i => \E j \in DOMAIN r : r[j] = s[k]
      /\ \A j, m \in DOMAIN r : j # m =>
           \E k, l \in DOMAIN s : k # l /\ r[j] = s[k] /\ r[m] = s[l]
  BY Leaves
<1> HIDE DEF r
<1>6. IsInjective(r)
  BY <1>5 DEF IsInjective
<1>7. \A x : x \in ToSet(r) <=> x \in ToSet(s) /\ x # e
  BY <1>1, <1>2, <1>5 DEF ToSet, IsInjective
<1>8. ToSet(r) = ToSet(s) \ {e}
  BY <1>7
<1> QED BY <1>4, <1>5, <1>6, <1>8

\* The same of players, told apart by their SessionIDs.
PlayersApart(s) == \A i, j \in DOMAIN s : s[i].SessionID = s[j].SessionID => i = j

\* The SessionIDs of r are those of s but e.
AllBut(s, r, e) ==
  \A x : (\E j \in DOMAIN r : x = r[j].SessionID)
          <=> (\E k \in DOMAIN s : x = s[k].SessionID) /\ x # e

LEMMA PlayerOut ==
  ASSUME NEW s \in Seq(Player), PlayersApart(s),
         NEW i \in 1 .. Len(s), NEW e, s[i].SessionID = e,
         NEW r, r = RemoveAt(s, i)
  PROVE  r \in Seq(Player) /\ PlayersApart(r) /\ AllBut(s, r, e)
<1>1. Len(s) \in Nat /\ DOMAIN s = 1 .. Len(s)
  BY LenProperties
<1>2. \A j, k \in DOMAIN s : s[j].SessionID = s[k].SessionID => j = k
  BY DEF PlayersApart
<1>3. /\ r \in Seq(Player)
      /\ \A j \in DOMAIN r : \E k \in DOMAIN s : k # i /\ r[j] = s[k]
      /\ \A k \in DOMAIN s : k # i => \E j \in DOMAIN r : r[j] = s[k]
      /\ \A j, m \in DOMAIN r : j # m =>
           \E k, l \in DOMAIN s : k # l /\ r[j] = s[k] /\ r[m] = s[l]
  BY Leaves
<1>4. ASSUME NEW j \in DOMAIN r, NEW m \in DOMAIN r, r[j].SessionID = r[m].SessionID
      PROVE  j = m
  <2>1. SUFFICES ASSUME j # m PROVE FALSE
    OBVIOUS
  <2>2. PICK k, l \in DOMAIN s : k # l /\ r[j] = s[k] /\ r[m] = s[l]
    BY <1>3, <2>1
  <2> QED BY <1>2, <1>4, <2>2
<1>5. ASSUME NEW j \in DOMAIN r
      PROVE  (\E k \in DOMAIN s : r[j].SessionID = s[k].SessionID) /\ r[j].SessionID # e
  <2>1. PICK k \in DOMAIN s : k # i /\ r[j] = s[k]
    BY <1>3
  <2> QED BY <1>1, <1>2, <2>1
<1>6. ASSUME NEW k \in DOMAIN s, s[k].SessionID # e
      PROVE  \E j \in DOMAIN r : s[k].SessionID = r[j].SessionID
  <2>1. PICK j \in DOMAIN r : r[j] = s[k]
    BY <1>3, <1>6
  <2> QED BY <2>1
<1>7. \A x : (\E j \in DOMAIN r : x = r[j].SessionID)
            <=> (\E k \in DOMAIN s : x = s[k].SessionID) /\ x # e
  BY <1>5, <1>6
<1> QED BY <1>3, <1>4, <1>7 DEF PlayersApart, AllBut

-----------------------------------------------------------------------------
(* The threads' own data *)

AcceptQuiet ==
  \/ AcceptWakes \/ AcceptExits \/ NoMoreAccepts \/ SomeAccept \/ PeekAccept \/ PopAccept
  \/ NoMoreDisconnects \/ SomeDisconnect \/ PopDisconnect \/ FindSessionList

AcceptObjects == NewSession \/ NewPlayer \/ DeleteSession \/ DeletePlayer

\* list::begin() gives a packet when one is linked.
LEMMA BeginType ==
  ASSUME DebugTypeOK, NEW q \in Packets
  PROVE  /\ Begin(q) \subseteq SessionIDs
         /\ Len(list[q]) \in Nat
         /\ Len(list[q]) > 0 =>
              /\ Head(list[q]) \in Ids /\ Tail(list[q]) \in Seq(Ids)
              /\ Len(Tail(list[q])) = Len(list[q]) - 1
<1>1. list[q] \in Seq(Ids)
  BY DEF DebugTypeOK
<1>2. Len(list[q]) \in Nat /\ (list[q] # <<>> => Len(list[q]) > 0)
  BY <1>1, LenProperties, EmptySeq
<1>3. Len(list[q]) > 0 =>
        /\ Head(list[q]) \in Ids /\ Tail(list[q]) \in Seq(Ids)
        /\ Len(Tail(list[q])) = Len(list[q]) - 1
  BY <1>1, PopsFront
<1> QED BY <1>2, <1>3 DEF Begin, SessionIDs

\* The lists that are popped hold a packet.
LEMMA PopsFind ==
  ASSUME DebugTypeOK, PacketsOK
  PROVE  /\ pc["Accept"] = "pop" /\ cs["Accept"] = Nobody => Len(list["Accept"]) > 0
         /\ pc["Accept"] = "take" /\ cs["Disconnect"] = Nobody => Len(list["Disconnect"]) > 0
         /\ pc["Update"] = "take" /\ cs["Action"] = Nobody => Len(list["Action"]) > 0
<1>1. \A q \in Packets : cs[q] = Nobody => size[q] = Len(list[q])
  <2> TAKE q \in Packets
  <2> HAVE cs[q] = Nobody
  <2>1. Nobody # "IO" /\ Len(list[q]) \in Nat
    BY DebugAssumption, BeginType DEF Threads
  <2>2. ~(pc["IO"] = "link" /\ kind["IO"] = q)
    BY <2>1 DEF PacketsOK
  <2>3. size[q] = Len(list[q]) + 0
    BY <2>2 DEF PacketsOK
  <2> QED BY <2>1, <2>3
<1>2. {"Accept", "Disconnect", "Action"} \subseteq Packets
  BY DEF Packets
<1> QED BY <1>1, <1>2 DEF PacketsOK

LEMMA IoType ==
  ASSUME DebugTypeOK, IOThread
  PROVE  DebugTypeOK'
<1> USE DEF DebugTypeOK, Goto, AcceptAt, IoAt, UpdateAt, MainAt, AtWork, Threads
<1>1. Packets \subseteq Locks
  BY DEF Locks
<1>2. ASSUME NEW q \in Packets, NEW id \in Ids, IoMake(q, id) PROVE DebugTypeOK'
  BY <1>2 DEF IoMake, packets, objects, events, SessionIDs
<1>3. CASE IoCount
  BY <1>1, <1>3 DEF IoCount, Enter, objects, events, locals
<1>4. CASE IoLink
  <2>1. kind["IO"] \in Packets /\ dwSessionID["IO"] \in Ids
    BY <1>4 DEF IoLink
  <2>2. Append(list[kind["IO"]], dwSessionID["IO"]) \in Seq(Ids)
    BY <2>1, PushBack
  <2>3. list' \in [Packets -> Seq(Ids)]
    BY <1>4, <2>1, <2>2 DEF IoLink
  <2> QED BY <1>1, <1>4, <2>1, <2>3 DEF IoLink, Leave, objects, events, locals
<1>5. CASE IoSignal
  BY <1>5 DEF IoSignal, packets, objects, locals
<1>6. CASE IoExits
  BY <1>6 DEF IoExits, packets, objects, events, locals
<1> QED BY <1>2, <1>3, <1>4, <1>5, <1>6 DEF IOThread

LEMMA PopFrontType ==
  ASSUME DebugTypeOK, NEW q \in Packets, Len(list[q]) > 0, size[q] > 0, PopFront(q)
  PROVE  list' \in [Packets -> Seq(Ids)] /\ size' \in [Packets -> Nat]
<1>1. Tail(list[q]) \in Seq(Ids) /\ size[q] - 1 \in Nat
  BY BeginType DEF DebugTypeOK
<1> QED BY <1>1 DEF PopFront, DebugTypeOK

LEMMA AcceptType ==
  ASSUME DebugTypeOK, PacketsOK, AcceptThread
  PROVE  DebugTypeOK'
<1> USE DEF DebugTypeOK, Goto, AcceptAt, IoAt, UpdateAt, MainAt, AtWork, Threads
<1>1. CASE AcceptWakes \/ AcceptExits \/ NoMoreAccepts \/ NoMoreDisconnects
  BY <1>1 DEF AcceptWakes, AcceptExits, NoMoreAccepts, NoMoreDisconnects, packets, objects,
     events, locals
<1>2. CASE SomeAccept \/ SomeDisconnect
  BY <1>2 DEF SomeAccept, SomeDisconnect, packets, objects, events, Packets
<1>3. CASE PeekAccept
  <2>1. Begin("Accept") \subseteq SessionIDs
    BY BeginType DEF Packets
  <2>2. PICK id \in SessionIDs : dwSessionID' = [dwSessionID EXCEPT !["Accept"] = id]
    BY <1>3, <2>1 DEF PeekAccept
  <2> QED BY <1>3, <2>2 DEF PeekAccept, packets, objects, events
<1>4. CASE PopAccept
  <2>1. Len(list["Accept"]) > 0 /\ size["Accept"] > 0
    BY <1>4, PopsFind DEF PopAccept, Through, PacketsOK
  <2>2. list' \in [Packets -> Seq(Ids)] /\ size' \in [Packets -> Nat]
    BY <1>4, <2>1, PopFrontType DEF PopAccept, Packets
  <2> QED BY <1>4, <2>2 DEF PopAccept, Through, objects, events, locals
<1>5. CASE PopDisconnect
  <2>1. Len(list["Disconnect"]) > 0 /\ size["Disconnect"] > 0
    BY <1>5, PopsFind DEF PopDisconnect, Through, PacketsOK
  <2>2. list' \in [Packets -> Seq(Ids)] /\ size' \in [Packets -> Nat]
    BY <1>5, <2>1, PopFrontType DEF PopDisconnect, Packets
  <2>3. Head(list["Disconnect"]) \in Ids
    BY <2>1, BeginType DEF Packets
  <2> QED BY <1>5, <2>2, <2>3 DEF PopDisconnect, Through, objects, events, SessionIDs
<1>6. CASE FindSessionList
  BY <1>6 DEF FindSessionList, Resume, Through, packets, objects, events, locals
<1>7. CASE AcceptObjects
  BY <1>7 DEF AcceptObjects, NewSession, NewPlayer, DeleteSession, DeletePlayer, Resume,
     Through, packets, events, locals
<1> QED BY <1>1, <1>2, <1>3, <1>4, <1>5, <1>6, <1>7 DEF AcceptThread, AcceptObjects

LEMMA UpdateType ==
  ASSUME DebugTypeOK, PacketsOK, UpdateThread
  PROVE  DebugTypeOK'
<1> USE DEF DebugTypeOK, Goto, AcceptAt, IoAt, UpdateAt, MainAt, AtWork, Threads
<1>1. CASE UpdateWakes \/ UpdateExits \/ NoMoreActions \/ SomeAction
  BY <1>1 DEF UpdateWakes, UpdateExits, NoMoreActions, SomeAction, packets, objects, events,
     locals
<1>2. CASE PopAction
  <2>1. Len(list["Action"]) > 0 /\ size["Action"] > 0
    BY <1>2, PopsFind DEF PopAction, Enter, PacketsOK
  <2>2. list' \in [Packets -> Seq(Ids)] /\ size' \in [Packets -> Nat]
    BY <1>2, <2>1, PopFrontType DEF PopAction, Packets
  <2>3. Head(list["Action"]) \in Ids /\ "Action" \in Locks
    BY <2>1, BeginType DEF Packets, Locks
  <2> QED BY <1>2, <2>2, <2>3 DEF PopAction, Enter, objects, events, SessionIDs
<1>3. CASE Act
  BY <1>3 DEF Act, Leave, packets, events, locals, Locks, Packets
<1> QED BY <1>1, <1>2, <1>3 DEF UpdateThread

LEMMA MainType ==
  ASSUME DebugTypeOK, Quit \/ Release
  PROVE  DebugTypeOK'
<1> USE DEF DebugTypeOK, Goto, AcceptAt, IoAt, UpdateAt, MainAt, AtWork, Threads
<1>1. CASE Quit
  BY <1>1 DEF Quit, packets, objects, locals
<1>2. CASE Release
  <2>1. <<>> \in Seq(Ids)
    BY EmptySeq
  <2> QED BY <1>2, <2>1 DEF Release, events, locals
<1> QED BY <1>1, <1>2

-----------------------------------------------------------------------------
(* The packet lists *)

LEMMA IoPackets ==
  ASSUME DebugTypeOK, PacketsOK, IOThread
  PROVE  PacketsOK'
<1>1. /\ pc["IO"] \in IoAt /\ kind["IO"] \in Packets /\ Nobody # "IO" /\ Nobody # "Update"
      /\ "IO" \in Threads /\ "Accept" \in Threads /\ "Update" \in Threads
      /\ \A q \in Packets : Len(list[q]) \in Nat /\ q \in Locks
      /\ DOMAIN pc = Threads /\ DOMAIN cs = Locks /\ DOMAIN size = Packets /\ DOMAIN list = Packets
      /\ DOMAIN kind = Threads
  BY DebugAssumption, BeginType DEF DebugTypeOK, Threads, Locks
<1>2. /\ pc["IO"] = "link" => cs[kind["IO"]] = "IO"
      /\ pc["Update"] = "act" => cs["Action"] = "Update"
      /\ \A q \in Packets :
           size[q] = Len(list[q]) + (IF pc["IO"] = "link" /\ kind["IO"] = q THEN 1 ELSE 0)
      /\ pc["Accept"] \in {"peek", "pop"} => size["Accept"] > 0
      /\ pc["Accept"] = "take" => size["Disconnect"] > 0
      /\ pc["Update"] = "take" => size["Action"] > 0
  BY DEF PacketsOK
<1>3. pc'["Accept"] = pc["Accept"] /\ pc'["Update"] = pc["Update"]
  BY <1>1 DEF IOThread, IoMake, IoCount, IoLink, IoSignal, IoExits, Goto
<1>4. ASSUME NEW q \in Packets, NEW id \in Ids, IoMake(q, id) PROVE PacketsOK'
  <2>1. /\ pc["IO"] # "link" /\ pc'["IO"] = "push" /\ UNCHANGED <<size, list, cs>>
    BY <1>1, <1>4 DEF IoMake, Goto, packets
  <2> QED BY <1>2, <1>3, <2>1 DEF PacketsOK
<1>5. CASE IoCount
  <2>1. PICK q \in Packets : q = kind["IO"]
    BY <1>1
  <2>2. /\ pc["IO"] # "link" /\ pc'["IO"] = "link" /\ kind' = kind /\ list' = list
        /\ cs[q] = Nobody /\ cs' = [cs EXCEPT ![q] = "IO"] /\ size' = [size EXCEPT ![q] = @ + 1]
    BY <1>1, <1>5, <2>1 DEF IoCount, Goto, Enter, locals
  <2>3. cs'[q] = "IO" /\ (pc["Update"] = "act" => cs'["Action"] = "Update")
    BY <1>1, <1>2, <2>2
  <2>4. ASSUME NEW r \in Packets
        PROVE  /\ size'[r] = Len(list'[r]) + (IF pc'["IO"] = "link" /\ kind'["IO"] = r THEN 1 ELSE 0)
               /\ size'[r] >= size[r]
    <3>1. size[r] = Len(list[r]) + 0
      BY <1>2, <2>2
    <3>2. CASE r = q
      BY <1>1, <2>1, <2>2, <3>1, <3>2
    <3>3. CASE r # q
      BY <1>1, <2>1, <2>2, <3>1, <3>3
    <3> QED BY <3>2, <3>3
  <2>5. {"Accept", "Disconnect", "Action"} \subseteq Packets
    BY DEF Packets
  <2>6. \A r \in Packets : size[r] \in Nat /\ size'[r] \in Nat
    BY <1>1, <2>2 DEF DebugTypeOK
  <2>7. \A r \in Packets : size[r] > 0 => size'[r] > 0
    <3> TAKE r \in Packets
    <3>1. size'[r] >= size[r]
      BY <2>4
    <3> QED BY <2>6, <3>1
  <2> QED BY <1>2, <1>3, <2>1, <2>2, <2>3, <2>4, <2>5, <2>7 DEF PacketsOK
<1>6. CASE IoLink
  <2>1. PICK q \in Packets : q = kind["IO"]
    BY <1>1
  <2>2. /\ pc["IO"] = "link" /\ pc'["IO"] = "signal" /\ kind' = kind /\ size' = size
        /\ cs' = [cs EXCEPT ![q] = Nobody]
        /\ list' = [list EXCEPT ![q] = Append(@, dwSessionID["IO"])]
    BY <1>1, <1>6, <2>1 DEF IoLink, Goto, Leave, locals
  <2>3. pc["Update"] = "act" => cs'["Action"] = "Update"
    BY <1>1, <1>2, <2>1, <2>2
  <2>4. \A r \in Packets :
          size'[r] = Len(list'[r]) + (IF pc'["IO"] = "link" /\ kind'["IO"] = r THEN 1 ELSE 0)
    <3> TAKE r \in Packets
    <3>1. CASE r = q
      <4>1. dwSessionID["IO"] \in Ids /\ list[q] \in Seq(Ids)
        BY <2>2 DEF DebugTypeOK
      <4>2. Len(list'[q]) = Len(list[q]) + 1 /\ Len(list[q]) \in Nat
        BY <1>1, <2>2, <4>1, PushBack
      <4>3. size[q] = Len(list[q]) + 1
        BY <1>2, <2>1, <2>2
      <4> QED BY <2>2, <3>1, <4>2, <4>3
    <3>2. CASE r # q
      <4>1. size[r] = Len(list[r]) + 0
        BY <1>2, <2>1, <2>2, <3>2
      <4> QED BY <1>1, <2>2, <3>2, <4>1
    <3> QED BY <3>1, <3>2
  <2> QED BY <1>2, <1>3, <2>2, <2>3, <2>4 DEF PacketsOK
<1>7. CASE IoSignal \/ IoExits
  <2>1. pc["IO"] # "link" /\ pc'["IO"] # "link" /\ UNCHANGED <<size, list, cs, kind>>
    BY <1>1, <1>7 DEF IoSignal, IoExits, Goto, packets, locals
  <2> QED BY <1>2, <1>3, <2>1 DEF PacketsOK
<1> QED BY <1>4, <1>5, <1>6, <1>7 DEF IOThread

\* A pop takes one from the count and one from the list.
LEMMA PopKeeps ==
  ASSUME DebugTypeOK, PacketsOK, NEW q \in Packets, Len(list[q]) > 0, PopFront(q),
         pc'["IO"] = pc["IO"], kind'["IO"] = kind["IO"]
  PROVE  /\ \A r \in Packets :
              size'[r] = Len(list'[r]) + (IF pc'["IO"] = "link" /\ kind'["IO"] = r THEN 1 ELSE 0)
         /\ \A r \in Packets : r # q => size'[r] = size[r]
<1> DEFINE more(r) == IF pc["IO"] = "link" /\ kind["IO"] = r THEN 1 ELSE 0
<1>1. \A r \in Packets : size[r] = Len(list[r]) + more(r)
  BY DEF PacketsOK
<1>2. /\ Len(Tail(list[q])) = Len(list[q]) - 1 /\ Len(list[q]) \in Nat
      /\ DOMAIN size = Packets /\ DOMAIN list = Packets /\ more(q) \in Nat
  BY BeginType DEF DebugTypeOK
<1> HIDE DEF more
<1>3. \A r \in Packets : size'[r] = Len(list'[r]) + more(r)
  <2> TAKE r \in Packets
  <2>1. CASE r = q
    <3>1. size'[q] = size[q] - 1 /\ Len(list'[q]) = Len(list[q]) - 1
      BY <1>2 DEF PopFront
    <3> QED BY <1>1, <1>2, <2>1, <3>1
  <2>2. CASE r # q
    BY <1>1, <1>2, <2>2 DEF PopFront
  <2> QED BY <2>1, <2>2
<1> QED BY <1>2, <1>3 DEF PopFront, more

LEMMA AcceptPackets ==
  ASSUME DebugTypeOK, PacketsOK, AcceptThread
  PROVE  PacketsOK'
<1>1. /\ DOMAIN pc = Threads /\ DOMAIN kind = Threads
      /\ "IO" \in Threads /\ "Accept" \in Threads /\ "Update" \in Threads
  BY DEF DebugTypeOK, Threads
<1>2. /\ cs' = cs /\ pc'["IO"] = pc["IO"] /\ pc'["Update"] = pc["Update"]
      /\ kind'["IO"] = kind["IO"]
  BY <1>1 DEF AcceptThread, AcceptWakes, AcceptExits, NoMoreAccepts, SomeAccept, PeekAccept,
     PopAccept, NoMoreDisconnects, SomeDisconnect, PopDisconnect, FindSessionList, NewSession,
     NewPlayer, DeleteSession, DeletePlayer, Goto, Through, locals
<1>3. CASE PopAccept
  <2>1. Len(list["Accept"]) > 0 /\ pc'["Accept"] = "find" /\ PopFront("Accept")
    BY <1>1, <1>3, PopsFind DEF PopAccept, Through, Goto
  <2>2. /\ \A r \in Packets :
             size'[r] = Len(list'[r]) + (IF pc'["IO"] = "link" /\ kind'["IO"] = r THEN 1 ELSE 0)
        /\ \A r \in Packets : r # "Accept" => size'[r] = size[r]
    BY <1>2, <2>1, PopKeeps DEF Packets
  <2> QED BY <1>2, <2>1, <2>2 DEF PacketsOK, Packets
<1>4. CASE PopDisconnect
  <2>1. Len(list["Disconnect"]) > 0 /\ pc'["Accept"] = "find" /\ PopFront("Disconnect")
    BY <1>1, <1>4, PopsFind DEF PopDisconnect, Through, Goto
  <2>2. /\ \A r \in Packets :
             size'[r] = Len(list'[r]) + (IF pc'["IO"] = "link" /\ kind'["IO"] = r THEN 1 ELSE 0)
        /\ \A r \in Packets : r # "Disconnect" => size'[r] = size[r]
    BY <1>2, <2>1, PopKeeps DEF Packets
  <2> QED BY <1>2, <2>1, <2>2 DEF PacketsOK, Packets
<1>5. CASE ~PopAccept /\ ~PopDisconnect
  <2>1. /\ UNCHANGED <<size, list>>
        /\ pc'["Accept"] \in {"peek", "pop"} => size["Accept"] > 0
        /\ pc'["Accept"] = "take" => size["Disconnect"] > 0
    BY <1>1, <1>5 DEF AcceptThread, AcceptWakes, AcceptExits, NoMoreAccepts, SomeAccept,
       PeekAccept, NoMoreDisconnects, SomeDisconnect, FindSessionList, NewSession,
       NewPlayer, DeleteSession, DeletePlayer, Goto, Resume, packets, PacketsOK
  <2> QED BY <1>2, <2>1 DEF PacketsOK
<1> QED BY <1>3, <1>4, <1>5

LEMMA UpdatePackets ==
  ASSUME DebugTypeOK, PacketsOK, UpdateThread
  PROVE  PacketsOK'
<1>1. /\ DOMAIN pc = Threads /\ DOMAIN kind = Threads /\ DOMAIN cs = Locks
      /\ "IO" \in Threads /\ "Accept" \in Threads /\ "Update" \in Threads
      /\ "Action" \in Locks /\ Nobody # "IO" /\ Nobody # "Update"
      /\ pc["IO"] = "link" => cs[kind["IO"]] = "IO"
      /\ kind["IO"] \in Locks
  BY DebugAssumption DEF DebugTypeOK, PacketsOK, Threads, Locks, Packets
<1>2. kind' = kind /\ pc'["IO"] = pc["IO"] /\ pc'["Accept"] = pc["Accept"]
  BY <1>1 DEF UpdateThread, UpdateWakes, UpdateExits, NoMoreActions, SomeAction, PopAction, Act,
     Goto, locals
<1>3. CASE PopAction
  <2>1. /\ Len(list["Action"]) > 0 /\ pc'["Update"] = "act" /\ PopFront("Action")
        /\ cs["Action"] = Nobody /\ cs' = [cs EXCEPT !["Action"] = "Update"]
    BY <1>1, <1>3, PopsFind DEF PopAction, Enter, Goto
  <2>2. /\ \A r \in Packets :
             size'[r] = Len(list'[r]) + (IF pc'["IO"] = "link" /\ kind'["IO"] = r THEN 1 ELSE 0)
        /\ \A r \in Packets : r # "Action" => size'[r] = size[r]
    BY <1>2, <2>1, PopKeeps DEF Packets
  <2>3. pc["IO"] = "link" => cs'[kind["IO"]] = "IO"
    BY <1>1, <2>1
  <2>4. cs'["Action"] = "Update"
    BY <1>1, <2>1
  <2> QED BY <1>2, <2>1, <2>2, <2>3, <2>4 DEF PacketsOK, Packets
<1>4. CASE Act
  <2>1. /\ pc["Update"] = "act" /\ pc'["Update"] = "actions" /\ UNCHANGED <<size, list>>
        /\ cs["Action"] = "Update" /\ cs' = [cs EXCEPT !["Action"] = Nobody]
    BY <1>1, <1>4 DEF Act, Leave, Goto, packets, PacketsOK
  <2>2. pc["IO"] = "link" => cs'[kind["IO"]] = "IO"
    BY <1>1, <2>1
  <2> QED BY <1>2, <2>1, <2>2 DEF PacketsOK
<1>5. CASE ~PopAction /\ ~Act
  <2>1. /\ UNCHANGED <<size, list, cs>> /\ pc'["Update"] # "act"
        /\ pc'["Update"] = "take" => size["Action"] > 0
    BY <1>1, <1>5 DEF UpdateThread, UpdateWakes, UpdateExits, NoMoreActions, SomeAction, Goto,
       packets
  <2> QED BY <1>2, <2>1 DEF PacketsOK
<1> QED BY <1>3, <1>4, <1>5

LEMMA MainPackets ==
  ASSUME DebugTypeOK, PacketsOK, Quit \/ Release
  PROVE  PacketsOK'
<1>1. /\ DOMAIN pc = Threads /\ {"main", "IO", "Accept", "Update"} \subseteq Threads
  BY DEF DebugTypeOK, Threads
<1>2. CASE Quit
  <2>1. /\ UNCHANGED <<size, list, cs, kind>>
        /\ \A t \in {"IO", "Accept", "Update"} : pc'[t] = pc[t]
    BY <1>1, <1>2 DEF Quit, Goto, packets, locals
  <2> QED BY <2>1 DEF PacketsOK
<1>3. CASE Release
  <2>1. \A t \in {"IO", "Accept", "Update"} : pc'[t] = "ended"
    BY <1>1, <1>3 DEF Release, Goto, Threads
  <2>2. \A q \in Packets : size'[q] = 0 /\ Len(list'[q]) = 0
    BY <1>3, EmptySeq DEF Release
  <2>3. \A q \in Packets :
          size'[q] = Len(list'[q]) + (IF pc'["IO"] = "link" /\ kind'["IO"] = q THEN 1 ELSE 0)
    <3>1. ~(pc'["IO"] = "link")
      BY <2>1
    <3> QED BY <2>2, <3>1
  <2> QED BY <2>1, <2>3 DEF PacketsOK
<1> QED BY <1>2, <1>3

-----------------------------------------------------------------------------
(* The object lists *)

\* A step after which AcceptThread is no nearer to changing them.
LEMMA ObjectsQuiet ==
  ASSUME ObjectsOK, UNCHANGED objects,
         \/ /\ pc'["Accept"] = pc["Accept"]
            /\ dwSessionID'["Accept"] = dwSessionID["Accept"]
         \/ /\ pc["Accept"] \notin {"newPlayer", "deletePlayer"}
            /\ pc'["Accept"] \notin {"newSession", "newPlayer", "deleteSession", "deletePlayer"}
  PROVE  ObjectsOK'
<1>1. ToSet(g_SessionList)' = ToSet(g_SessionList) /\ PlayerIDs' = PlayerIDs
  BY DEF objects, ToSet, PlayerIDs
<1> QED BY <1>1 DEF ObjectsOK, objects

LEMMA IoObjects ==
  ASSUME DebugTypeOK, ObjectsOK, IOThread
  PROVE  ObjectsOK'
<1>1. DOMAIN pc = Threads /\ DOMAIN dwSessionID = Threads /\ {"Accept", "IO"} \subseteq Threads
  BY DEF DebugTypeOK, Threads
<1>2. /\ pc'["Accept"] = pc["Accept"] /\ dwSessionID'["Accept"] = dwSessionID["Accept"]
      /\ UNCHANGED objects
  BY <1>1 DEF IOThread, IoMake, IoCount, IoLink, IoSignal, IoExits, Goto, locals
<1> QED BY <1>2, ObjectsQuiet

LEMMA AcceptQuietObjects ==
  ASSUME DebugTypeOK, ObjectsOK, AcceptQuiet
  PROVE  ObjectsOK'
<1>1. DOMAIN pc = Threads /\ DOMAIN dwSessionID = Threads /\ "Accept" \in Threads
  BY DEF DebugTypeOK, Threads
<1>2. CASE ~FindSessionList
  <2>1. /\ pc["Accept"] \notin {"newPlayer", "deletePlayer"}
        /\ pc'["Accept"] \notin {"newSession", "newPlayer", "deleteSession", "deletePlayer"}
        /\ UNCHANGED objects
    BY <1>1, <1>2 DEF AcceptQuiet, AcceptWakes, AcceptExits, NoMoreAccepts, SomeAccept, PeekAccept,
       PopAccept, NoMoreDisconnects, SomeDisconnect, PopDisconnect, Goto, objects
  <2> QED BY <2>1, ObjectsQuiet
<1>3. CASE FindSessionList
  <2>1. /\ pc["Accept"] = "find" /\ UNCHANGED <<objects, locals>>
        /\ pc'["Accept"] \in {"newSession", "deleteSession", "accepts", "disconnects"}
        /\ pc'["Accept"] = "newSession" => dwSessionID["Accept"] \notin ToSet(g_SessionList)
        /\ pc'["Accept"] = "deleteSession" => dwSessionID["Accept"] \in ToSet(g_SessionList)
    BY <1>1, <1>3 DEF FindSessionList, Goto, Resume
  <2>2. /\ ToSet(g_SessionList)' = ToSet(g_SessionList) /\ PlayerIDs' = PlayerIDs
        /\ dwSessionID' = dwSessionID
    BY <2>1 DEF objects, locals, ToSet, PlayerIDs
  <2> QED BY <2>1, <2>2 DEF ObjectsOK, objects
<1> QED BY <1>2, <1>3

LEMMA SessionComes ==
  ASSUME DebugTypeOK, ObjectsOK, NewSession
  PROVE  ObjectsOK'
<1> DEFINE it == dwSessionID["Accept"]
<1>1. /\ pc["Accept"] = "newSession" /\ pc'["Accept"] = "newPlayer"
      /\ dwSessionID' = dwSessionID /\ it \in SessionIDs
      /\ g_SessionList' = Append(g_SessionList, it) /\ g_PlayerList' = g_PlayerList
  BY DEF NewSession, Goto, locals, DebugTypeOK, Threads, AtWork
<1>2. PlayerIDs' = PlayerIDs
  BY <1>1 DEF PlayerIDs
<1>3. /\ g_SessionList \in Seq(SessionIDs) /\ IsInjective(g_SessionList)
      /\ it \notin ToSet(g_SessionList) /\ ToSet(g_SessionList) = PlayerIDs
  BY <1>1 DEF ObjectsOK
<1>4. /\ g_SessionList' \in Seq(SessionIDs)
      /\ ToSet(g_SessionList') = ToSet(g_SessionList) \union {it}
  BY <1>1, <1>3, PushBack
<1>5. IsInjective(g_SessionList')
  <2> DEFINE s == g_SessionList
             r == Append(s, it)
  <2>1. /\ DOMAIN s = 1 .. Len(s) /\ DOMAIN r = 1 .. Len(s) + 1 /\ Len(s) \in Nat
        /\ \A i \in 1 .. Len(s) : r[i] = s[i]
        /\ r[Len(s) + 1] = it
    BY <1>1, <1>3, PushBack
  <2> HIDE DEF r
  <2>2. \A i \in 1 .. Len(s) + 1 : i \notin 1 .. Len(s) => i = Len(s) + 1
    BY <2>1
  <2>3. IsInjective(r)
    BY <1>3, <2>1, <2>2 DEF IsInjective, ToSet
  <2> QED BY <1>1, <2>3 DEF r
<1> QED BY <1>1, <1>2, <1>3, <1>4, <1>5 DEF ObjectsOK

LEMMA PlayerComes ==
  ASSUME DebugTypeOK, ObjectsOK, NewPlayer
  PROVE  ObjectsOK'
<1> DEFINE it == dwSessionID["Accept"]
           new == [SessionID |-> it, Content |-> 0]
           s == g_PlayerList
           r == Append(s, new)
<1>1. /\ pc["Accept"] = "newPlayer" /\ pc'["Accept"] = "accepts"
      /\ dwSessionID' = dwSessionID /\ it \in SessionIDs
      /\ g_PlayerList' = r /\ g_SessionList' = g_SessionList
  BY DEF NewPlayer, Goto, Resume, locals, DebugTypeOK, Threads, AtWork
<1>2. /\ s \in Seq(Player) /\ new \in Player
      /\ \A i, j \in DOMAIN s : s[i].SessionID = s[j].SessionID => i = j
      /\ it \notin PlayerIDs /\ ToSet(g_SessionList) = PlayerIDs \union {it}
  BY <1>1 DEF ObjectsOK, Player
<1>3. /\ r \in Seq(Player)
      /\ DOMAIN s = 1 .. Len(s) /\ DOMAIN r = 1 .. Len(s) + 1 /\ Len(s) \in Nat
      /\ \A i \in 1 .. Len(s) : r[i] = s[i]
      /\ r[Len(s) + 1] = new
  BY <1>2, PushBack
<1>4. new.SessionID = it
  OBVIOUS
<1> HIDE DEF r, new
<1>5. \A i \in 1 .. Len(s) + 1 : i \notin 1 .. Len(s) => i = Len(s) + 1
  BY <1>3
<1>6. \A i \in 1 .. Len(s) : i \in 1 .. Len(s) + 1 /\ r[i].SessionID = s[i].SessionID
                             /\ s[i].SessionID \in PlayerIDs
  BY <1>3 DEF PlayerIDs
<1>7. r[Len(s) + 1].SessionID = it /\ Len(s) + 1 \in 1 .. Len(s) + 1
  BY <1>3, <1>4
<1>8. \A i, j \in DOMAIN r : r[i].SessionID = r[j].SessionID => i = j
  BY <1>2, <1>3, <1>5, <1>6, <1>7
<1>9. \A x : x \in {r[i].SessionID : i \in DOMAIN r} <=> x \in PlayerIDs \union {it}
  BY <1>3, <1>5, <1>6, <1>7 DEF PlayerIDs
<1>10. PlayerIDs' = PlayerIDs \union {it}
  BY <1>1, <1>9 DEF PlayerIDs
<1>11. /\ g_PlayerList' \in Seq(Player)
       /\ \A i, j \in DOMAIN g_PlayerList' :
            g_PlayerList'[i].SessionID = g_PlayerList'[j].SessionID => i = j
  BY <1>1, <1>3, <1>8
<1>12. ToSet(g_SessionList)' = ToSet(g_SessionList)
  BY <1>1 DEF ToSet
<1> QED BY <1>1, <1>2, <1>10, <1>11, <1>12 DEF ObjectsOK

LEMMA SessionGoes ==
  ASSUME DebugTypeOK, ObjectsOK, DeleteSession
  PROVE  ObjectsOK'
<1> DEFINE it == dwSessionID["Accept"]
<1>1. /\ pc["Accept"] = "deleteSession" /\ pc'["Accept"] = "deletePlayer"
      /\ dwSessionID' = dwSessionID
      /\ g_SessionList' = RemoveFirst(g_SessionList, it) /\ g_PlayerList' = g_PlayerList
  BY DEF DeleteSession, Goto, locals, DebugTypeOK, Threads
<1>2. /\ g_SessionList \in Seq(SessionIDs) /\ IsInjective(g_SessionList)
      /\ it \in ToSet(g_SessionList) /\ ToSet(g_SessionList) = PlayerIDs
  BY <1>1 DEF ObjectsOK
<1>3. /\ g_SessionList' \in Seq(SessionIDs) /\ IsInjective(g_SessionList')
      /\ ToSet(g_SessionList') = ToSet(g_SessionList) \ {it}
  BY <1>1, <1>2, RemovesSession
<1>4. PlayerIDs' = PlayerIDs
  BY <1>1 DEF PlayerIDs
<1> QED BY <1>1, <1>2, <1>3, <1>4 DEF ObjectsOK

LEMMA PlayerGoes ==
  ASSUME DebugTypeOK, ObjectsOK, DeletePlayer
  PROVE  ObjectsOK'
<1> DEFINE it == dwSessionID["Accept"]
<1>1. /\ pc["Accept"] = "deletePlayer" /\ pc'["Accept"] = "disconnects"
      /\ dwSessionID' = dwSessionID /\ g_SessionList' = g_SessionList
      /\ g_PlayerList' = RemoveFirstMatch(g_PlayerList, LAMBDA p : p.SessionID = it)
  BY DEF DeletePlayer, Goto, Resume, locals, DebugTypeOK, Threads
<1>2. /\ g_PlayerList \in Seq(Player)
      /\ \A i, j \in DOMAIN g_PlayerList :
           g_PlayerList[i].SessionID = g_PlayerList[j].SessionID => i = j
      /\ it \in PlayerIDs /\ it \notin ToSet(g_SessionList)
      /\ PlayerIDs = ToSet(g_SessionList) \union {it}
  BY <1>1 DEF ObjectsOK
<1> DEFINE s == g_PlayerList
<1>9. Len(s) \in Nat /\ DOMAIN s = 1 .. Len(s)
  BY <1>2, LenProperties
<1>10. PICK i \in 1 .. Len(s) : s[i].SessionID = it
  BY <1>2, <1>9 DEF PlayerIDs
<1>3. s' = RemoveAt(s, i)
  <2>1. {j \in 1 .. Len(s) : s[j].SessionID = it} = {i}
    BY <1>2, <1>9, <1>10
  <2>2. SelectInSeq(s, LAMBDA p : p.SessionID = it) = i
    BY <1>9, <2>1, FindsOne DEF SelectInSeq
  <2> QED BY <1>1, <1>10, <2>2 DEF RemoveFirstMatch
<1>4. /\ s' \in Seq(Player)
      /\ \A j, m \in DOMAIN s' : s'[j].SessionID = s'[m].SessionID => j = m
      /\ \A x : (\E j \in DOMAIN s' : x = s'[j].SessionID)
                <=> (\E k \in DOMAIN s : x = s[k].SessionID) /\ x # it
  <2>1. PICK u, r, e : u = s /\ r = s' /\ e = it
    OBVIOUS
  <2>2. /\ u \in Seq(Player) /\ i \in 1 .. Len(u) /\ u[i].SessionID = e /\ r = RemoveAt(u, i)
        /\ PlayersApart(u)
    BY <1>2, <1>3, <1>10, <2>1 DEF PlayersApart
  <2>3. r \in Seq(Player) /\ PlayersApart(r) /\ AllBut(u, r, e)
    BY <2>2, PlayerOut
  <2> QED BY <2>1, <2>3 DEF PlayersApart, AllBut
<1>5. PlayerIDs' = PlayerIDs \ {it}
  <2>1. \A x : x \in PlayerIDs' <=> x \in PlayerIDs /\ x # it
    BY <1>4 DEF PlayerIDs
  <2> QED BY <2>1
<1>6. ToSet(g_SessionList)' = ToSet(g_SessionList)
  BY <1>1 DEF ToSet
<1>7. PlayerIDs' = ToSet(g_SessionList)'
  BY <1>2, <1>5, <1>6
<1>8. /\ pc'["Accept"] = "disconnects" /\ UNCHANGED <<g_SessionList, dwSessionID>>
  BY <1>1
<1> QED BY <1>4, <1>6, <1>7, <1>8 DEF ObjectsOK

\* An action changes a player's content, and not whose it is.
LEMMA UpdateObjects ==
  ASSUME DebugTypeOK, ObjectsOK, UpdateThread
  PROVE  ObjectsOK'
<1>1. DOMAIN pc = Threads /\ DOMAIN dwSessionID = Threads /\ {"Accept", "Update"} \subseteq Threads
  BY DEF DebugTypeOK, Threads
<1>2. CASE ~Act
  <2>1. /\ pc'["Accept"] = pc["Accept"] /\ dwSessionID'["Accept"] = dwSessionID["Accept"]
        /\ UNCHANGED objects
    BY <1>1, <1>2 DEF UpdateThread, UpdateWakes, UpdateExits, NoMoreActions, SomeAction, PopAction,
       Goto, locals
  <2> QED BY <2>1, ObjectsQuiet
<1>3. CASE Act
  <2> DEFINE s == g_PlayerList
  <2>1. /\ pc'["Accept"] = pc["Accept"] /\ dwSessionID' = dwSessionID
        /\ g_SessionList' = g_SessionList
    BY <1>1, <1>3 DEF Act, Goto, locals
  <2>2. PICK i : s' = IF i = 0 THEN s ELSE [s EXCEPT ![i].Content = @ + 1]
    BY <1>3 DEF Act
  <2>3. s \in Seq(Player) /\ s \in [1 .. Len(s) -> Player] /\ Len(s) \in Nat
        /\ DOMAIN s = 1 .. Len(s)
    BY LenProperties DEF ObjectsOK
  <2>4. /\ s' \in [1 .. Len(s) -> Player]
        /\ \A j \in 1 .. Len(s) : s'[j].SessionID = s[j].SessionID
    <3>1. CASE i \in 1 .. Len(s) /\ i # 0
      <4>1. s' = [s EXCEPT ![i].Content = @ + 1] /\ s[i] \in Player
        BY <2>2, <2>3, <3>1
      <4>2. s' = [s EXCEPT ![i] = [s[i] EXCEPT !.Content = s[i].Content + 1]]
        BY <4>1
      <4> HIDE DEF s
      <4>3. /\ [s[i] EXCEPT !.Content = s[i].Content + 1] \in Player
            /\ [s[i] EXCEPT !.Content = s[i].Content + 1].SessionID = s[i].SessionID
        BY <4>1 DEF Player
      <4> QED BY <2>3, <3>1, <4>2, <4>3
    <3>2. CASE ~(i \in 1 .. Len(s) /\ i # 0)
      BY <2>2, <2>3, <3>2
    <3> QED BY <3>1, <3>2
  <2>5. s' \in Seq(Player) /\ DOMAIN s' = DOMAIN s
    <3> HIDE DEF s
    <3> QED BY <2>3, <2>4, SeqDef
  <2>6. PlayerIDs' = PlayerIDs
    BY <2>3, <2>4, <2>5 DEF PlayerIDs
  <2>7. ToSet(g_SessionList)' = ToSet(g_SessionList)
    BY <2>1 DEF ToSet
  <2>8. \A j, m \in DOMAIN s' : s'[j].SessionID = s'[m].SessionID => j = m
    BY <2>3, <2>4, <2>5 DEF ObjectsOK
  <2> QED BY <2>1, <2>5, <2>6, <2>7, <2>8 DEF ObjectsOK
<1> QED BY <1>2, <1>3

LEMMA MainObjects ==
  ASSUME DebugTypeOK, ObjectsOK, Quit \/ Release
  PROVE  ObjectsOK'
<1>1. DOMAIN pc = Threads /\ {"Accept", "main"} \subseteq Threads
  BY DEF DebugTypeOK, Threads
<1>2. CASE Quit
  <2>1. /\ pc'["Accept"] = pc["Accept"] /\ dwSessionID'["Accept"] = dwSessionID["Accept"]
        /\ UNCHANGED objects
    BY <1>1, <1>2 DEF Quit, Goto, locals
  <2> QED BY <2>1, ObjectsQuiet
<1>3. CASE Release
  <2>1. pc'["Accept"] = "ended" /\ g_SessionList' = <<>> /\ g_PlayerList' = <<>>
    BY <1>1, <1>3 DEF Release, Goto, Threads
  <2>2. <<>> \in Seq(SessionIDs) /\ <<>> \in Seq(Player) /\ DOMAIN <<>> = {}
    BY EmptySeq
  <2>3. ToSet(<<>>) = {} /\ IsInjective(<<>>) /\ PlayerIDs' = {}
    BY <2>1, <2>2 DEF ToSet, IsInjective, PlayerIDs
  <2> QED BY <2>1, <2>2, <2>3 DEF ObjectsOK
<1> QED BY <1>2, <1>3

-----------------------------------------------------------------------------
(* The results about ThreadDebug *)

LEMMA DebugInit == Init => DebugInv
<1> SUFFICES ASSUME Init PROVE DebugInv
  OBVIOUS
<1>1. <<>> \in Seq(Ids) /\ <<>> \in Seq(SessionIDs) /\ <<>> \in Seq(Player) /\ DOMAIN <<>> = {}
      /\ Len(<<>>) = 0
  BY EmptySeq
<1>2. DebugTypeOK
  BY <1>1 DEF Init, DebugTypeOK, Threads, Packets, Locks, AcceptAt, IoAt, UpdateAt, MainAt,
     SessionIDs, AtWork
<1>3. PacketsOK
  <2>1. pc["IO"] = "wait" /\ pc["Accept"] = "wait" /\ pc["Update"] = "wait"
    BY DEF Init, Threads
  <2>2. \A q \in Packets : size[q] = 0 /\ Len(list[q]) = 0
    BY <1>1 DEF Init
  <2> QED BY <2>1, <2>2 DEF PacketsOK
<1>4. ObjectsOK
  <2>1. pc["Accept"] = "wait" /\ g_SessionList = <<>> /\ g_PlayerList = <<>>
    BY DEF Init, Threads
  <2>2. ToSet(<<>>) = {} /\ IsInjective(<<>>) /\ PlayerIDs = {}
    BY <1>1, <2>1 DEF ToSet, IsInjective, PlayerIDs
  <2> QED BY <1>1, <2>1, <2>2 DEF ObjectsOK
<1> QED BY <1>2, <1>3, <1>4 DEF DebugInv

LEMMA DebugStep == DebugInv /\ [Next]_vars => DebugInv'
<1> SUFFICES ASSUME DebugInv, [Next]_vars PROVE DebugInv'
  OBVIOUS
<1> USE DEF DebugInv
<1>1. CASE IOThread
  BY <1>1, IoType, IoPackets, IoObjects
<1>2. CASE AcceptThread
  <2>1. ObjectsOK'
    BY <1>2, AcceptQuietObjects, SessionComes, PlayerComes, SessionGoes, PlayerGoes
       DEF AcceptThread, AcceptQuiet
  <2> QED BY <1>2, <2>1, AcceptType, AcceptPackets
<1>3. CASE UpdateThread
  BY <1>3, UpdateType, UpdatePackets, UpdateObjects
<1>4. CASE Quit \/ Release
  BY <1>4, MainType, MainPackets, MainObjects
<1>5. CASE UNCHANGED vars
  <2>1. DebugTypeOK'
    BY <1>5 DEF vars, packets, locals, DebugTypeOK
  <2>2. PacketsOK'
    BY <1>5 DEF vars, packets, locals, PacketsOK
  <2>3. ObjectsOK'
    BY <1>5, ObjectsQuiet DEF vars, locals
  <2> QED BY <2>1, <2>2, <2>3
<1> QED BY <1>1, <1>2, <1>3, <1>4, <1>5 DEF Next

\* The threads' data, the packets counted and the objects of AcceptThread keep
\* the inductive invariant.
THEOREM DebugInvariance == Spec => []DebugInv
BY DebugInit, DebugStep, PTL DEF Spec

\* A session has one player and a player one session, whatever begin() gave and
\* however the packets were queued.
THEOREM OnePlayerEachAlways == Spec => []OnePlayerEach
<1>1. DebugInv => OnePlayerEach
  <2> SUFFICES ASSUME DebugInv PROVE OnePlayerEach
    OBVIOUS
  <2> DEFINE players == [i \in DOMAIN g_PlayerList |-> g_PlayerList[i].SessionID]
             it == dwSessionID["Accept"]
             at == IF pc["Accept"] \in {"newPlayer", "deletePlayer"} THEN {it} ELSE {}
  <2>1. ObjectsOK
    BY DEF DebugInv
  <2>2. ToSet(players) = PlayerIDs
    BY DEF ToSet, PlayerIDs
  <2>3. IsInjective(players) /\ IsInjective(g_SessionList)
    BY <2>1 DEF ObjectsOK, IsInjective
  <2>4. ToSet(g_SessionList) \ at = PlayerIDs \ at
    BY <2>1 DEF ObjectsOK
  <2> HIDE DEF players
  <2>5. ToSet(g_SessionList) \ at = ToSet(players) \ at
    BY <2>2, <2>4
  <2> QED BY <2>3, <2>5 DEF OnePlayerEach, players
<1> QED BY <1>1, DebugInvariance, PTL

\* begin() and pop_front inside the critical sections of LockAccept,
\* LockDisconnect and LockAction never meet an empty list, although empty() is
\* asked outside of them and counts a packet that is not linked yet.
THEOREM PopsFindPacketsAlways == Spec => []PopsFindPackets
<1>1. DebugInv => PopsFindPackets
  <2> SUFFICES ASSUME DebugInv PROVE PopsFindPackets
    OBVIOUS
  <2>1. \A q \in Packets : Len(list[q]) > 0 => list[q] # <<>>
    BY EmptySeq
  <2>2. {"Accept", "Disconnect", "Action"} \subseteq Packets
    BY DEF Packets
  <2> QED BY <2>1, <2>2, PopsFind DEF DebugInv, PopsFindPackets
<1> QED BY <1>1, DebugInvariance, PTL
=============================================================================
