------------------------------ MODULE IocpEcho ------------------------------
(***************************************************************************)
(* "22.11.17 - IOCP_ECHO_Server/Server.cpp": one connection of the echo    *)
(* server, from AcceptFunc to Release_Session.  WORKER_NUM worker threads  *)
(* take completions off one port; what keeps a session alive is io_count,  *)
(* one for each overlapped call in flight and one for the worker that      *)
(* handles a completion, and what keeps one WSASend in flight is           *)
(* send_flag.                                                              *)
(*                                                                         *)
(* External: Windows (the socket and the completion port, first in, first  *)
(* out) and J_LIB (RingBuffer, a byte queue that never fills here;         *)
(* ObjectPool).  The client sends the bytes 1, 2, ... MaxBytes in order,   *)
(* and may close, or the connection may be reset.                          *)
(***************************************************************************)
EXTENDS Integers, Sequences, FiniteSets, SequencesExt

CONSTANTS Workers,   \* the WORKER_NUM threads of workerThread_Pool
          MaxBytes   \* bound: bytes the client sends

ASSUME EchoAssumption == MaxBytes \in Nat /\ IsFiniteSet(Workers)

VARIABLES
  (* the client and the socket *)
  sentBytes,   \* how many bytes the client has sent
  net,         \* bytes the socket has received and no WSARecv has taken
  closed,      \* the client has sent FIN
  reset,       \* the connection is reset
  wire,        \* the bytes echoed, in order
  (* the overlapped calls *)
  recvPosted,  \* a WSARecv is in flight
  sendPosted,  \* -1, or the bytes of the WSASend in flight
  port,        \* the completions not yet taken: [io, size, ok]
  (* Session *)
  io_count, send_flag, send_buf,
  state,       \* "none", "live", "released"
  (* the threads *)
  acc,         \* the statement AcceptFunc is at
  stmt,          \* the statement each worker is at
  packet,      \* the contents_packet of each worker
  queued,      \* history: all that was put into send_buf
  thrown       \* a worker threw: the process is gone

client == <<sentBytes, closed, reset>>
kernel == <<net, wire, recvPosted, sendPosted, port>>
session == <<io_count, send_flag, send_buf, state>>
threads == <<acc, stmt, packet>>
ghosts == <<queued, thrown>>
echoVars == <<client, kernel, session, threads, ghosts>>

Completion(io, size, ok) == [io |-> io, size |-> size, ok |-> ok]

EchoInit ==
  /\ sentBytes = 0 /\ net = <<>> /\ closed = FALSE /\ reset = FALSE
  /\ wire = <<>>
  /\ recvPosted = FALSE /\ sendPosted = -1 /\ port = <<>>
  /\ io_count = 0 /\ send_flag = FALSE /\ send_buf = <<>>
  /\ state = "none"
  /\ acc = "accept"
  /\ stmt = [w \in Workers |-> "gqcs"]
  /\ packet = [w \in Workers |-> <<>>]
  /\ queued = <<>>
  /\ thrown = FALSE

-----------------------------------------------------------------------------
(* The client and the kernel *)

ClientSends ==
  /\ state # "released" /\ ~closed /\ ~reset
  /\ sentBytes < MaxBytes
  /\ sentBytes' = sentBytes + 1
  /\ net' = Append(net, sentBytes + 1)
  /\ UNCHANGED <<closed, reset, wire, recvPosted, sendPosted, port, session,
                 threads, ghosts>>

ClientCloses ==
  /\ state # "released" /\ ~closed /\ ~reset
  /\ closed' = TRUE
  /\ UNCHANGED <<sentBytes, reset, kernel, session, threads, ghosts>>

\* What the socket held is lost with the connection.
ConnectionResets ==
  /\ state # "released" /\ ~reset
  /\ reset' = TRUE
  /\ net' = <<>>
  /\ UNCHANGED <<sentBytes, closed, wire, recvPosted, sendPosted, port,
                 session, threads, ghosts>>

\* The WSARecv in flight completes: with some of the bytes that have come,
\* with 0 after FIN, or with an error.
RecvCompletes ==
  /\ recvPosted
  /\ recvPosted' = FALSE
  /\ \/ \E n \in 1..Len(net) :
          /\ port' = Append(port, Completion("recv", SubSeq(net, 1, n), TRUE))
          /\ net' = SubSeq(net, n + 1, Len(net))
     \/ /\ net = <<>> /\ (closed \/ reset)
        /\ port' = Append(port, Completion("recv", <<>>, ~reset))
        /\ UNCHANGED net
  /\ UNCHANGED <<client, wire, sendPosted, session, threads, ghosts>>

\* The WSASend in flight completes: with all its bytes, or with an error.
SendCompletes ==
  /\ sendPosted >= 0
  /\ sendPosted' = -1
  /\ LET bytes == SubSeq(send_buf, 1, sendPosted) IN
       IF reset
         THEN /\ port' = Append(port, Completion("send", <<>>, FALSE))
              /\ UNCHANGED wire
         ELSE /\ port' = Append(port, Completion("send", bytes, TRUE))
              /\ wire' = wire \o bytes
  /\ UNCHANGED <<client, net, recvPosted, session, threads, ghosts>>

-----------------------------------------------------------------------------
(* AcceptFunc *)

\* accept, Get_SessionID, Alloc, Clear, Set, and the port is bound.
Accept ==
  /\ acc = "accept"
  /\ state' = "live"
  /\ acc' = "postRecv"
  /\ UNCHANGED <<client, kernel, io_count, send_flag, send_buf, stmt,
                 packet, ghosts>>

\* Post_Recv: io_count++ before the call.
AcceptCounts ==
  /\ acc = "postRecv"
  /\ io_count' = io_count + 1
  /\ acc' = "wsaRecv"
  /\ UNCHANGED <<client, kernel, send_flag, send_buf, state, stmt, packet,
                 ghosts>>

\* WSARecv; when it fails the count is taken back, and a session nobody
\* counts any more is released.  When it does not, the accept thread has no
\* count any more, and is not done with the session yet.
AcceptPosts ==
  /\ acc = "wsaRecv"
  /\ IF reset
       THEN /\ acc' = "done"
            /\ io_count' = io_count - 1
            /\ state' = IF io_count = 1 THEN "released" ELSE state
            /\ UNCHANGED recvPosted
       ELSE /\ acc' = "print"
            /\ recvPosted' = TRUE
            /\ UNCHANGED <<io_count, state>>
  /\ UNCHANGED <<client, net, wire, sendPosted, port, send_flag, send_buf,
                 stmt, packet, ghosts>>

\* Post_Recv: the printf after WSARecv reads p_session->sock, which may be
\* another connection's by now, and changes nothing.
AcceptPrints ==
  /\ acc = "print"
  /\ acc' = "done"
  /\ UNCHANGED <<client, kernel, session, stmt, packet, ghosts>>

-----------------------------------------------------------------------------
(* WorkerFunc *)

GoesTo(w, from, to) ==
  /\ stmt[w] = from
  /\ stmt' = [stmt EXCEPT ![w] = to]

\* Mutant: what was sent does not leave send_buf.
TakeUnmoved(w) ==
  LET c == Head(port) IN
  /\ port # <<>>
  /\ port' = Tail(port)
  /\ GoesTo(w, "gqcs", CASE c.size = <<>> \/ ~c.ok -> "decrement"
                       [] c.io = "recv" -> "postRecv"
                       [] c.io = "send" -> "flag")
  /\ packet' = [packet EXCEPT ![w] = IF c.io = "recv" THEN c.size ELSE @]
  /\ UNCHANGED <<client, net, wire, recvPosted, sendPosted, session, acc,
                 ghosts>>

\* GetQueuedCompletionStatus: a size of 0 is taken for FIN, and an error is
\* only logged; what was received becomes the packet (Move_Rear, then Dequeue
\* of all), what was sent leaves send_buf (Move_Front).
TakeCompletion(w) ==
  LET c == Head(port) IN
  /\ port # <<>>
  /\ port' = Tail(port)
  /\ GoesTo(w, "gqcs", CASE c.size = <<>> \/ ~c.ok -> "decrement"
                       [] c.io = "recv" -> "postRecv"
                       [] c.io = "send" -> "flag")
  /\ packet' = [packet EXCEPT ![w] = IF c.io = "recv" THEN c.size ELSE @]
  /\ send_buf' = IF c.io = "send"
                   THEN SubSeq(send_buf, Len(c.size) + 1, Len(send_buf))
                   ELSE send_buf
  /\ UNCHANGED <<client, net, wire, recvPosted, sendPosted, io_count,
                 send_flag, state, acc, ghosts>>

\* Mutant: the next WSARecv is not counted.
RecvUncounted(w) ==
  /\ GoesTo(w, "postRecv", "wsaRecv")
  /\ UNCHANGED <<client, kernel, session, acc, packet, ghosts>>

\* Post_Recv: io_count++
RecvCounts(w) ==
  /\ GoesTo(w, "postRecv", "wsaRecv")
  /\ io_count' = io_count + 1
  /\ UNCHANGED <<client, kernel, send_flag, send_buf, state, acc, packet,
                 ghosts>>

\* WSARecv is posted: from here on another worker may receive.
RecvPosted(w) ==
  /\ GoesTo(w, "wsaRecv", "onRecv")
  /\ ~reset
  /\ recvPosted' = TRUE
  /\ UNCHANGED <<client, net, wire, sendPosted, port, session, acc,
                 packet, ghosts>>

\* WSARecv fails: Post_Recv takes its count back and returns false, and
\* Recv_Completion throws, in a thread that catches nothing.
RecvFails(w) ==
  /\ GoesTo(w, "wsaRecv", "thrown")
  /\ reset
  /\ io_count' = io_count - 1
  /\ state' = IF io_count = 1 THEN "released" ELSE state
  /\ thrown' = TRUE
  /\ UNCHANGED <<client, kernel, send_flag, send_buf, acc, packet,
                 queued>>

\* OnRecv: Send_Packet puts the packet into send_buf, under the lock.
OnRecv(w) ==
  /\ GoesTo(w, "onRecv", "postSend")
  /\ send_buf' = send_buf \o packet[w]
  /\ queued' = queued \o packet[w]
  /\ packet' = [packet EXCEPT ![w] = <<>>]
  /\ UNCHANGED <<client, kernel, io_count, send_flag, state, acc, thrown>>

\* Send_Completion: InterlockedExchange8(send_flag, false)
ClearFlag(w) ==
  /\ GoesTo(w, "flag", "empty")
  /\ send_flag' = FALSE
  /\ UNCHANGED <<client, kernel, io_count, send_buf, state, acc, packet,
                 ghosts>>

\* Send_Completion: if send_buf.Empty() return
TestEmpty(w) ==
  /\ GoesTo(w, "empty", IF send_buf = <<>> THEN "decrement" ELSE "postSend")
  /\ UNCHANGED <<client, kernel, session, acc, packet, ghosts>>

\* Post_Send: InterlockedExchange8(send_flag, true)
SetFlag(w) ==
  /\ GoesTo(w, "postSend", IF send_flag THEN "decrement" ELSE "sendCount")
  /\ send_flag' = TRUE
  /\ UNCHANGED <<client, kernel, io_count, send_buf, state, acc, packet,
                 ghosts>>

SendCounts(w) ==
  /\ GoesTo(w, "sendCount", "wsaSend")
  /\ io_count' = io_count + 1
  /\ UNCHANGED <<client, kernel, send_flag, send_buf, state, acc, packet,
                 ghosts>>

\* IOCP_Send: WSASend of all that send_buf holds.
SendPosted(w) ==
  /\ GoesTo(w, "wsaSend", "decrement")
  /\ ~reset
  /\ sendPosted' = Len(send_buf)
  /\ UNCHANGED <<client, net, wire, recvPosted, port, session, acc,
                 packet, ghosts>>

\* Mutant: the count of a failed WSASend is kept.
SendFailsCounted(w) ==
  /\ GoesTo(w, "wsaSend", "decrement")
  /\ reset
  /\ UNCHANGED <<client, kernel, session, acc, packet, ghosts>>

SendFails(w) ==
  /\ GoesTo(w, "wsaSend", "decrement")
  /\ reset
  /\ io_count' = io_count - 1
  /\ state' = IF io_count = 1 THEN "released" ELSE state
  /\ UNCHANGED <<client, kernel, send_flag, send_buf, acc, packet,
                 ghosts>>

\* Mutant: the value before the decrement is compared with 0.
DecrementLate(w) ==
  /\ GoesTo(w, "decrement", "gqcs")
  /\ io_count' = io_count - 1
  /\ state' = IF io_count = 0 THEN "released" ELSE state
  /\ packet' = [packet EXCEPT ![w] = <<>>]
  /\ UNCHANGED <<client, kernel, send_flag, send_buf, acc, ghosts>>

\* Decrement_IOCount, and Release_Session by whoever takes the last count.
Decrement(w) ==
  /\ GoesTo(w, "decrement", "gqcs")
  /\ io_count' = io_count - 1
  /\ state' = IF io_count = 1 THEN "released" ELSE state
  /\ packet' = [packet EXCEPT ![w] = <<>>]
  /\ UNCHANGED <<client, kernel, send_flag, send_buf, acc, ghosts>>

WorkerStep(w) ==
  \/ TakeCompletion(w)
  \/ RecvCounts(w)
  \/ RecvPosted(w)
  \/ RecvFails(w)
  \/ OnRecv(w)
  \/ ClearFlag(w)
  \/ TestEmpty(w)
  \/ SetFlag(w)
  \/ SendCounts(w)
  \/ SendPosted(w)
  \/ SendFails(w)
  \/ Decrement(w)

AcceptStep == Accept \/ AcceptCounts \/ AcceptPosts \/ AcceptPrints

KernelStep == RecvCompletes \/ SendCompletes

ClientStep == ClientSends \/ ClientCloses \/ ConnectionResets

EchoNext ==
  /\ ~thrown
  /\ \/ AcceptStep
     \/ \E w \in Workers : WorkerStep(w)
     \/ KernelStep
     \/ ClientStep

EchoSpec == EchoInit /\ [][EchoNext]_echoVars

\* The threads are scheduled and overlapped calls complete; the client does
\* as it likes.
EchoFairSpec ==
  /\ EchoSpec
  /\ WF_echoVars(~thrown /\ AcceptStep)
  /\ WF_echoVars(~thrown /\ RecvCompletes)
  /\ WF_echoVars(~thrown /\ SendCompletes)
  /\ \A w \in Workers : WF_echoVars(~thrown /\ WorkerStep(w))

-----------------------------------------------------------------------------
(* Properties *)

Bytes == 1..MaxBytes

\* The workers at one of these statements.
WorkersAt(statements) == {w \in Workers : stmt[w] \in statements}

\* The overlapped calls of one kind that Windows has not handed back yet.
InFlight(io) ==
  Cardinality({i \in DOMAIN port : port[i].io = io})
  + (IF io = "recv" THEN IF recvPosted THEN 1 ELSE 0
                    ELSE IF sendPosted >= 0 THEN 1 ELSE 0)

\* The workers inside the handling of a completion.
Busy == {w \in Workers : stmt[w] # "gqcs"}

\* A count is held for every call in flight, every completion being handled
\* and every call about to be made, and no other.
IoCountExact ==
  ~thrown =>
    io_count = InFlight("recv") + InFlight("send") + Cardinality(Busy)
               + Cardinality(WorkersAt({"wsaRecv", "wsaSend"}))
               + (IF acc = "wsaRecv" THEN 1 ELSE 0)

\* Release_Session runs when nothing refers to the session any more: no call
\* is in flight whose OVERLAPPED would be freed, and no thread will use it, but
\* for the accept thread's printf: it may still be to read the socket's number
\* for its last line ("print").
ReleasedUnused ==
  state = "released" =>
    /\ InFlight("recv") = 0 /\ InFlight("send") = 0
    /\ Busy = {} /\ acc \in {"print", "done"}

\* recv_overlapped and send_overlapped are each used by one call at a time,
\* and while a WSARecv is under way no worker is in recv_buf.
OneCallEach ==
  /\ InFlight("recv") + Cardinality(WorkersAt({"postRecv", "wsaRecv"})) <= 1
  /\ InFlight("send") + Cardinality(WorkersAt({"flag", "sendCount", "wsaSend"})) <= 1

\* What leaves the socket is what was put into send_buf, in that order,
\* nothing twice and nothing skipped, whoever posts the sends.
WireIsQueued == IsPrefix(wire, queued)

\* Server.cpp:236 "그대로 에코하면됨" (echo as is), the order: the bytes come
\* back as they were sent.  It is not so: the next WSARecv is posted before this
\* packet is put into send_buf, and the second worker may put its own there
\* first.
EchoInOrder == \A i \in DOMAIN wire : wire[i] = i

\* Server.cpp:236, that everything comes back to a client that stays connected.
\* It is not so: when Empty() is asked after send_flag was given up, a second
\* worker can send all of send_buf in between; the completion of the WSASend of
\* 0 bytes that follows is taken for FIN, and send_flag stays set for ever.
EverythingEchoed ==
  \A n \in Bytes : sentBytes >= n ~> Len(wire) >= n \/ closed \/ reset

\* A session whose client has closed, or whose connection was reset, is
\* released in the end, or the next WSARecv could not be posted and the
\* throw of Recv_Completion ended the process.
ClosedIsReleased == closed \/ reset ~> state = "released" \/ thrown

=============================================================================
