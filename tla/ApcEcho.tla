------------------------------- MODULE ApcEcho -------------------------------
(***************************************************************************)
(* "22.11.02 - IO_PENDING count Server/Server.cpp": an echo server of two  *)
(* threads.  AcceptProc makes sessions and hands their ids over through    *)
(* recvJob_queue and recv_event; RecvProc posts their WSARecvs, and runs   *)
(* their completion routine Recv_APC while it waits.  One OVERLAPPED, one  *)
(* recv_buf and one send_buf serve all calls of a session.                 *)
(*                                                                         *)
(* External: Windows.  A WSASend takes its bytes at once, or stays in      *)
(* flight and takes them from send_buf later; a call that completes writes *)
(* the number of its bytes into the OVERLAPPED, and a completion routine   *)
(* is given the number that stands there when it runs.  The client of      *)
(* session s sends the bytes 1, 2, ... in order.                           *)
(***************************************************************************)
EXTENDS Integers, Sequences, FiniteSets

CONSTANTS BufLen,     \* the size of recv_buf and of send_buf: 1024
          MaxClients, \* bound: connections that come
          MaxSent,    \* bound: bytes the client of each session sends
          MaxLater    \* bound: WSASends of a session left in flight

ASSUME ApcAssumption ==
  /\ BufLen \in Nat \ {0} /\ MaxClients \in Nat
  /\ MaxSent \in [1..MaxClients -> Nat] /\ MaxLater \in Nat

SessionIds == 1..MaxClients

VARIABLES
  (* AcceptProc *)
  accepting,      \* the statement it is at
  accept_id,      \* the last id of Get_SessionID
  (* shared *)
  session_map, recvJob_queue, recv_event,
  shutdown,       \* written by main, read by nobody
  (* RecvProc *)
  recving,        \* the statement it is at
  job,            \* id, or the session of Recv_APC; 0 outside their blocks
  cbTransferred,  \* as well
  (* Session *)
  overlapped,     \* the number of bytes in it
  recv_buf, send_buf,
  (* the sockets *)
  sent,           \* how many bytes each client has sent
  inbox,          \* those that no WSARecv has taken
  fin, broken,    \* the sessions whose client closed, whose connection is gone
  echoed,         \* the bytes that went back
  (* the calls *)
  posted,         \* the sessions with a WSARecv in flight
  apcs,           \* the sessions whose Recv_APC is due, in order
  pending,        \* the lengths of the WSASends in flight of each session
  later           \* history: how many WSASends of each were left in flight

acceptProc == <<accepting, accept_id>>
shared == <<session_map, recvJob_queue, recv_event, shutdown>>
recvProc == <<recving, job, cbTransferred>>
buffers == <<overlapped, recv_buf, send_buf>>
sockets == <<sent, inbox, fin, broken, echoed>>
calls == <<posted, apcs, pending, later>>
apcVars == <<acceptProc, shared, recvProc, buffers, sockets, calls>>

ApcInit ==
  /\ accepting = "accept" /\ accept_id = 0
  /\ session_map = {} /\ recvJob_queue = <<>> /\ recv_event = FALSE
  /\ shutdown = FALSE
  /\ recving = "wait" /\ job = 0 /\ cbTransferred = 0
  /\ overlapped = [s \in SessionIds |-> 0]
  /\ recv_buf = [s \in SessionIds |-> [i \in 1..BufLen |-> 0]]
  /\ send_buf = [s \in SessionIds |-> [i \in 1..BufLen |-> 0]]
  /\ sent = [s \in SessionIds |-> 0] /\ inbox = [s \in SessionIds |-> <<>>]
  /\ fin = {} /\ broken = {} /\ echoed = [s \in SessionIds |-> <<>>]
  /\ posted = {} /\ apcs = <<>>
  /\ pending = [s \in SessionIds |-> <<>>] /\ later = [s \in SessionIds |-> 0]

\* A buffer after its first n bytes were written.
First(n, from, to) == [i \in 1..BufLen |-> IF i <= n THEN from[i] ELSE to[i]]

-----------------------------------------------------------------------------
(* The clients and the sockets *)

ClientSends ==
  \E s \in 1..accept_id \ (fin \cup broken) :
    /\ sent[s] < MaxSent[s]
    /\ sent' = [sent EXCEPT ![s] = @ + 1]
    /\ inbox' = [inbox EXCEPT ![s] = Append(@, sent[s] + 1)]
    /\ UNCHANGED <<acceptProc, shared, recvProc, buffers, fin, broken, echoed,
                   calls>>

ClientCloses ==
  \E s \in 1..accept_id \ (fin \cup broken) :
    /\ fin' = fin \cup {s}
    /\ UNCHANGED <<acceptProc, shared, recvProc, buffers, sent, inbox, broken,
                   echoed, calls>>

\* The connection is gone, and with it what was under way on it.
ConnectionBreaks ==
  \E s \in 1..accept_id \ broken :
    /\ broken' = broken \cup {s}
    /\ inbox' = [inbox EXCEPT ![s] = <<>>]
    /\ pending' = [pending EXCEPT ![s] = <<>>]
    /\ UNCHANGED <<acceptProc, shared, recvProc, buffers, sent, fin, echoed,
                   posted, apcs, later>>

\* A WSARecv completes: with what has come, as much as recv_buf holds, or with
\* 0 bytes when nothing will come any more.
RecvCompletes(s) ==
  /\ s \in posted
  /\ posted' = posted \ {s}
  /\ apcs' = Append(apcs, s)
  /\ \/ \E n \in 1..Len(inbox[s]) :
          /\ n <= BufLen
          /\ recv_buf' = [recv_buf EXCEPT ![s] = First(n, inbox[s], @)]
          /\ inbox' = [inbox EXCEPT ![s] = SubSeq(@, n + 1, Len(@))]
          /\ overlapped' = [overlapped EXCEPT ![s] = n]
     \/ /\ inbox[s] = <<>> /\ s \in fin \cup broken
        /\ overlapped' = [overlapped EXCEPT ![s] = 0]
        /\ UNCHANGED <<recv_buf, inbox>>
  /\ UNCHANGED <<acceptProc, shared, recvProc, send_buf, sent, fin, broken,
                 echoed, pending, later>>

\* A WSASend in flight takes its bytes from send_buf as it is by now.
SendCompletes(s) ==
  /\ pending[s] # <<>>
  /\ LET len == Head(pending[s]) IN
       /\ echoed' = [echoed EXCEPT ![s] = @ \o SubSeq(send_buf[s], 1, len)]
       /\ overlapped' = [overlapped EXCEPT ![s] = len]
  /\ pending' = [pending EXCEPT ![s] = Tail(@)]
  /\ UNCHANGED <<acceptProc, shared, recvProc, recv_buf, send_buf, sent, inbox,
                 fin, broken, posted, apcs, later>>

Completes == \E s \in SessionIds : RecvCompletes(s) \/ SendCompletes(s)

-----------------------------------------------------------------------------
(* AcceptProc *)

AcceptGoto(from, to) == accepting = from /\ accepting' = to

\* accept, Get_SessionID, Alloc, Clear and Set
Accepts ==
  /\ accept_id < MaxClients
  /\ AcceptGoto("accept", "insert")
  /\ accept_id' = accept_id + 1
  /\ UNCHANGED <<shared, recvProc, buffers, sockets, calls>>

AcceptFails ==
  /\ AcceptGoto("accept", "ended")
  /\ UNCHANGED <<accept_id, shared, recvProc, buffers, sockets, calls>>

\* session_map.insert, without a lock: from here until it is done a find of
\* RecvProc may fall into it.
InsertBegins ==
  /\ AcceptGoto("insert", "inserting")
  /\ UNCHANGED <<accept_id, shared, recvProc, buffers, sockets, calls>>

InsertEnds ==
  /\ AcceptGoto("inserting", "push")
  /\ session_map' = session_map \cup {accept_id}
  /\ UNCHANGED <<accept_id, recvJob_queue, recv_event, shutdown, recvProc,
                 buffers, sockets, calls>>

\* recvJob_queue.push, under recvQ_lock
PushAccepted ==
  /\ AcceptGoto("push", "signal")
  /\ recvJob_queue' = Append(recvJob_queue, accept_id)
  /\ UNCHANGED <<accept_id, session_map, recv_event, shutdown, recvProc,
                 buffers, sockets, calls>>

\* Mutant: recv_event is not set.
NoSignal ==
  /\ AcceptGoto("signal", "accept")
  /\ UNCHANGED <<accept_id, shared, recvProc, buffers, sockets, calls>>

\* SetEvent(recv_event)
Signals ==
  /\ AcceptGoto("signal", "accept")
  /\ recv_event' = TRUE
  /\ UNCHANGED <<accept_id, session_map, recvJob_queue, shutdown, recvProc,
                 buffers, sockets, calls>>

AcceptProc == InsertBegins \/ InsertEnds \/ PushAccepted \/ Signals

\* main: 'q' sets shutdown, which neither loop looks at, and recv_event.
TypedQ ==
  /\ ~shutdown
  /\ shutdown' = TRUE /\ recv_event' = TRUE
  /\ UNCHANGED <<acceptProc, session_map, recvJob_queue, recvProc, buffers,
                 sockets, calls>>

-----------------------------------------------------------------------------
(* RecvProc *)

RecvGoto(from, to) == recving = from /\ recving' = to

\* WaitForSingleObjectEx returns for the event, which is reset; or it runs the
\* completion routines that are due.  WAIT_IO_COMPLETION, a constant that is
\* not 0, is all that is tested after it, so the inner loop ends either way.
Wakes ==
  /\ recv_event
  /\ RecvGoto("wait", "empty")
  /\ recv_event' = FALSE
  /\ UNCHANGED <<acceptProc, session_map, recvJob_queue, shutdown, job,
                 cbTransferred, buffers, sockets, calls>>

\* Recv_APC is called for the next session; for 0 bytes it returns, and the
\* session is never received from again.
ApcBegins ==
  /\ recving \in {"wait", "apcs"}
  /\ apcs # <<>>
  /\ apcs' = Tail(apcs)
  /\ cbTransferred' = overlapped[Head(apcs)]
  /\ IF cbTransferred' = 0
       THEN job' = 0 /\ recving' = "apcs"
       ELSE job' = Head(apcs) /\ recving' = "copy"
  /\ UNCHANGED <<acceptProc, shared, buffers, sockets, posted, pending, later>>

ApcsDone ==
  /\ RecvGoto("apcs", "empty")
  /\ apcs = <<>>
  /\ UNCHANGED <<acceptProc, shared, job, cbTransferred, buffers, sockets,
                 calls>>

\* The 0 after the bytes received, and memmove.  Behind a full recv_buf the 0
\* falls on the first byte of send_buf, which memmove writes next.
Copies ==
  /\ RecvGoto("copy", "send")
  /\ send_buf' = [send_buf EXCEPT ![job] = First(cbTransferred, recv_buf[job], @)]
  /\ recv_buf' = IF cbTransferred = BufLen
                   THEN recv_buf
                   ELSE [recv_buf EXCEPT ![job][cbTransferred + 1] = 0]
  /\ UNCHANGED <<acceptProc, shared, job, cbTransferred, overlapped, sockets,
                 calls>>

\* WSASend: at once, left in flight, or failed; then the session is not
\* received from any more.
SendsNow ==
  /\ RecvGoto("send", "apcPush")
  /\ job \notin broken /\ pending[job] = <<>>
  /\ echoed' = [echoed EXCEPT ![job] =
                  @ \o SubSeq(send_buf[job], 1, cbTransferred)]
  /\ overlapped' = [overlapped EXCEPT ![job] = cbTransferred]
  /\ UNCHANGED <<acceptProc, shared, job, cbTransferred, recv_buf, send_buf,
                 sent, inbox, fin, broken, calls>>

SendsLater ==
  /\ RecvGoto("send", "apcPush")
  /\ job \notin broken
  /\ pending' = [pending EXCEPT ![job] = Append(@, cbTransferred)]
  /\ later[job] < MaxLater
  /\ later' = [later EXCEPT ![job] = @ + 1]
  /\ UNCHANGED <<acceptProc, shared, job, cbTransferred, buffers, sockets,
                 posted, apcs>>

SendFails ==
  /\ RecvGoto("send", "apcs")
  /\ job \in broken
  /\ job' = 0 /\ cbTransferred' = 0
  /\ UNCHANGED <<acceptProc, shared, buffers, sockets, calls>>

\* recvJob_queue.push, under recvQ_lock, and Recv_APC returns
ApcPush ==
  /\ RecvGoto("apcPush", "apcs")
  /\ recvJob_queue' = Append(recvJob_queue, job)
  /\ job' = 0 /\ cbTransferred' = 0
  /\ UNCHANGED <<acceptProc, session_map, recv_event, shutdown, buffers,
                 sockets, calls>>

\* while (!recvJob_queue.empty()), without the lock
TestEmpty ==
  /\ RecvGoto("empty", IF recvJob_queue = <<>> THEN "wait" ELSE "take")
  /\ UNCHANGED <<acceptProc, shared, job, cbTransferred, buffers, sockets,
                 calls>>

\* Mutant: front() without pop().
TakeKept ==
  /\ RecvGoto("take", "find")
  /\ job' = Head(recvJob_queue)
  /\ UNCHANGED <<acceptProc, shared, cbTransferred, buffers, sockets, calls>>

\* front and pop, under recvQ_lock
Takes ==
  /\ RecvGoto("take", "find")
  /\ job' = Head(recvJob_queue)
  /\ recvJob_queue' = Tail(recvJob_queue)
  /\ UNCHANGED <<acceptProc, session_map, recv_event, shutdown, cbTransferred,
                 buffers, sockets, calls>>

\* session_map.find(id)->second; in the middle of an insert it may find
\* nothing, and what end() points to is no session.
Finds ==
  /\ \/ job \in session_map /\ RecvGoto("find", "post")
     \/ accepting = "inserting" /\ RecvGoto("find", "crashed")
  /\ UNCHANGED <<acceptProc, shared, job, cbTransferred, buffers, sockets,
                 calls>>

\* ZeroMemory and WSARecv, which fails on a connection that is gone
Posts ==
  /\ RecvGoto("post", "empty")
  /\ overlapped' = [overlapped EXCEPT ![job] = 0]
  /\ posted' = IF job \in broken THEN posted ELSE posted \cup {job}
  /\ job' = 0
  /\ UNCHANGED <<acceptProc, shared, cbTransferred, recv_buf, send_buf,
                 sockets, apcs, pending, later>>

RecvProc ==
  \/ Wakes \/ ApcBegins \/ ApcsDone \/ Copies
  \/ SendsNow \/ SendsLater \/ SendFails \/ ApcPush
  \/ TestEmpty \/ Takes \/ Finds \/ Posts

ApcNext ==
  /\ recving # "crashed"
  /\ \/ Accepts \/ AcceptFails \/ AcceptProc \/ TypedQ
     \/ RecvProc
     \/ ClientSends \/ ClientCloses \/ ConnectionBreaks
     \/ Completes

ApcSpec == ApcInit /\ [][ApcNext]_apcVars

\* The threads run and what is in flight completes, for the clients read what
\* is echoed; whether clients connect, send, close or break off is up to them.
ApcFairSpec ==
  /\ ApcSpec
  /\ WF_apcVars(recving # "crashed" /\ AcceptProc)
  /\ WF_apcVars(recving # "crashed" /\ RecvProc)
  /\ WF_apcVars(recving # "crashed" /\ Completes)

-----------------------------------------------------------------------------
(* Properties *)

Bit(b) == IF b THEN 1 ELSE 0
Places(q, s) == Cardinality({i \in DOMAIN q : q[i] = s})

\* Where the turn of session s to be received from is: with AcceptProc, in
\* recvJob_queue, with RecvProc or Recv_APC, in flight, or due.
Turns(s) ==
  Bit(accept_id = s /\ accepting \in {"insert", "inserting", "push"})
  + Places(recvJob_queue, s)
  + Bit(job = s /\ recving \in {"find", "post", "copy", "send", "apcPush", "crashed"})
  + Bit(s \in posted)
  + Places(apcs, s)

\* A session waits for its WSARecv, is being received from or is being echoed
\* once at a time, so that no second WSARecv is posted into its recv_buf and
\* OVERLAPPED, and is dropped only when its client closed or its connection
\* broke, though a WSASend in flight writes into the same OVERLAPPED.
OneTurn ==
  \A s \in 1..accept_id :
    /\ Turns(s) <= 1
    /\ Turns(s) = 0 => s \in fin \cup broken

\* All that the client of session s has sent has come back, in order, or its
\* connection broke, or a WSASend of it was ever left in flight (later counts
\* them): whether or not the next bytes were then put into its send_buf over
\* those still to leave, nothing is claimed of that session.
Back(s) ==
  \/ echoed[s] = [i \in 1..sent[s] |-> i]
  \/ s \in broken
  \/ later[s] > 0

\* recv_event, recvJob_queue and the completion routines: no session is left
\* without its WSARecv while its client sends, whatever the two threads are
\* at, unless a find fell into an insert.
AllEchoed == []<>((\A s \in SessionIds : Back(s)) \/ recving = "crashed")
=============================================================================
