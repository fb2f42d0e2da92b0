----------------------------- MODULE SessionTable -----------------------------
(***************************************************************************)
(* "22.11.17 - IOCP_ECHO_Server/Server.cpp": what all connections share.   *)
(* session_array says which session uses a slot, sessionIndex_stack which  *)
(* slots are free, session_pool which Session objects are.  The accept     *)
(* thread takes a slot and an object, and whoever drops the last count of  *)
(* a session (a worker, or the accept thread) gives them back, with no     *)
(* lock around any of it.                                                  *)
(*                                                                         *)
(* What happens inside one connection is in IocpEcho; here a session has   *)
(* at most a WSARecv and a WSASend in flight, and is released when none is *)
(* left and no worker handles a completion of it, as IocpEcho shows.       *)
(*                                                                         *)
(* sessionIndex_stack is a std::stack: an array and a size, whose          *)
(* increment and decrement are a load and a store.  External: accept, the  *)
(* completion port, and J_LIB's ObjectPool, taken to be safe for threads;  *)
(* Alloc may return any object that is not in use.                         *)
(***************************************************************************)
EXTENDS Integers, FiniteSets

CONSTANTS Workers,     \* workerThread_Pool
          Acceptor,    \* acceptThread
          Sessions,    \* the Session objects the pool can hold
          SessionMax,  \* SESSION_MAX
          UniqueMod,   \* unique is a DWORD: 2^32
          MaxAccepts,  \* bound: connections that come
          NULL

ASSUME TableAssumption ==
  /\ SessionMax \in Nat \ {0} /\ UniqueMod \in Nat \ {0} /\ MaxAccepts \in Nat
  /\ Acceptor \notin Workers /\ NULL \notin Sessions
  /\ IsFiniteSet(Workers)

Threads == Workers \cup {Acceptor}
Index == 0..SessionMax - 1
Id(i, u) == [index |-> i, unique |-> u]
INVALID == Id(0, 0)

VARIABLES
  session_array,
  top, size,      \* sessionIndex_stack
  unique,         \* the static of Get_SessionID
  inUse,          \* the objects session_pool has given out
  session_id,     \* of each object
  calls,          \* the overlapped calls in flight on each session
  pc,             \* the statement each thread is at
  at,             \* the session each thread works on
  reg,            \* the size a thread has loaded
  newId,          \* Get_SessionID's session_id
  accepts,        \* how many connections have come
  lost,           \* history: slots given up with an INVALID_SESSION_ID
  races           \* history: what two threads have met in

tables == <<session_array, inUse, session_id, calls>>
stack == <<top, size>>
vars == <<tables, stack, unique, pc, at, reg, newId, accepts, lost, races>>

\* SESSION_LAST_INDEX is pushed first.
Init ==
  /\ session_array = [i \in Index |-> NULL]
  /\ top = [n \in 1..SessionMax + MaxAccepts |->
              IF n <= SessionMax THEN SessionMax - n ELSE 0]
  /\ size = SessionMax
  /\ unique = 1 % UniqueMod
  /\ inUse = {}
  /\ session_id = [p \in Sessions |-> INVALID]
  /\ calls = [p \in Sessions |-> {}]
  /\ pc = [t \in Threads |-> IF t = Acceptor THEN "accept" ELSE "gqcs"]
  /\ at = [t \in Threads |-> NULL]
  /\ reg = [t \in Threads |-> 0]
  /\ newId = INVALID
  /\ accepts = 0 /\ lost = {} /\ races = {}

\* The threads between the first and the last access of one use of the stack.
InStack == {t \in Threads : pc[t] \in {"top", "popLoad", "popStore",
                                       "pushLoad", "pushStore"}}

\* The threads that still read a session they have given back.
Reading(p) == {t \in Threads : at[t] = p /\ pc[t] \in {"null", "push"}}

\* A thread goes on; if it now shares the stack with another, they race.
Goto(t, from, to) ==
  /\ pc[t] = from
  /\ pc' = [pc EXCEPT ![t] = to]
  /\ races' = IF Cardinality(InStack \cup (InStack')) > 1
                THEN races \cup {"stack"} ELSE races

-----------------------------------------------------------------------------
(* AcceptFunc *)

\* accept returns, and Get_SessionID asks the stack: empty() refuses the
\* connection (closesocket).
Accepted ==
  /\ accepts < MaxAccepts
  /\ accepts' = accepts + 1
  /\ Goto(Acceptor, "accept", IF size = 0 THEN "accept" ELSE "top")
  /\ UNCHANGED <<tables, stack, unique, at, reg, newId, lost>>

\* accept fails: the thread leaves its loop, and nobody is accepted any more.
AcceptFails ==
  /\ Goto(Acceptor, "accept", "ended")
  /\ UNCHANGED <<tables, stack, unique, at, reg, newId, accepts, lost>>

\* session_id(sessionIndex_stack.top(), unique++)
Top ==
  /\ Goto(Acceptor, "top", "popLoad")
  /\ newId' = Id(top[size], unique)
  /\ unique' = (unique + 1) % UniqueMod
  /\ UNCHANGED <<tables, stack, at, reg, accepts, lost>>

PopLoad ==
  /\ Goto(Acceptor, "popLoad", "popStore")
  /\ reg' = [reg EXCEPT ![Acceptor] = size]
  /\ UNCHANGED <<tables, stack, unique, at, newId, accepts, lost>>

\* Mutant: pop() is missing.
PopMissing ==
  /\ Goto(Acceptor, "popStore", IF newId = INVALID THEN "accept" ELSE "alloc")
  /\ lost' = IF newId = INVALID THEN lost \cup {newId.index} ELSE lost
  /\ UNCHANGED <<tables, stack, unique, at, reg, newId, accepts>>

\* pop(); an id that happens to be INVALID_SESSION_ID closes the connection,
\* and its slot is not pushed again.
PopStore ==
  /\ Goto(Acceptor, "popStore", IF newId = INVALID THEN "accept" ELSE "alloc")
  /\ size' = reg[Acceptor] - 1
  /\ lost' = IF newId = INVALID THEN lost \cup {newId.index} ELSE lost
  /\ UNCHANGED <<tables, top, unique, at, reg, newId, accepts>>

\* session_pool.Alloc, Clear and Set
Alloc ==
  \E p \in Sessions \ inUse :
    /\ pc[Acceptor] = "alloc"
    /\ pc' = [pc EXCEPT ![Acceptor] = "register"]
    /\ races' = IF Reading(p) # {} THEN races \cup {"session"} ELSE races
    /\ inUse' = inUse \cup {p}
    /\ session_id' = [session_id EXCEPT ![p] = newId]
    /\ at' = [at EXCEPT ![Acceptor] = p]
    /\ UNCHANGED <<session_array, calls, stack, unique, reg, newId, accepts,
                   lost>>

\* session_array[session_id.session_index] = p_accept_session; Bind_IOCP
Register ==
  /\ Goto(Acceptor, "register", "postRecv")
  /\ session_array' = [session_array EXCEPT ![newId.index] = at[Acceptor]]
  /\ UNCHANGED <<inUse, session_id, calls, stack, unique, at, reg, newId,
                 accepts, lost>>

\* Post_Recv: the session is the workers' from here on, or WSARecv fails and
\* the accept thread itself releases it.
FirstRecv ==
  \/ /\ Goto(Acceptor, "postRecv", "accept")
     /\ calls' = [calls EXCEPT ![at[Acceptor]] = {"recv"}]
     /\ at' = [at EXCEPT ![Acceptor] = NULL]
     /\ UNCHANGED <<session_array, inUse, session_id, stack, unique, reg,
                    newId, accepts, lost>>
  \/ /\ Goto(Acceptor, "postRecv", "free")
     /\ UNCHANGED <<tables, stack, unique, at, reg, newId, accepts, lost>>

-----------------------------------------------------------------------------
(* WorkerFunc *)

\* A WSARecv has completed: with FIN or an error, or with data, and then the
\* next one is posted before the data is delivered.
RecvCompletion(w) ==
  \E p \in Sessions, data \in BOOLEAN :
    /\ "recv" \in calls[p]
    /\ Goto(w, "gqcs", IF data THEN "onRecv" ELSE "decrement")
    /\ at' = [at EXCEPT ![w] = p]
    /\ calls' = IF data THEN calls ELSE [calls EXCEPT ![p] = @ \ {"recv"}]
    /\ UNCHANGED <<session_array, inUse, session_id, stack, unique, reg, newId,
                   accepts, lost>>

\* A WSASend has completed; what came in meanwhile is posted next.
SendCompletion(w) ==
  \E p \in Sessions, more \in BOOLEAN :
    /\ "send" \in calls[p]
    /\ Goto(w, "gqcs", "decrement")
    /\ at' = [at EXCEPT ![w] = p]
    /\ calls' = IF more THEN calls ELSE [calls EXCEPT ![p] = @ \ {"send"}]
    /\ UNCHANGED <<session_array, inUse, session_id, stack, unique, reg, newId,
                   accepts, lost>>

\* OnRecv and Send_Packet: the id is looked up in session_array, and its
\* unique part is not compared.  An empty slot is a null pointer, and ends the
\* process; Post_Send posts a WSASend unless one is in flight or it fails.
OnRecv(w) ==
  LET found == session_array[session_id[at[w]].index] IN
  /\ Goto(w, "onRecv", IF found = NULL THEN "crashed" ELSE "decrement")
  /\ \/ UNCHANGED calls
     \/ /\ found # NULL
        /\ calls' = [calls EXCEPT ![found] = @ \cup {"send"}]
  /\ UNCHANGED <<session_array, inUse, session_id, stack, unique, at, reg,
                 newId, accepts, lost>>

\* InterlockedDecrement(&io_count): the last one releases.
Unused(w) ==
  /\ calls[at[w]] = {}
  /\ \A v \in Workers \ {w} :
       ~(at[v] = at[w] /\ pc[v] \in {"onRecv", "decrement"})

Decrement(w) ==
  /\ pc[w] = "decrement"
  /\ IF Unused(w)
       THEN Goto(w, "decrement", "free") /\ UNCHANGED at
       ELSE Goto(w, "decrement", "gqcs") /\ at' = [at EXCEPT ![w] = NULL]
  /\ UNCHANGED <<tables, stack, unique, reg, newId, accepts, lost>>

-----------------------------------------------------------------------------
(* Release_Session *)

\* closesocket and session_pool.Free: the object may be given out again, and
\* is read twice more.
Free(t) ==
  /\ Goto(t, "free", "null")
  /\ inUse' = inUse \ {at[t]}
  /\ UNCHANGED <<session_array, session_id, calls, stack, unique, at, reg,
                 newId, accepts, lost>>

\* Mutant: the slot keeps its pointer.
SlotKept(t) ==
  /\ Goto(t, "null", "push")
  /\ UNCHANGED <<tables, stack, unique, at, reg, newId, accepts, lost>>

\* session_array[p_session->session_id.session_index] = nullptr
ClearSlot(t) ==
  /\ Goto(t, "null", "push")
  /\ session_array' = [session_array EXCEPT ![session_id[at[t]].index] = NULL]
  /\ UNCHANGED <<inUse, session_id, calls, stack, unique, at, reg, newId,
                 accepts, lost>>

\* sessionIndex_stack.push: the element, then ++size
Push(t) ==
  /\ Goto(t, "push", "pushLoad")
  /\ top' = [top EXCEPT ![size + 1] = session_id[at[t]].index]
  /\ UNCHANGED <<tables, size, unique, at, reg, newId, accepts, lost>>

PushLoad(t) ==
  /\ Goto(t, "pushLoad", "pushStore")
  /\ reg' = [reg EXCEPT ![t] = size]
  /\ UNCHANGED <<tables, stack, unique, at, newId, accepts, lost>>

PushStore(t) ==
  /\ Goto(t, "pushStore", IF t = Acceptor THEN "accept" ELSE "gqcs")
  /\ size' = reg[t] + 1
  /\ at' = [at EXCEPT ![t] = NULL]
  /\ UNCHANGED <<tables, top, unique, reg, newId, accepts, lost>>

ReleaseStep(t) ==
  Free(t) \/ ClearSlot(t) \/ Push(t) \/ PushLoad(t) \/ PushStore(t)

AcceptStep ==
  \/ Accepted \/ AcceptFails \/ Top \/ PopLoad \/ PopStore
  \/ Alloc \/ Register \/ FirstRecv
  \/ ReleaseStep(Acceptor)

WorkerStep(w) ==
  \/ RecvCompletion(w) \/ SendCompletion(w) \/ OnRecv(w) \/ Decrement(w)
  \/ ReleaseStep(w)

Next ==
  /\ \A t \in Threads : pc[t] # "crashed"
  /\ AcceptStep \/ \E w \in Workers : WorkerStep(w)

Spec == Init /\ [][Next]_vars

-----------------------------------------------------------------------------
(* Properties *)

TypeOK ==
  /\ session_array \in [Index -> Sessions \cup {NULL}]
  /\ top \in [1..SessionMax + MaxAccepts -> Index]
  /\ size \in 0..SessionMax + MaxAccepts
  /\ unique \in 0..UniqueMod - 1
  /\ inUse \subseteq Sessions
  /\ session_id \in [Sessions -> [index : Index, unique : 0..UniqueMod - 1]]
  /\ calls \in [Sessions -> SUBSET {"recv", "send"}]
  /\ at \in [Threads -> Sessions \cup {NULL}]
  /\ reg \in [Threads -> 0..SessionMax + MaxAccepts]

\* The places of the stack that still hold a free slot: the accept thread's is
\* gone once it has read it.
Pushed == 1..(IF pc[Acceptor] \in {"popLoad", "popStore"} THEN size - 1
                                                         ELSE size)

\* A thread has slot i in its hands, on the way from one to the other.
Carries(t, i) ==
  \/ pc[t] \in {"popLoad", "popStore", "alloc"} /\ newId.index = i
  \/ pc[t] \in {"null", "push"} /\ session_id[at[t]].index = i
  \/ pc[t] \in {"pushLoad", "pushStore"} /\ top[size + 1] = i

\* Who has slot i.
Holders(i) ==
  {<<"stack", n>> : n \in {m \in Pushed : top[m] = i}}
  \cup {<<"session", p>> : p \in {q \in inUse : session_id[q].index = i}}
  \cup {<<"thread", t>> : t \in {u \in Threads : Carries(u, i)}}
  \cup {<<"lost", j>> : j \in lost \cap {i}}

\* Release_Session, Get_SessionID: as long as no two threads have met on the
\* stack and no object was given out while its old session was still read,
\* every slot has exactly one holder: it is free once, or one session's, or on
\* its way.  It is lost only where unique comes round to 0 for slot 0, whose id
\* is then INVALID_SESSION_ID.
OneHolder ==
  /\ races = {} => \A i \in Index : Cardinality(Holders(i)) = 1
  /\ lost # {} => accepts >= UniqueMod
  /\ races = {} => lost \subseteq {0}

\* Send_Packet: on the same condition a session that can receive is found at
\* its slot, though the unique part of its id is never compared, and a slot
\* nobody has is empty.
OwnSlot ==
  races = {} =>
    /\ \A p \in inUse :
         \/ session_array[session_id[p].index] = p
         \/ pc[Acceptor] = "register" /\ at[Acceptor] = p
    /\ \A i \in Index :
         \/ session_array[i] \in inUse \cup {NULL}
         \/ \E t \in Threads : /\ pc[t] = "null"
                               /\ session_array[i] = at[t]
                               /\ session_id[at[t]].index = i
=============================================================================
