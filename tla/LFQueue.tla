------------------------------ MODULE LFQueue ------------------------------
(***************************************************************************)
(* "23.02.05 - MySql_C_Connect/LFQueue.h": a lock-free queue on a list     *)
(* with a dummy node at the head.  The words head_ABA and tail_ABA pack a  *)
(* node address (47 bits) and a stamp (17 bits); every successful          *)
(* compare-exchange of a word adds one to its own stamp.                   *)
(*                                                                         *)
(* The nodes come from an LFObjectPool constructed with (0, true): its     *)
(* free list is last in, first out, and a node taken from it is constructed*)
(* again (next = nullptr) after it has left the free list.  Alloc and Free *)
(* of the pool are one step each here.                                     *)
(*                                                                         *)
(* One action per shared access of Enqueue and Dequeue, in code order.     *)
(***************************************************************************)
EXTENDS Integers, Sequences, FiniteSets, Functions, SequencesExt

CONSTANTS Producers,  \* the threads that call Enqueue
          Consumers,  \* the threads that call Dequeue
          Nodes,      \* addresses of the pool's nodes
          Null,       \* nullptr
          StampMod,   \* number of stamps: 2^17 in the code
          MaxEnqueue  \* bound: Enqueue calls of each producer

ASSUME ConstantAssumption ==
  /\ Null \notin Nodes
  /\ Nodes # {}
  /\ StampMod \in Nat \ {0}
  /\ MaxEnqueue \in Nat
  /\ IsFiniteSet(Nodes) /\ IsFiniteSet(Producers) /\ IsFiniteSet(Consumers)

Threads == Producers \union Consumers

VARIABLES
  head,    \* head_ABA: [stamp, node]
  tail,    \* tail_ABA
  next,    \* Node::next
  data,    \* Node::data
  size,    \* LFQueue::size
  free,    \* the free list of node_pool, the top last
  heap,    \* the nodes made by operator new
  pc,      \* the statement each thread is at
  node,    \* its insert_node
  cHead,   \* its copy_head_ABA
  cTail,   \* its copy_tail_ABA
  cNext,   \* its copy_tail_next or copy_head_next
  cData,   \* its dq_data
  sent,    \* history: Enqueue calls made by each thread
  got      \* history: the data dequeued, in order

locals == <<pc, node, cHead, cTail, cNext, cData>>
queue == <<head, tail, next, data, size>>
pool == <<free, heap>>
history == <<sent, got>>
vars == <<queue, pool, locals, history>>

Word(s, n) == [stamp |-> s, node |-> n]
NoWord == Word(0, Null)
NoData == <<>>

\* A word moved to node n: its stamp is one more.
Moved(w, n) == Word((w.stamp + 1) % StampMod, n)

\* The k-th datum thread t enqueues.
Datum(t, k) == <<t, k>>

\* The constructor: the dummy node is the first the pool makes.
Init ==
  LET dummy == CHOOSE n \in Nodes : TRUE IN
    /\ head = Word(0, dummy)
    /\ tail = Word(0, dummy)
    /\ heap = {dummy}
    /\ next = [n \in Nodes |-> Null]
    /\ data = [n \in Nodes |-> NoData]
    /\ size = 0
    /\ free = <<>>
    /\ pc = [t \in Threads |-> "idle"]
    /\ node = [t \in Threads |-> Null]
    /\ cHead = [t \in Threads |-> NoWord]
    /\ cTail = [t \in Threads |-> NoWord]
    /\ cNext = [t \in Threads |-> Null]
    /\ cData = [t \in Threads |-> NoData]
    /\ sent = [t \in Threads |-> 0]
    /\ got = <<>>

Goto(t, from, to) ==
  /\ pc[t] = from
  /\ pc' = [pc EXCEPT ![t] = to]

\* Thread t leaves Enqueue or Dequeue: its locals die.
Return(t, from) ==
  /\ Goto(t, from, "idle")
  /\ node' = [node EXCEPT ![t] = Null]
  /\ cHead' = [cHead EXCEPT ![t] = NoWord]
  /\ cTail' = [cTail EXCEPT ![t] = NoWord]
  /\ cNext' = [cNext EXCEPT ![t] = Null]
  /\ cData' = [cData EXCEPT ![t] = NoData]

\* The next turn of a retry loop: what was read in this one is dead.
Again(t, from, to) ==
  /\ Goto(t, from, to)
  /\ cHead' = [cHead EXCEPT ![t] = NoWord]
  /\ cTail' = [cTail EXCEPT ![t] = NoWord]
  /\ cNext' = [cNext EXCEPT ![t] = Null]
  /\ cData' = [cData EXCEPT ![t] = NoData]
  /\ UNCHANGED node

-----------------------------------------------------------------------------
(* Enqueue *)

\* node_pool.Alloc(): from the free list, or by operator new.
Alloc(t) ==
  /\ t \in Producers
  /\ Goto(t, "idle", "construct")
  /\ sent[t] < MaxEnqueue
  /\ IF free # <<>>
       THEN /\ node' = [node EXCEPT ![t] = free[Len(free)]]
            /\ free' = SubSeq(free, 1, Len(free) - 1)
            /\ UNCHANGED heap
       ELSE /\ heap # Nodes
            /\ LET n == CHOOSE m \in Nodes : m \notin heap IN
                 /\ heap' = heap \union {n}
                 /\ node' = [node EXCEPT ![t] = n]
            /\ UNCHANGED free
  /\ sent' = [sent EXCEPT ![t] = @ + 1]
  /\ UNCHANGED <<queue, cHead, cTail, cNext, cData, got>>

\* Mutant: the pool does not construct the node again.
ConstructStale(t) ==
  /\ Goto(t, "construct", "tail")
  /\ data' = [data EXCEPT ![node[t]] = Datum(t, sent[t])]
  /\ UNCHANGED <<head, tail, next, size, pool, node, cHead, cTail, cNext,
                 cData, history>>

\* new (&obejct) Node, then insert_node->data = data.
Construct(t) ==
  /\ Goto(t, "construct", "tail")
  /\ next' = [next EXCEPT ![node[t]] = Null]
  /\ data' = [data EXCEPT ![node[t]] = Datum(t, sent[t])]
  /\ UNCHANGED <<head, tail, size, pool, node, cHead, cTail, cNext, cData,
                 history>>

ReadTail(t) ==
  /\ Goto(t, "tail", "tailNext")
  /\ cTail' = [cTail EXCEPT ![t] = tail]
  /\ UNCHANGED <<queue, pool, node, cHead, cNext, cData, history>>

ReadTailNext(t) ==
  /\ Goto(t, "tailNext", IF next[cTail[t].node] = Null THEN "link" ELSE "help")
  /\ cNext' = [cNext EXCEPT ![t] = next[cTail[t].node]]
  /\ UNCHANGED <<queue, pool, node, cHead, cTail, cData, history>>

\* The compare-exchange of copy_tail->next from null to insert_node.
LinkNode(t) ==
  /\ Goto(t, "link", "size")
  /\ next[cTail[t].node] = Null
  /\ next' = [next EXCEPT ![cTail[t].node] = node[t]]
  /\ UNCHANGED <<head, tail, data, size, pool, node, cHead, cTail, cNext,
                 cData, history>>

LinkFails(t) ==
  /\ Again(t, "link", "tail")
  /\ next[cTail[t].node] # Null
  /\ UNCHANGED <<queue, pool, history>>

\* tail_ABA moves to cNext if it still is the word read.
SwingTail(t, n) ==
  tail' = IF tail = cTail[t] THEN Moved(cTail[t], n) ELSE tail

\* The tail lags: move it for whoever linked the node, then try again.
HelpTail(t) ==
  /\ Again(t, "help", "tail")
  /\ SwingTail(t, cNext[t])
  /\ UNCHANGED <<head, next, data, size, pool, history>>

CountEnqueue(t) ==
  /\ Goto(t, "size", "swing")
  /\ size' = size + 1
  /\ UNCHANGED <<head, tail, next, data, pool, node, cHead, cTail, cNext,
                 cData, history>>

EnqueueReturn(t) ==
  /\ Return(t, "swing")
  /\ SwingTail(t, node[t])
  /\ UNCHANGED <<head, next, data, size, pool, history>>

-----------------------------------------------------------------------------
(* Dequeue *)

\* Mutant: <= for <.
ReserveEarly(t) ==
  /\ t \in Consumers
  /\ Goto(t, "idle", IF size - 1 <= 0 THEN "unreserve" ELSE "dqHead")
  /\ size' = size - 1
  /\ UNCHANGED <<head, tail, next, data, pool, node, cHead, cTail, cNext,
                 cData, history>>

\* InterlockedDecrement(&size) < 0 says empty.
Reserve(t) ==
  /\ t \in Consumers
  /\ Goto(t, "idle", IF size - 1 < 0 THEN "unreserve" ELSE "dqHead")
  /\ size' = size - 1
  /\ UNCHANGED <<head, tail, next, data, pool, node, cHead, cTail, cNext,
                 cData, history>>

\* InterlockedIncrement(&size), return false.
Unreserve(t) ==
  /\ Return(t, "unreserve")
  /\ size' = size + 1
  /\ UNCHANGED <<head, tail, next, data, pool, history>>

DqReadHead(t) ==
  /\ Goto(t, "dqHead", "dqTail")
  /\ cHead' = [cHead EXCEPT ![t] = head]
  /\ UNCHANGED <<queue, pool, node, cTail, cNext, cData, history>>

\* Mutant: head and tail are not compared.
DqReadTailOnly(t) ==
  /\ Goto(t, "dqTail", "dqNext")
  /\ cTail' = [cTail EXCEPT ![t] = tail]
  /\ UNCHANGED <<queue, pool, node, cHead, cNext, cData, history>>

DqReadTail(t) ==
  /\ Goto(t, "dqTail", IF cHead[t] = tail THEN "dqTailNext" ELSE "dqNext")
  /\ cTail' = [cTail EXCEPT ![t] = tail]
  /\ UNCHANGED <<queue, pool, node, cHead, cNext, cData, history>>

\* Head and tail are equal: a null next means read again.
DqTailNextNull(t) ==
  /\ Again(t, "dqTailNext", "dqHead")
  /\ next[cTail[t].node] = Null
  /\ UNCHANGED <<queue, pool, history>>

DqTailNext(t) ==
  /\ Goto(t, "dqTailNext", "dqSwing")
  /\ next[cTail[t].node] # Null
  /\ cNext' = [cNext EXCEPT ![t] = next[cTail[t].node]]
  /\ UNCHANGED <<queue, pool, node, cHead, cTail, cData, history>>

DqSwingTail(t) ==
  /\ Goto(t, "dqSwing", "dqNext")
  /\ SwingTail(t, cNext[t])
  /\ cNext' = [cNext EXCEPT ![t] = Null]
  /\ UNCHANGED <<head, next, data, size, pool, node, cHead, cTail, cData,
                 history>>

DqNextNull(t) ==
  /\ Again(t, "dqNext", "dqHead")
  /\ next[cHead[t].node] = Null
  /\ UNCHANGED <<queue, pool, history>>

DqNext(t) ==
  /\ Goto(t, "dqNext", "dqData")
  /\ next[cHead[t].node] # Null
  /\ cNext' = [cNext EXCEPT ![t] = next[cHead[t].node]]
  /\ UNCHANGED <<queue, pool, node, cHead, cTail, cData, history>>

\* T dq_data = copy_head_next->data: before the compare-exchange, because
\* the node may be freed after it.
DqData(t) ==
  /\ Goto(t, "dqData", "dqCas")
  /\ cData' = [cData EXCEPT ![t] = data[cNext[t]]]
  /\ UNCHANGED <<queue, pool, node, cHead, cTail, cNext, history>>

\* Mutant: a plain store for the compare-exchange.
DqMoveBlindly(t) ==
  /\ Goto(t, "dqCas", "dqFree")
  /\ head' = Moved(cHead[t], cNext[t])
  /\ got' = Append(got, cData[t])
  /\ UNCHANGED <<tail, next, data, size, pool, node, cHead, cTail, cNext,
                 cData, sent>>

DqMoveHead(t) ==
  /\ Goto(t, "dqCas", "dqFree")
  /\ head = cHead[t]
  /\ head' = Moved(cHead[t], cNext[t])
  /\ got' = Append(got, cData[t])
  /\ UNCHANGED <<tail, next, data, size, pool, node, cHead, cTail, cNext,
                 cData, sent>>

\* Mutant: the retry does not read the head again.
DqCasFailsStale(t) ==
  /\ Goto(t, "dqCas", "dqNext")
  /\ head # cHead[t]
  /\ UNCHANGED <<queue, pool, node, cHead, cTail, cNext, cData, history>>

DqCasFails(t) ==
  /\ Again(t, "dqCas", "dqHead")
  /\ head # cHead[t]
  /\ UNCHANGED <<queue, pool, history>>

\* Mutant: the node that is the new dummy is freed.
DqFreeNext(t) ==
  /\ Return(t, "dqFree")
  /\ free' = Append(free, cNext[t])
  /\ UNCHANGED <<queue, heap, history>>

\* node_pool.Free(copy_head), return true.
DqFree(t) ==
  /\ Return(t, "dqFree")
  /\ free' = Append(free, cHead[t].node)
  /\ UNCHANGED <<queue, heap, history>>

EnqueueStep(t) ==
  \/ Construct(t)
  \/ ReadTail(t)
  \/ ReadTailNext(t)
  \/ LinkNode(t)
  \/ LinkFails(t)
  \/ HelpTail(t)
  \/ CountEnqueue(t)
  \/ EnqueueReturn(t)

DequeueStep(t) ==
  \/ Unreserve(t)
  \/ DqReadHead(t)
  \/ DqReadTail(t)
  \/ DqTailNextNull(t)
  \/ DqTailNext(t)
  \/ DqSwingTail(t)
  \/ DqNextNull(t)
  \/ DqNext(t)
  \/ DqData(t)
  \/ DqMoveHead(t)
  \/ DqCasFails(t)
  \/ DqFree(t)

Step(t) == EnqueueStep(t) \/ DequeueStep(t)

Next ==
  \E t \in Threads :
    \/ Alloc(t)
    \/ Reserve(t)
    \/ Step(t)

Spec == Init /\ [][Next]_vars

\* A thread inside a call is scheduled again; nobody has to start one.
FairSpec == Spec /\ \A t \in Threads : WF_vars(Step(t))

-----------------------------------------------------------------------------
(* What the properties speak of *)

\* The nodes from the dummy on, following next.
Chain ==
  LET walk[k \in 0..Cardinality(Nodes)] ==
        IF k = 0
          THEN <<head.node>>
          ELSE LET last == next[Last(walk[k - 1])] IN
                 IF last = Null THEN walk[k - 1] ELSE Append(walk[k - 1], last)
  IN  walk[Cardinality(Nodes)]

\* The data waiting in the queue, the oldest first.
Waiting == [i \in 1..(Len(Chain) - 1) |-> data[Chain[i + 1]]]

\* Dequeue calls that have taken one off size and not yet moved the head.
Reserved ==
  {t \in Threads : pc[t] \in {"dqHead", "dqTail", "dqTailNext", "dqSwing",
                              "dqNext", "dqData", "dqCas"}}

Sent == {d \in Producers \X (1..MaxEnqueue) : d[2] <= sent[d[1]]}

-----------------------------------------------------------------------------
(* Properties.  They are about a stamp that does not come round.           *)

\* LFQueue.h:110 "head, tail 역전 방지": the head never passes the tail, whose
\* node is never one that Dequeue has freed, and no null is followed.
TailAhead ==
  /\ head.stamp <= tail.stamp
  /\ tail.node \in Range(Chain)
  /\ \A t \in Threads :
       pc[t] \in {"help", "dqSwing", "dqData", "dqCas"} => cNext[t] \in Nodes

\* A node is in the list, or in the free list once, or in the hands of one
\* Enqueue that has not linked it yet.
NodesApart ==
  LET private == {t \in Threads : pc[t] \in {"construct", "tail", "tailNext",
                                             "link", "help"}}
  IN  /\ IsInjective(free)
      /\ Range(Chain) \intersect Range(free) = {}
      /\ \A t \in private : node[t] \notin Range(Chain) \union Range(free)
      /\ \A t, u \in private : t # u => node[t] # node[u]

\* The datum copied before the compare-exchange of head_ABA is the one that
\* leaves the queue: none is dequeued twice, none is a leftover of the node's
\* earlier life; and when no call is under way, all that was enqueued and not
\* dequeued is in the list, and size (GetUseCount) is its length.
DequeuedOnce ==
  /\ IsInjective(got)
  /\ Range(got) \subseteq Sent
  /\ Range(got) \intersect Range(Waiting) = {}
  /\ (\A t \in Threads : pc[t] = "idle") =>
       /\ Sent = Range(got) \union Range(Waiting)
       /\ size = Len(Waiting)

\* A producer's data leave the queue, and wait in it, in the order of its
\* Enqueue calls, with no gap.
ProducerOrder ==
  LET all == got \o Waiting
  IN  \A i \in DOMAIN all :
        all[i][2] = Cardinality({j \in 1..i : all[j][1] = all[i][1]})

\* Up to now one thread at most has called Enqueue, as in the job queue of
\* main.cpp.
OneProducer == \A p, q \in Producers : sent[p] > 0 /\ sent[q] > 0 => p = q

\* With one producer the queue is first in, first out.
FifoOfOne == OneProducer => ProducerOrder

\* Dequeue says empty only if every datum that waits is spoken for by a Dequeue
\* under way, is not counted by its Enqueue yet, or another Dequeue is about to
\* say empty too.
EmptyIsSpokenFor ==
  [][\A t \in Consumers :
       pc[t] = "idle" /\ pc'[t] = "unreserve" =>
         Len(Waiting) <= Cardinality(Reserved)
                         + Cardinality({u \in Threads : pc[u] \in {"size", "unreserve"}})]_vars

\* Every call that has started returns.
CallsReturn == \A t \in Threads : pc[t] # "idle" ~> pc[t] = "idle"

=============================================================================
