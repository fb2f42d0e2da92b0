--------------------------- MODULE LockFreeStack ---------------------------
(***************************************************************************)
(* "22.12.03 - LockFreeStack": class LockFreeStack (LockFreeStack.h) on    *)
(* top of J_LIB::ObjectPool (ObjectPool.h), called by any number of        *)
(* threads.                                                                *)
(*                                                                         *)
(* Both classes hold a singly linked list whose head word packs a node     *)
(* address (47 bits) and a stamp (the upper UNUSED_BIT = 17 bits).  They   *)
(* run the same code on it: Push and Free insert a node, Pop and Alloc     *)
(* remove one.  A call draws its stamp once, before its retry loop, from   *)
(* the list's counter "unique".  So the two lists are one function here:   *)
(* "stack" is the list of LockFreeStack, "pool" the free list of its       *)
(* ObjectPool.  Push is Alloc then Push; Pop is Pop then Free.             *)
(*                                                                         *)
(* One action per shared access: drawing a stamp, reading the head word,   *)
(* reading the head's next pointer, the compare-exchange, the counter.     *)
(* Writes to a node only its owner can reach are part of the owner's       *)
(* previous shared access.                                                 *)
(***************************************************************************)
EXTENDS Integers, Sequences, FiniteSets

CONSTANTS Threads,    \* the threads that call Push and Pop
          Nodes,      \* addresses operator new can return
          Values,     \* the data pushed
          Null,       \* nullptr
          NoValue,    \* no datum
          StampMod,   \* the number of stamps: 2^17 in the code
          MaxOps      \* bound: no call starts after MaxOps stack stamps

ASSUME ConstantAssumption ==
  /\ Null \notin Nodes
  /\ NoValue \notin Values
  /\ StampMod \in Nat \ {0}
  /\ MaxOps \in Nat

VARIABLES
  unique,      \* unique of each list: stamps drawn so far
  top,         \* unique_top of each list: [stamp, node]
  link,        \* p_next ("stack") and next_node ("pool") of every node
  data,        \* data of every node
  node_count,  \* LockFreeStack::node_count
  use_count,   \* ObjectPool::use_count
  heap,        \* nodes made by operator new; capacity is their number
  op,          \* the function each thread is in
  pc,          \* the statement it is at
  node,        \* its insert_node / node, or the node it removed
  stamp,       \* the stamp it drew
  copy,        \* its copy_unique_top
  next,        \* the next pointer it read
  val,         \* the data argument of Push, or the datum Pop returns
  list         \* history: the nodes each list should hold, the top last

locals == <<op, pc, node, stamp, copy, next, val>>
shared == <<unique, top, link, data, node_count, use_count, heap>>
vars == <<shared, locals, list>>

Lists == {"stack", "pool"}
Inserts == {"Push", "Free"}
Removes == {"Pop", "Alloc"}
ListOf(o) == IF o \in {"Push", "Pop"} THEN "stack" ELSE "pool"

Word(s, n) == [stamp |-> s, node |-> n]
NoWord == Word(0, Null)

Init ==
  /\ unique = [l \in Lists |-> 0]
  /\ top = [l \in Lists |-> NoWord]
  /\ link = [l \in Lists |-> [n \in Nodes |-> Null]]
  /\ data = [n \in Nodes |-> NoValue]
  /\ node_count = 0
  /\ use_count = 0
  /\ heap = {}
  /\ op = [t \in Threads |-> "None"]
  /\ pc = [t \in Threads |-> "idle"]
  /\ node = [t \in Threads |-> Null]
  /\ stamp = [t \in Threads |-> 0]
  /\ copy = [t \in Threads |-> NoWord]
  /\ next = [t \in Threads |-> Null]
  /\ val = [t \in Threads |-> NoValue]
  /\ list = [l \in Lists |-> <<>>]

-----------------------------------------------------------------------------
\* Thread t leaves its function: its locals die.
Return(t) ==
  /\ op' = [op EXCEPT ![t] = "None"]
  /\ pc' = [pc EXCEPT ![t] = "idle"]
  /\ node' = [node EXCEPT ![t] = Null]
  /\ stamp' = [stamp EXCEPT ![t] = 0]
  /\ copy' = [copy EXCEPT ![t] = NoWord]
  /\ next' = [next EXCEPT ![t] = Null]
  /\ val' = [val EXCEPT ![t] = NoValue]

\* Thread t enters function o, keeping its node: from Alloc to the rest of
\* Push, from Pop to Free.
Enter(t, o) ==
  /\ op' = [op EXCEPT ![t] = o]
  /\ pc' = [pc EXCEPT ![t] = "draw"]
  /\ stamp' = [stamp EXCEPT ![t] = 0]
  /\ copy' = [copy EXCEPT ![t] = NoWord]
  /\ next' = [next EXCEPT ![t] = Null]
  /\ UNCHANGED node

\* j_stack.Push(v): its first act is node_pool.Alloc().
CallPush(t, v) ==
  /\ pc[t] = "idle"
  /\ unique["stack"] < MaxOps
  /\ Enter(t, "Alloc")
  /\ val' = [val EXCEPT ![t] = v]
  /\ UNCHANGED <<shared, list>>

\* j_stack.Pop(&a)
CallPop(t) ==
  /\ pc[t] = "idle"
  /\ unique["stack"] < MaxOps
  /\ Enter(t, "Pop")
  /\ UNCHANGED <<val, shared, list>>

\* InterlockedIncrement64(&unique), cut to the stamp's 17 bits by the shift.
Draw(t) ==
  LET l == ListOf(op[t]) IN
  /\ pc[t] = "draw"
  /\ unique' = [unique EXCEPT ![l] = @ + 1]
  /\ stamp' = [stamp EXCEPT ![t] = (unique[l] + 1) % StampMod]
  /\ pc' = [pc EXCEPT ![t] = "read"]
  /\ UNCHANGED <<top, link, data, node_count, use_count, heap,
                 op, node, copy, next, val, list>>

\* Insert: read the head word and point the new node at the head.
LinkTop(t) ==
  LET l == ListOf(op[t]) IN
  /\ pc[t] = "read"
  /\ op[t] \in Inserts
  /\ copy' = [copy EXCEPT ![t] = top[l]]
  /\ link' = [link EXCEPT ![l] = [@ EXCEPT ![node[t]] = top[l].node]]
  /\ pc' = [pc EXCEPT ![t] = "cas"]
  /\ UNCHANGED <<unique, top, data, node_count, use_count, heap,
                 op, node, stamp, next, val, list>>

\* Remove: read the head word of a list that is not empty.
ReadTop(t) ==
  LET l == ListOf(op[t]) IN
  /\ pc[t] = "read"
  /\ op[t] \in Removes
  /\ top[l].node # Null
  /\ copy' = [copy EXCEPT ![t] = top[l]]
  /\ pc' = [pc EXCEPT ![t] = "next"]
  /\ UNCHANGED <<shared, op, node, stamp, next, val, list>>

\* Alloc finds the pool empty: capacity++ and a new node, at some address
\* that is not in use (which one makes no difference: nodes are deleted only
\* with the pool).
NewNode(t) ==
  /\ pc[t] = "read"
  /\ op[t] = "Alloc"
  /\ top["pool"].node = Null
  /\ heap # Nodes
  /\ LET n == CHOOSE m \in Nodes : m \notin heap IN
       /\ heap' = heap \union {n}
       /\ node' = [node EXCEPT ![t] = n]
  /\ pc' = [pc EXCEPT ![t] = "count"]
  /\ UNCHANGED <<unique, top, link, data, node_count, use_count,
                 op, stamp, copy, next, val, list>>

\* Mutant of PopEmpty: Pop gives up when it loses a race, as if empty.
PopGivesUp(t) ==
  /\ op[t] = "Pop"
  /\ \/ pc[t] = "read" /\ top["stack"].node = Null
     \/ pc[t] = "cas" /\ copy[t] # top["stack"]
  /\ Return(t)
  /\ UNCHANGED <<shared, list>>

\* Pop finds the stack empty and returns false.
PopEmpty(t) ==
  /\ pc[t] = "read"
  /\ op[t] = "Pop"
  /\ top["stack"].node = Null
  /\ Return(t)
  /\ UNCHANGED <<shared, list>>

\* Remove: copy_top->next, from a node that other threads may by now have
\* removed, or inserted again.
ReadNext(t) ==
  /\ pc[t] = "next"
  /\ next' = [next EXCEPT ![t] = link[ListOf(op[t])][copy[t].node]]
  /\ pc' = [pc EXCEPT ![t] = "cas"]
  /\ UNCHANGED <<shared, op, node, stamp, copy, val, list>>

\* Mutant of HeadUnchanged: the addresses are compared without their stamps.
SameHeadNode(t) == copy[t].node = top[ListOf(op[t])].node

\* The head word still is the one read, stamp and node.
HeadUnchanged(t) == copy[t] = top[ListOf(op[t])]

\* InterlockedCompareExchange64 puts the new node on top.
InsertNode(t) ==
  LET l == ListOf(op[t]) IN
  /\ pc[t] = "cas"
  /\ op[t] \in Inserts
  /\ HeadUnchanged(t)
  /\ top' = [top EXCEPT ![l] = Word(stamp[t], node[t])]
  /\ list' = [list EXCEPT ![l] = Append(@, node[t])]
  /\ node' = [node EXCEPT ![t] = Null]
  /\ pc' = [pc EXCEPT ![t] = "count"]
  /\ UNCHANGED <<unique, link, data, node_count, use_count, heap,
                 op, stamp, copy, next, val>>

\* Mutant of RemoveNode: the head word is stored, not compare-exchanged.
RemoveBlindly(t) ==
  LET l == ListOf(op[t]) IN
  /\ pc[t] = "cas"
  /\ op[t] \in Removes
  /\ top' = [top EXCEPT ![l] = Word(stamp[t], next[t])]
  /\ list' = [list EXCEPT ![l] = SubSeq(@, 1, Len(@) - 1)]
  /\ node' = [node EXCEPT ![t] = copy[t].node]
  /\ pc' = [pc EXCEPT ![t] = "count"]
  /\ UNCHANGED <<unique, link, data, node_count, use_count, heap,
                 op, stamp, copy, next, val>>

\* InterlockedCompareExchange64 takes the head off.
RemoveNode(t) ==
  LET l == ListOf(op[t]) IN
  /\ pc[t] = "cas"
  /\ op[t] \in Removes
  /\ HeadUnchanged(t)
  /\ top' = [top EXCEPT ![l] = Word(stamp[t], next[t])]
  /\ list' = [list EXCEPT ![l] = SubSeq(@, 1, Len(@) - 1)]
  /\ node' = [node EXCEPT ![t] = copy[t].node]
  /\ pc' = [pc EXCEPT ![t] = "count"]
  /\ UNCHANGED <<unique, link, data, node_count, use_count, heap,
                 op, stamp, copy, next, val>>

\* Mutant of Retry: the loop compares again without reading the head again.
RetryStale(t) ==
  /\ pc[t] = "cas"
  /\ ~HeadUnchanged(t)
  /\ pc' = [pc EXCEPT ![t] = "cas"]
  /\ UNCHANGED <<shared, op, node, stamp, copy, next, val, list>>

\* Another thread changed the head word: try again, with the same stamp.
Retry(t) ==
  /\ pc[t] = "cas"
  /\ ~HeadUnchanged(t)
  /\ copy' = [copy EXCEPT ![t] = NoWord]
  /\ next' = [next EXCEPT ![t] = Null]
  /\ pc' = [pc EXCEPT ![t] = "read"]
  /\ UNCHANGED <<shared, op, node, stamp, val, list>>

\* Alloc: use_count++, and Push clears and fills the node it got.
CountAlloc(t) ==
  /\ pc[t] = "count" /\ op[t] = "Alloc"
  /\ use_count' = use_count + 1
  /\ link' = [link EXCEPT !["stack"] = [@ EXCEPT ![node[t]] = Null]]
  /\ data' = [data EXCEPT ![node[t]] = val[t]]
  /\ Enter(t, "Push")
  /\ UNCHANGED <<unique, top, node_count, heap, val, list>>

\* Push: node_count++, after the node is visible.
CountPush(t) ==
  /\ pc[t] = "count" /\ op[t] = "Push"
  /\ node_count' = node_count + 1
  /\ Return(t)
  /\ UNCHANGED <<unique, top, link, data, use_count, heap, list>>

\* Pop: node_count--, copy the datum out, free the node.
CountPop(t) ==
  /\ pc[t] = "count" /\ op[t] = "Pop"
  /\ node_count' = node_count - 1
  /\ val' = [val EXCEPT ![t] = data[node[t]]]
  /\ Enter(t, "Free")
  /\ UNCHANGED <<unique, top, link, data, use_count, heap, list>>

\* Free: use_count--, and Pop returns true.
CountFree(t) ==
  /\ pc[t] = "count" /\ op[t] = "Free"
  /\ use_count' = use_count - 1
  /\ Return(t)
  /\ UNCHANGED <<unique, top, link, data, node_count, heap, list>>

\* A statement of a function that is under way.
Step(t) ==
  \/ Draw(t)
  \/ LinkTop(t)
  \/ ReadTop(t)
  \/ NewNode(t)
  \/ PopEmpty(t)
  \/ ReadNext(t)
  \/ InsertNode(t)
  \/ RemoveNode(t)
  \/ Retry(t)
  \/ CountAlloc(t)
  \/ CountPush(t)
  \/ CountPop(t)
  \/ CountFree(t)

Idle(t) == pc[t] = "idle"

\* The bound on calls is reached and every call has returned.
Finished ==
  /\ unique["stack"] >= MaxOps
  /\ \A t \in Threads : Idle(t)
  /\ UNCHANGED vars

Next ==
  \/ \E t \in Threads :
       \/ \E v \in Values : CallPush(t, v)
       \/ CallPop(t)
       \/ Step(t)
  \/ Finished

Spec == Init /\ [][Next]_vars

\* The operating system schedules every thread that is inside a call.
FairSpec == Spec /\ \A t \in Threads : WF_vars(Step(t))

-----------------------------------------------------------------------------
Words == [stamp : 0 .. StampMod - 1, node : Nodes \union {Null}]

\* Type invariant.
TypeOK ==
  /\ unique \in [Lists -> Nat]
  /\ top \in [Lists -> Words]
  /\ link \in [Lists -> [Nodes -> Nodes \union {Null}]]
  /\ data \in [Nodes -> Values \union {NoValue}]
  /\ node_count \in Int
  /\ use_count \in Int
  /\ heap \in SUBSET Nodes
  /\ op \in [Threads -> {"None"} \union Inserts \union Removes]
  /\ pc \in [Threads -> {"idle", "draw", "read", "next", "cas", "count"}]
  /\ node \in [Threads -> Nodes \union {Null}]
  /\ stamp \in [Threads -> 0 .. StampMod - 1]
  /\ copy \in [Threads -> Words]
  /\ next \in [Threads -> Nodes \union {Null}]
  /\ val \in [Threads -> Values \union {NoValue}]
  /\ list \in [Lists -> Seq(Nodes)]

\* No list has drawn more stamps than the head word can tell apart.
NoWrap == \A l \in Lists : unique[l] < StampMod

\* The head word and the next pointers spell exactly the nodes that the
\* completed inserts and removes leave in the list, in LIFO order.
Linked ==
  \A l \in Lists :
    LET s == list[l] IN
    /\ top[l].node = IF s = <<>> THEN Null ELSE s[Len(s)]
    /\ \A i \in DOMAIN s : link[l][s[i]] = IF i = 1 THEN Null ELSE s[i - 1]

\* The pointers of both lists are intact as long as the stamps last: no
\* interleaving of Push, Pop, Alloc and Free breaks a chain.
ChainsIntact == NoWrap => Linked

\* A node is on one list at one place, or in the hands of one thread, and
\* every node ever allocated is in one of these places: none is handed out
\* twice by Alloc, none is lost.
OnePlaceOnLists ==
  \A l, m \in Lists : \A i \in DOMAIN list[l], j \in DOMAIN list[m] :
    list[l][i] = list[m][j] => l = m /\ i = j

HeldOffLists ==
  \A t \in Threads, l \in Lists : \A i \in DOMAIN list[l] :
    node[t] # list[l][i]

OneHolder ==
  \A t, u \in Threads : node[t] = node[u] => t = u \/ node[t] = Null

NoneLost ==
  \A n \in Nodes :
    n \in heap <=> \/ \E t \in Threads : node[t] = n
                   \/ \E l \in Lists : \E i \in DOMAIN list[l] : list[l][i] = n

OnePlace == OnePlaceOnLists /\ HeldOffLists /\ OneHolder /\ NoneLost

NodeOwnership == NoWrap => OnePlace

\* A remove whose compare-exchange is about to succeed installs the node
\* that follows the head now: the pointer it read earlier is not stale.
NoStaleNext ==
  \A t \in Threads :
    pc[t] = "cas" /\ op[t] \in Removes /\ HeadUnchanged(t) =>
      next[t] = link[ListOf(op[t])][copy[t].node]

NoABA == NoWrap => NoStaleNext

-----------------------------------------------------------------------------
(* The strengthening that makes the invariants above inductive. *)

\* Thread t has a node in hand: between its removal, or operator new, and
\* its insertion.
Holds(t) ==
  \/ op[t] \in Removes /\ pc[t] = "count"
  \/ op[t] \in Inserts /\ pc[t] # "count"

\* Where a thread can be in each function, and what its locals hold there.
LocalsOK ==
  \A t \in Threads :
    /\ op[t] = "None" <=> pc[t] = "idle"
    /\ pc[t] = "next" => op[t] \in Removes
    /\ pc[t] \in {"next", "cas"} /\ op[t] \in Removes => copy[t].node # Null
    /\ node[t] # Null <=> Holds(t)

\* A node about to be inserted points at the head its thread read.
LinkedToCopy ==
  \A t \in Threads : pc[t] = "cas" /\ op[t] \in Inserts =>
                       link[ListOf(op[t])][node[t]] = copy[t].node

\* Thread t has drawn a stamp of list l that it has not used.
Pending(t, l) == pc[t] \in {"read", "next", "cas"} /\ ListOf(op[t]) = l

\* Thread t holds a copy of the head word of list l.
HasCopy(t, l) == pc[t] \in {"next", "cas"} /\ ListOf(op[t]) = l

\* A stamp drawn and not yet used occurs nowhere else, and no stamp is ahead
\* of the counter it came from.
StampsFresh ==
  \A l \in Lists :
    /\ top[l].stamp <= unique[l]
    /\ \A t \in Threads : HasCopy(t, l) => copy[t].stamp <= unique[l]
    /\ \A t \in Threads : Pending(t, l) =>
         /\ stamp[t] <= unique[l]
         /\ stamp[t] # top[l].stamp
         /\ \A u \in Threads : HasCopy(u, l) => stamp[t] # copy[u].stamp
         /\ \A u \in Threads : Pending(u, l) /\ u # t => stamp[t] # stamp[u]

Intact == Linked /\ OnePlace /\ LinkedToCopy /\ StampsFresh /\ NoStaleNext

IInv == TypeOK /\ LocalsOK /\ (NoWrap => Intact)

-----------------------------------------------------------------------------
(* Refinement: the nodes of the list "stack" carry the abstract stack's    *)
(* data; a call takes effect at its successful compare-exchange.           *)

CallOf(t) ==
  CASE op[t] = "None" -> [kind |-> "idle", val |-> NoValue]
    [] op[t] = "Alloc" \/ (op[t] = "Push" /\ pc[t] # "count") ->
         [kind |-> "pushing", val |-> val[t]]
    [] op[t] = "Push" /\ pc[t] = "count" ->
         [kind |-> "pushed", val |-> NoValue]
    [] op[t] = "Pop" /\ pc[t] # "count" ->
         [kind |-> "popping", val |-> NoValue]
    [] op[t] = "Pop" /\ pc[t] = "count" ->
         [kind |-> "popped", val |-> data[node[t]]]
    [] op[t] = "Free" -> [kind |-> "popped", val |-> val[t]]

Abs == INSTANCE AtomicStack
         WITH stack <- [i \in DOMAIN list["stack"] |-> data[list["stack"][i]]],
              call <- [t \in Threads |-> CallOf(t)]

\* Callers cannot tell the lock-free stack from an atomic LIFO stack.
Linearizable == Abs!Spec

\* Lock freedom: a call retries only because another call succeeded, so once
\* no further calls start every call under way returns.
CallsReturn == \A t \in Threads : ~Idle(t) ~> Idle(t)

=============================================================================
