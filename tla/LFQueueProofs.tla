---------------------------- MODULE LFQueueProofs ----------------------------
(* LFQueue for any threads, any number of nodes and any number of calls, as  *)
(* long as the stamp of tail_ABA has not come round: the list, the free list *)
(* and the nodes in the threads' hands stay apart, nothing is dequeued twice *)
(* or lost, and one producer's data stay in order.                           *)
EXTENDS LFQueue, SequenceTheorems, FiniteSetTheorems, TLAPS

\* The tail can move once more before its stamp comes round.  The head's stamp
\* is never ahead of the tail's.
NoWrap == tail.stamp + 1 < StampMod

-----------------------------------------------------------------------------
(* The inductive invariant.  It speaks of things the code does not keep:   *)
(*   kind    which of the list, the hands of a thread, the free list and   *)
(*           the untouched memory a node is in                             *)
(*   holder  the thread that holds it                                      *)
(*   place   how many nodes were linked before it, for a node of the list; *)
(*           how far behind the holder's own node it hangs, for a node in  *)
(*           a thread's hands                                              *)
(*   top     the place of the last node of the list                        *)
(*   deep    the place of the last node that hangs behind a thread's node  *)
(*   rank    the order in which the threads took their nodes               *)
(*   clock   a number above every rank                                     *)

Statements ==
  {"idle", "construct", "tail", "tailNext", "link", "help", "size", "swing",
   "unreserve", "dqHead", "dqTail", "dqTailNext", "dqSwing", "dqNext",
   "dqData", "dqCas", "dqFree"}

\* The statements of an Enqueue that has not linked its node.
Private == {"construct", "tail", "tailNext", "link", "help"}
Built == {"tail", "tailNext", "link", "help"}

\* The statements at which a thread has copied tail_ABA, and head_ABA.
TailRead == {"tailNext", "link", "help", "size", "swing", "dqTailNext", "dqSwing"}
HeadRead == {"dqTail", "dqTailNext", "dqSwing", "dqNext", "dqData", "dqCas"}

Data == (Threads \X Nat) \union {NoData}
NodeOrNull == Nodes \union {Null}

TypeOK ==
  /\ head \in [stamp : Nat, node : Nodes]
  /\ tail \in [stamp : Nat, node : Nodes]
  /\ next \in [Nodes -> NodeOrNull]
  /\ data \in [Nodes -> Data]
  /\ size \in Int
  /\ free \in Seq(Nodes)
  /\ heap \in SUBSET Nodes
  /\ pc \in [Threads -> Statements]
  /\ node \in [Threads -> NodeOrNull]
  /\ cHead \in [Threads -> [stamp : Nat, node : NodeOrNull]]
  /\ cTail \in [Threads -> [stamp : Nat, node : NodeOrNull]]
  /\ cNext \in [Threads -> NodeOrNull]
  /\ cData \in [Threads -> Data]
  /\ sent \in [Threads -> 0 .. MaxEnqueue]
  /\ got \in Seq(Data)

GhostOK(kind, holder, place, top, deep, rank, clock) ==
  /\ kind \in [Nodes -> {"list", "held", "free", "new"}]
  /\ holder \in [Nodes -> Threads \union {Null}]
  /\ place \in [Nodes -> Nat]
  /\ top \in Nat
  /\ deep \in [Threads -> Nat]
  /\ rank \in [Threads -> Nat]
  /\ clock \in Nat

\* Node n is in the hands of thread t.
Held(kind, holder, n, t) == kind[n] = "held" /\ holder[n] = t

\* The free list has every free node once, and a free node has a next: what
\* was in the list has been overtaken by the head.
KindOK(kind) ==
  /\ IsInjective(free)
  /\ \A n \in Nodes :
       /\ kind[n] = "new" <=> n \notin heap
       /\ kind[n] = "free" <=> n \in Range(free)
       /\ kind[n] = "free" => next[n] # Null

\* The list: one node at every place from the head's to top, each followed by
\* the one at the next place; a word's stamp is the place of its node.
ListOK(kind, place, top) ==
  /\ kind[head.node] = "list" /\ place[head.node] = head.stamp
  /\ kind[tail.node] = "list" /\ place[tail.node] = tail.stamp
  /\ \A n \in Nodes : kind[n] = "list" =>
       /\ head.stamp <= place[n] /\ place[n] <= top
       /\ next[n] = Null <=> place[n] = top
       /\ next[n] # Null => kind[next[n]] = "list" /\ place[next[n]] = place[n] + 1
  /\ \A m, n \in Nodes :
       kind[m] = "list" /\ kind[n] = "list" /\ place[m] = place[n] => m = n
  /\ \A k \in head.stamp .. top : \E n \in Nodes : kind[n] = "list" /\ place[n] = k

\* Who holds nodes: an Enqueue from Alloc to its compare-exchange, its own
\* node and what others have linked behind it, and a Dequeue about to free
\* the old dummy.
OwnersOK(kind, holder, place, deep) ==
  /\ \A n \in Nodes : kind[n] = "held" =>
       holder[n] \in Threads /\ pc[holder[n]] \in Private \union {"dqFree"}
  /\ \A t \in Threads :
       /\ pc[t] \in Private =>
            node[t] \in Nodes /\ Held(kind, holder, node[t], t) /\ place[node[t]] = 0
       /\ pc[t] = "construct" =>
            /\ \A n \in Nodes : Held(kind, holder, n, t) => n = node[t]
            /\ deep[t] = 0
            /\ next[node[t]] = Null =>
                 \A u \in Threads : pc[u] \in TailRead => cTail[u].node # node[t]
       /\ pc[t] = "dqFree" =>
            /\ cHead[t].node \in Nodes /\ next[cHead[t].node] # Null
            /\ \A n \in Nodes : Held(kind, holder, n, t) <=> n = cHead[t].node

\* What hangs behind a node that is not linked yet is a list of its own.
BehindOK(kind, holder, place, deep) ==
  /\ \A n \in Nodes : kind[n] = "held" /\ pc[holder[n]] \in Built =>
       /\ place[n] <= deep[holder[n]]
       /\ next[n] = Null <=> place[n] = deep[holder[n]]
       /\ next[n] # Null => Held(kind, holder, next[n], holder[n])
                            /\ place[next[n]] = place[n] + 1
  /\ \A m, n \in Nodes :
       kind[m] = "held" /\ kind[n] = "held" /\ holder[m] = holder[n]
       /\ pc[holder[n]] \in Built /\ place[m] = place[n] => m = n
  /\ \A t \in Threads : pc[t] \in Built =>
       \A k \in 0 .. deep[t] : \E n \in Nodes : Held(kind, holder, n, t) /\ place[n] = k

\* A copy of a word: it is the word itself unless the word has moved.
Copy(w, word) ==
  w.node \in heap /\ w.stamp <= word.stamp /\ (w.stamp = word.stamp => w = word)

\* What thread t knows, if the words it copied have not moved.
CopiesOK(t) ==
  /\ pc[t] \in TailRead => Copy(cTail[t], tail)
  /\ pc[t] \in HeadRead => Copy(cHead[t], head)
  /\ pc[t] \in {"size", "swing"} =>
       node[t] \in Nodes /\ (tail = cTail[t] => next[tail.node] = node[t])
  /\ pc[t] \in {"help", "dqSwing"} =>
       cNext[t] \in Nodes /\ (tail = cTail[t] => next[tail.node] = cNext[t])
  /\ pc[t] \in {"dqTailNext", "dqSwing"} => cHead[t] = cTail[t]
  /\ pc[t] \in {"dqNext", "dqData", "dqCas"} => cHead[t].stamp < tail.stamp
  /\ pc[t] \in {"dqData", "dqCas"} =>
       cNext[t] \in Nodes /\ (head = cHead[t] => next[head.node] = cNext[t])
  /\ pc[t] = "dqCas" /\ head = cHead[t] => cData[t] = data[cNext[t]]

\* A thread that may link behind a node in another's hands took its own node
\* first: no two nodes are linked behind each other.
RankOK(kind, holder, rank, clock) ==
  /\ \A t \in Threads : rank[t] < clock
  /\ \A t, u \in Threads :
       pc[t] \in {"tailNext", "link"} /\ pc[u] \in Private
       /\ Held(kind, holder, cTail[t].node, u) => rank[t] < rank[u]

\* The words, the nodes and what the threads know of them.
Core(kind, holder, place, top, deep, rank, clock) ==
  /\ TypeOK
  /\ GhostOK(kind, holder, place, top, deep, rank, clock)
  /\ KindOK(kind)
  /\ ListOK(kind, place, top)
  /\ OwnersOK(kind, holder, place, deep)
  /\ BehindOK(kind, holder, place, deep)
  /\ \A t \in Threads : CopiesOK(t)
  /\ RankOK(kind, holder, rank, clock)

-----------------------------------------------------------------------------
(* What the steps are made of *)

\* A stamp that does not come round is one more.
LEMMA NextStamp ==
  ASSUME NEW w, w.stamp \in Nat, w.stamp + 1 < StampMod, NEW n
  PROVE  Moved(w, n) = Word(w.stamp + 1, n)
<1>1. StampMod \in Nat /\ StampMod > 0
  BY ConstantAssumption
<1>2. \A a, m \in Nat : a < m /\ m > 0 => a % m = a
  OBVIOUS
<1>3. (w.stamp + 1) % StampMod = w.stamp + 1
  BY <1>1, <1>2
<1> QED BY <1>3 DEF Moved

\* The free list: what Free puts on it and Alloc takes from it.
LEMMA FreePush ==
  ASSUME NEW s \in Seq(Nodes), IsInjective(s), NEW n \in Nodes, n \notin Range(s)
  PROVE  /\ Append(s, n) \in Seq(Nodes) /\ IsInjective(Append(s, n))
         /\ Range(Append(s, n)) = Range(s) \union {n}
<1>1. /\ Len(s) \in Nat /\ DOMAIN s = 1 .. Len(s)
      /\ Append(s, n) \in Seq(Nodes)
      /\ DOMAIN Append(s, n) = 1 .. Len(s) + 1
      /\ \A i \in 1 .. Len(s) : Append(s, n)[i] = s[i]
      /\ Append(s, n)[Len(s) + 1] = n
  BY AppendProperties, LenProperties
<1> DEFINE r == Append(s, n)
<1>2. DOMAIN r = (1 .. Len(s)) \union {Len(s) + 1} /\ Len(s) + 1 \notin 1 .. Len(s)
  BY <1>1
<1> HIDE DEF r
<1>3. Range(r) = Range(s) \union {n}
  BY <1>1, <1>2 DEF Range, r
<1>4. \A i, j \in DOMAIN r : r[i] = r[j] => i = j
  <2>1. \A i \in 1 .. Len(s) : r[i] = s[i] /\ r[i] # n
    BY <1>1 DEF Range, r
  <2>2. r[Len(s) + 1] = n
    BY <1>1 DEF r
  <2>3. \A i, j \in 1 .. Len(s) : s[i] = s[j] => i = j
    BY <1>1 DEF IsInjective
  <2> QED BY <1>2, <2>1, <2>2, <2>3
<1> QED BY <1>1, <1>3, <1>4 DEF IsInjective, r

LEMMA FreePop ==
  ASSUME NEW s \in Seq(Nodes), IsInjective(s), s # <<>>
  PROVE  LET r == SubSeq(s, 1, Len(s) - 1)
             n == s[Len(s)]
         IN  /\ n \in Nodes /\ n \in Range(s)
             /\ r \in Seq(Nodes) /\ IsInjective(r) /\ Range(r) = Range(s) \ {n}
<1> DEFINE r == SubSeq(s, 1, Len(s) - 1)
           n == s[Len(s)]
<1>1. /\ Len(s) \in Nat /\ Len(s) >= 1 /\ DOMAIN s = 1 .. Len(s)
      /\ \A i \in 1 .. Len(s) : s[i] \in Nodes
  BY LenProperties, EmptySeq, ElementOfSeq
<1>2. /\ r \in Seq(Nodes) /\ Len(r) = Len(s) - 1
      /\ \A i \in 1 .. Len(s) - 1 : r[i] = s[i]
  <2>1. \A i \in 1 .. Len(s) - 1 : s[i] \in Nodes
    BY <1>1
  <2>2. /\ r \in Seq(Nodes)
        /\ Len(r) = IF 1 <= Len(s) - 1 THEN (Len(s) - 1) - 1 + 1 ELSE 0
        /\ \A i \in 1 .. (Len(s) - 1) - 1 + 1 : r[i] = s[1 + i - 1]
    BY <1>1, <2>1, SubSeqProperties
  <2> HIDE DEF r
  <2>3. Len(r) = Len(s) - 1
    <3> DEFINE len == Len(s)
    <3>1. len \in Nat /\ Len(r) = IF 1 <= len - 1 THEN (len - 1) - 1 + 1 ELSE 0
      BY <1>1, <2>2
    <3>2. len >= 1
      BY <1>1
    <3> HIDE DEF len
    <3>3. Len(r) = len - 1
      BY <3>1, <3>2
    <3> QED BY <3>3 DEF len
  <2>4. (Len(s) - 1) - 1 + 1 = Len(s) - 1
    BY <1>1
  <2>5. \A i \in 1 .. Len(s) - 1 : r[i] = s[i]
    <3> TAKE i \in 1 .. Len(s) - 1
    <3>1. r[i] = s[1 + i - 1]
      BY <2>2, <2>4
    <3>2. 1 + i - 1 = i
      BY <1>1
    <3> QED BY <3>1, <3>2
  <2> QED BY <2>2, <2>3, <2>5
<1>3. DOMAIN r = 1 .. Len(s) - 1
  BY <1>2, LenProperties
<1>4. /\ 1 .. Len(s) = (1 .. Len(s) - 1) \union {Len(s)}
      /\ Len(s) \notin 1 .. Len(s) - 1
  BY <1>1
<1> HIDE DEF r
<1>5. IsInjective(r)
  BY <1>1, <1>2, <1>3, <1>4 DEF IsInjective
<1>6. \A i \in 1 .. Len(s) - 1 : s[i] # n
  BY <1>1, <1>4 DEF IsInjective
<1>7. Range(r) = Range(s) \ {n}
  BY <1>1, <1>2, <1>3, <1>4, <1>6 DEF Range
<1>8. n \in Nodes /\ n \in Range(s)
  BY <1>1 DEF Range
<1> QED BY <1>2, <1>5, <1>7, <1>8 DEF r

\* Where thread t goes; the others stay.
LEMMA GotoFacts ==
  ASSUME TypeOK, NEW t \in Threads, NEW from, NEW to \in Statements, Goto(t, from, to)
  PROVE  /\ pc[t] = from /\ pc' = [pc EXCEPT ![t] = to]
         /\ pc' \in [Threads -> Statements] /\ pc'[t] = to
         /\ \A u \in Threads : u # t => pc'[u] = pc[u]
BY DEF TypeOK, Goto

\* The tail moves to the next node of the list or stays.
TailStep ==
  \/ tail' = tail
  \/ next[tail.node] # Null /\ tail' = Word(tail.stamp + 1, next[tail.node])

\* The words and the list change in no other way than that the words move on
\* and the list grows at its end: what another thread knows stays true.
Onward ==
  /\ heap \subseteq heap'
  /\ tail' = tail \/ tail'.stamp > tail.stamp
  /\ head' = head \/ head'.stamp > head.stamp
  /\ next[tail.node] # Null => next'[tail.node] = next[tail.node]
  /\ next[head.node] # Null =>
       /\ next'[head.node] = next[head.node]
       /\ data'[next[head.node]] = data[next[head.node]]

Unmoved(u) ==
  /\ pc'[u] = pc[u] /\ node'[u] = node[u] /\ cHead'[u] = cHead[u]
  /\ cTail'[u] = cTail[u] /\ cNext'[u] = cNext[u] /\ cData'[u] = cData[u]

LEMMA CopyStays ==
  ASSUME NEW w, w.stamp \in Nat, NEW v, NEW z, v.stamp \in Nat, z.stamp \in Nat,
         w.stamp <= v.stamp, w.stamp = v.stamp => w = v,
         z = v \/ z.stamp > v.stamp
  PROVE  /\ w.stamp <= z.stamp /\ (w.stamp = z.stamp => w = z)
         /\ z = w => v = w /\ z = v
OBVIOUS

LEMMA CopiesStay ==
  ASSUME TypeOK, TypeOK', Onward, NEW u \in Threads, Unmoved(u), CopiesOK(u)
  PROVE  CopiesOK(u)'
<1> USE DEF Unmoved
<1>1. /\ tail.stamp \in Nat /\ tail'.stamp \in Nat /\ head.stamp \in Nat
      /\ head'.stamp \in Nat /\ cTail[u].stamp \in Nat /\ cHead[u].stamp \in Nat
      /\ Null \notin Nodes /\ tail.node \in Nodes /\ head.node \in Nodes
  BY ConstantAssumption DEF TypeOK
<1>2. tail'.stamp >= tail.stamp
  BY <1>1 DEF Onward
<1>3. ASSUME pc[u] \in TailRead
      PROVE  Copy(cTail[u], tail)' /\ (tail' = cTail[u] => tail' = tail /\ tail = cTail[u])
  <2>1. Copy(cTail[u], tail)
    BY <1>3 DEF CopiesOK
  <2> QED BY <1>1, <2>1, CopyStays DEF Copy, Onward
<1>4. ASSUME pc[u] \in HeadRead
      PROVE  Copy(cHead[u], head)' /\ (head' = cHead[u] => head' = head /\ head = cHead[u])
  <2>1. Copy(cHead[u], head)
    BY <1>4 DEF CopiesOK
  <2> QED BY <1>1, <2>1, CopyStays DEF Copy, Onward
<1>5. pc[u] \in {"size", "swing"} =>
        node[u] \in Nodes /\ (tail' = cTail[u] => next'[tail'.node] = node[u])
  BY <1>1, <1>3 DEF CopiesOK, Onward, TailRead
<1>6. pc[u] \in {"help", "dqSwing"} =>
        cNext[u] \in Nodes /\ (tail' = cTail[u] => next'[tail'.node] = cNext[u])
  BY <1>1, <1>3 DEF CopiesOK, Onward, TailRead
<1>7. pc[u] \in {"dqNext", "dqData", "dqCas"} => cHead[u].stamp < tail'.stamp
  BY <1>1, <1>2 DEF CopiesOK
<1>8. pc[u] \in {"dqData", "dqCas"} =>
        cNext[u] \in Nodes /\ (head' = cHead[u] => next'[head'.node] = cNext[u])
  BY <1>1, <1>4 DEF CopiesOK, Onward, HeadRead
<1>9. pc[u] = "dqCas" /\ head' = cHead[u] => cData[u] = data'[cNext[u]]
  BY <1>1, <1>4 DEF CopiesOK, Onward, HeadRead
<1> QED BY <1>3, <1>4, <1>5, <1>6, <1>7, <1>8, <1>9 DEF CopiesOK

\* The words of another thread's step, and what it does to the list, when it
\* does nothing else than move the tail.
LEMMA CalmList ==
  ASSUME TypeOK, NEW kind, NEW place, NEW top, top \in Nat,
         place \in [Nodes -> Nat],
         ListOK(kind, place, top), TailStep, UNCHANGED <<head, next>>
  PROVE  ListOK(kind, place, top)'
<1>1. /\ tail.node \in Nodes /\ tail.stamp \in Nat
      /\ next[tail.node] # Null => next[tail.node] \in Nodes
  BY DEF TypeOK, NodeOrNull
<1>2. tail' = Word(tail.stamp + 1, next[tail.node]) =>
        tail'.node = next[tail.node] /\ tail'.stamp = tail.stamp + 1
  BY DEF Word
<1>3. kind[tail'.node] = "list" /\ place[tail'.node] = tail'.stamp
  BY <1>1, <1>2 DEF TailStep, ListOK
<1> QED BY <1>3 DEF ListOK

LEMMA CalmOnward ==
  ASSUME TypeOK, TailStep, UNCHANGED <<head, next, data, heap>>
  PROVE  Onward
<1>1. tail' = tail \/ tail'.stamp > tail.stamp
  BY DEF TailStep, Word, TypeOK
<1> QED BY <1>1 DEF Onward

\* A step of thread t between two statements of the same kind, that changes
\* no node and no word but the tail.
LEMMA CalmCore ==
  ASSUME NEW kind, NEW holder, NEW place, NEW top, NEW deep, NEW rank, NEW clock,
         Core(kind, holder, place, top, deep, rank, clock),
         NEW t \in Threads, NEW to \in Statements,
         pc' = [pc EXCEPT ![t] = to],
         TypeOK', CopiesOK(t)', TailStep,
         UNCHANGED <<head, next, data, free, heap>>,
         \A u \in Threads : u # t => Unmoved(u),
         pc[t] \in Built <=> to \in Built,
         pc[t] \notin {"construct", "dqFree"}, to \notin {"construct", "dqFree"},
         to \in Built => node'[t] = node[t],
         to \in TailRead =>
           cTail'[t] = tail \/ (pc[t] \in TailRead /\ cTail'[t] = cTail[t]),
         to \in {"tailNext", "link"} =>
           cTail'[t] = tail \/ (pc[t] \in {"tailNext", "link"} /\ cTail'[t] = cTail[t])
  PROVE  Core(kind, holder, place, top, deep, rank, clock)'
<1>1. /\ TypeOK /\ pc \in [Threads -> Statements]
      /\ GhostOK(kind, holder, place, top, deep, rank, clock)
  BY DEF Core, TypeOK
<1>2. pc'[t] = to /\ \A u \in Threads : u # t => pc'[u] = pc[u]
  BY <1>1
<1>3. \A u \in Threads :
        /\ pc'[u] \in Built <=> pc[u] \in Built
        /\ pc'[u] = "construct" <=> pc[u] = "construct"
        /\ pc'[u] = "dqFree" <=> pc[u] = "dqFree"
        /\ pc'[u] \in Private <=> pc[u] \in Private
        /\ pc[u] \in Private => node'[u] = node[u]
        /\ pc[u] = "dqFree" => cHead'[u] = cHead[u]
  BY <1>2 DEF Unmoved, Private, Built
<1>4. KindOK(kind)'
  BY DEF Core, KindOK
<1>5. ListOK(kind, place, top)'
  BY <1>1, CalmList DEF Core, GhostOK
<1>6. OwnersOK(kind, holder, place, deep)'
  <2>1. \A n \in Nodes : kind[n] = "held" =>
          holder[n] \in Threads /\ pc'[holder[n]] \in Private \union {"dqFree"}
    BY <1>3 DEF Core, OwnersOK
  <2>2. ASSUME NEW u \in Threads, pc'[u] = "construct", next[node[u]] = Null,
               NEW v \in Threads, pc'[v] \in TailRead
        PROVE  cTail'[v].node # node[u]
    <3>1. /\ pc[u] = "construct" /\ node[u] \in Nodes
          /\ Held(kind, holder, node[u], u) /\ kind[tail.node] = "list"
      BY <1>3, <2>2 DEF Core, OwnersOK, ListOK, Private
    <3>2. CASE v # t
      BY <1>2, <2>2, <3>1, <3>2 DEF Core, OwnersOK, Unmoved
    <3>3. CASE v = t /\ cTail'[t] = tail
      BY <3>1, <3>3 DEF Held
    <3>4. CASE v = t /\ pc[t] \in TailRead /\ cTail'[t] = cTail[t]
      BY <2>2, <3>1, <3>4 DEF Core, OwnersOK
    <3> QED BY <1>2, <2>2, <3>2, <3>3, <3>4
  <2>3. ASSUME NEW u \in Threads
        PROVE  /\ pc'[u] \in Private =>
                    node'[u] \in Nodes /\ Held(kind, holder, node'[u], u)
                    /\ place[node'[u]] = 0
               /\ pc'[u] = "construct" =>
                    /\ \A n \in Nodes : Held(kind, holder, n, u) => n = node'[u]
                    /\ deep[u] = 0
                    /\ next'[node'[u]] = Null =>
                         \A v \in Threads : pc'[v] \in TailRead => cTail'[v].node # node'[u]
               /\ pc'[u] = "dqFree" =>
                    /\ cHead'[u].node \in Nodes /\ next'[cHead'[u].node] # Null
                    /\ \A n \in Nodes : Held(kind, holder, n, u) <=> n = cHead'[u].node
    <3>1. pc'[u] = "construct" => pc[u] \in Private /\ node'[u] = node[u]
      BY <1>3 DEF Private
    <3>2. pc'[u] \in Private =>
            node'[u] \in Nodes /\ Held(kind, holder, node'[u], u)
            /\ place[node'[u]] = 0
      BY <1>3 DEF Core, OwnersOK
    <3>3. pc'[u] = "construct" =>
            (\A n \in Nodes : Held(kind, holder, n, u) => n = node'[u]) /\ deep[u] = 0
      BY <1>3, <3>1 DEF Core, OwnersOK
    <3>4. pc'[u] = "construct" /\ next'[node'[u]] = Null =>
            \A v \in Threads : pc'[v] \in TailRead => cTail'[v].node # node'[u]
      BY <2>2, <3>1
    <3>5. pc'[u] = "dqFree" =>
            /\ cHead'[u].node \in Nodes /\ next'[cHead'[u].node] # Null
            /\ \A n \in Nodes : Held(kind, holder, n, u) <=> n = cHead'[u].node
      BY <1>3 DEF Core, OwnersOK
    <3> QED BY <3>2, <3>3, <3>4, <3>5
  <2> QED BY <2>1, <2>3 DEF OwnersOK, Held
<1>7. BehindOK(kind, holder, place, deep)'
  <2>1. \A n \in Nodes : kind[n] = "held" => holder[n] \in Threads
    BY DEF Core, OwnersOK
  <2> QED BY <1>3, <2>1 DEF Core, BehindOK, Held
<1>8. \A u \in Threads : CopiesOK(u)'
  <2>1. Onward
    BY <1>1, CalmOnward
  <2> QED BY <1>1, <2>1, CopiesStay DEF Core
<1>9. RankOK(kind, holder, rank, clock)'
  <2>1. ASSUME NEW v \in Threads, NEW u \in Threads, pc'[v] \in {"tailNext", "link"},
               pc'[u] \in Private, Held(kind, holder, cTail'[v].node, u)
        PROVE  rank[v] < rank[u]
    <3>1. pc[u] \in Private /\ kind[tail.node] = "list"
      BY <1>3, <2>1 DEF Core, ListOK
    <3>2. CASE v # t
      BY <1>2, <2>1, <3>1, <3>2 DEF Core, RankOK, Unmoved
    <3>3. CASE v = t /\ cTail'[t] = tail
      BY <2>1, <3>1, <3>3 DEF Held
    <3>4. CASE v = t /\ pc[t] \in {"tailNext", "link"} /\ cTail'[t] = cTail[t]
      BY <2>1, <3>1, <3>4 DEF Core, RankOK
    <3> QED BY <1>2, <2>1, <3>2, <3>3, <3>4
  <2> QED BY <2>1 DEF Core, RankOK, Held
<1> QED BY <1>1, <1>4, <1>5, <1>6, <1>7, <1>8, <1>9 DEF Core, GhostOK

-----------------------------------------------------------------------------
(* The steps that change no node and no word but the tail *)

Calm(t) ==
  \/ ReadTail(t) \/ ReadTailNext(t) \/ LinkFails(t) \/ HelpTail(t)
  \/ CountEnqueue(t) \/ EnqueueReturn(t) \/ Reserve(t) \/ Unreserve(t)
  \/ DqReadHead(t) \/ DqReadTail(t) \/ DqTailNextNull(t) \/ DqTailNext(t)
  \/ DqSwingTail(t) \/ DqNextNull(t) \/ DqNext(t) \/ DqData(t) \/ DqCasFails(t)

\* The conclusions CalmCore draws its own from.
CalmStep(t, to) ==
  /\ pc' = [pc EXCEPT ![t] = to]
  /\ TypeOK' /\ CopiesOK(t)' /\ TailStep
  /\ UNCHANGED <<head, next, data, free, heap, sent, got>>
  /\ \A u \in Threads : u # t => Unmoved(u)
  /\ to \in {"size", "swing"} => pc[t] = "size"
  /\ pc[t] \in Built <=> to \in Built
  /\ pc[t] \notin {"construct", "dqFree"} /\ to \notin {"construct", "dqFree"}
  /\ to \in Built => node'[t] = node[t]
  /\ to \in TailRead =>
       cTail'[t] = tail \/ (pc[t] \in TailRead /\ cTail'[t] = cTail[t])
  /\ to \in {"tailNext", "link"} =>
       cTail'[t] = tail \/ (pc[t] \in {"tailNext", "link"} /\ cTail'[t] = cTail[t])

\* The tail's compare-exchange: it moves the tail to the next node, or finds
\* that the tail has moved.
LEMMA SwingMoves ==
  ASSUME TypeOK, NoWrap, NEW t \in Threads, NEW n \in Nodes,
         Copy(cTail[t], tail), tail = cTail[t] => next[tail.node] = n,
         SwingTail(t, n)
  PROVE  TailStep /\ tail' \in [stamp : Nat, node : Nodes]
         /\ cTail[t].stamp < tail'.stamp
<1>1. /\ tail.stamp \in Nat /\ tail.node \in Nodes /\ cTail[t].stamp \in Nat
      /\ n # Null /\ tail \in [stamp : Nat, node : Nodes]
  BY ConstantAssumption DEF TypeOK
<1>2. CASE tail = cTail[t]
  <2>1. tail' = Word(tail.stamp + 1, n)
    BY <1>1, <1>2, NextStamp DEF SwingTail, NoWrap
  <2>2. next[tail.node] # Null /\ next[tail.node] = n
    BY <1>1, <1>2
  <2> QED BY <1>1, <1>2, <2>1, <2>2 DEF TailStep, Word
<1>3. CASE tail # cTail[t]
  BY <1>1, <1>3 DEF SwingTail, TailStep, Copy
<1> QED BY <1>2, <1>3

LEMMA AgainCalm ==
  ASSUME TypeOK, NEW t \in Threads, NEW from, NEW to,
         <<from, to>> \in {<<"link", "tail">>, <<"dqTailNext", "dqHead">>,
                           <<"dqNext", "dqHead">>, <<"dqCas", "dqHead">>},
         Again(t, from, to), UNCHANGED <<queue, pool, history>>
  PROVE  CalmStep(t, to)
<1>1. from \in Statements /\ to \in Statements
  BY DEF Statements
<1>2. /\ pc' = [pc EXCEPT ![t] = to] /\ pc[t] = from
      /\ pc' \in [Threads -> Statements] /\ pc'[t] = to
      /\ \A u \in Threads : u # t => pc'[u] = pc[u]
  BY <1>1, GotoFacts DEF Again
<1>3. NoWord \in [stamp : Nat, node : NodeOrNull] /\ NoData \in Data /\ Null \in NodeOrNull
  BY DEF NoWord, Word, NodeOrNull, Data
<1>4. TypeOK'
  BY <1>2, <1>3 DEF TypeOK, Again, queue, pool, history
<1>5. CopiesOK(t)'
  BY <1>2 DEF CopiesOK, TailRead, HeadRead
<1>6. \A u \in Threads : u # t => Unmoved(u)
  BY <1>2 DEF Unmoved, Again, TypeOK
<1> QED BY <1>2, <1>4, <1>5, <1>6
        DEF CalmStep, TailStep, Again, queue, pool, history, Built, TailRead

LEMMA ReadCalm ==
  ASSUME TypeOK, NEW t \in Threads, CopiesOK(t), tail.node \in heap, head.node \in heap,
         head.stamp <= tail.stamp, head.stamp = tail.stamp => head.node = tail.node,
         \/ ReadTail(t) \/ ReadTailNext(t) \/ DqReadHead(t) \/ DqReadTail(t)
         \/ DqTailNext(t) \/ DqNext(t) \/ DqData(t)
  PROVE  \E to \in Statements : CalmStep(t, to)
<1>1. UNCHANGED <<queue, pool, node, history>>
  BY DEF ReadTail, ReadTailNext, DqReadHead, DqReadTail, DqTailNext, DqNext, DqData
<1>2. UNCHANGED <<head, tail, next, data, size, free, heap, sent, got>>
  BY <1>1 DEF queue, pool, history
<1>3. /\ \A n \in Nodes : next[n] \in NodeOrNull /\ (next[n] # Null => next[n] \in Nodes)
      /\ heap \subseteq Nodes /\ Null \notin Nodes
      /\ tail \in [stamp : Nat, node : NodeOrNull]
      /\ head \in [stamp : Nat, node : NodeOrNull]
      /\ head \in [stamp : Nat, node : Nodes] /\ tail \in [stamp : Nat, node : Nodes]
      /\ cHead[t] \in [stamp : Nat, node : NodeOrNull]
      /\ cTail[t] \in [stamp : Nat, node : NodeOrNull]
  BY ConstantAssumption DEF TypeOK, NodeOrNull
<1>4. TailStep
  BY <1>2 DEF TailStep
<1>5. CASE ReadTail(t)
  <2>1. /\ pc' = [pc EXCEPT ![t] = "tailNext"] /\ pc[t] = "tail"
        /\ pc' \in [Threads -> Statements] /\ pc'[t] = "tailNext"
        /\ \A u \in Threads : u # t => pc'[u] = pc[u]
    BY <1>5, GotoFacts DEF ReadTail, Statements
  <2>2. TypeOK'
    BY <1>1, <1>2, <1>3, <1>5, <2>1 DEF TypeOK, ReadTail
  <2>3. cTail'[t] = tail
    BY <1>5 DEF ReadTail, TypeOK
  <2>4. CopiesOK(t)'
    BY <1>2, <1>3, <2>1, <2>3 DEF CopiesOK, TailRead, HeadRead, Copy
  <2>5. \A u \in Threads : u # t => Unmoved(u)
    BY <1>1, <1>5, <2>1 DEF Unmoved, ReadTail, TypeOK
  <2>6. CalmStep(t, "tailNext")
    BY <1>1, <1>2, <1>4, <2>1, <2>2, <2>3, <2>4, <2>5 DEF CalmStep, Built, TailRead
  <2> QED BY <2>6 DEF Statements
<1>6. CASE ReadTailNext(t)
  <2> DEFINE n == cTail[t].node
             to == IF next[n] = Null THEN "link" ELSE "help"
  <2>1. to \in {"link", "help"} /\ to \in Statements
    BY DEF Statements
  <2>2. /\ pc' = [pc EXCEPT ![t] = to] /\ pc[t] = "tailNext"
        /\ pc' \in [Threads -> Statements] /\ pc'[t] = to
        /\ \A u \in Threads : u # t => pc'[u] = pc[u]
    BY <1>6, <2>1, GotoFacts DEF ReadTailNext
  <2>3. Copy(cTail[t], tail) /\ n \in Nodes
    BY <1>3, <2>2 DEF CopiesOK, TailRead, Copy
  <2>4. TypeOK'
    BY <1>1, <1>2, <1>3, <1>6, <2>2, <2>3 DEF TypeOK, ReadTailNext
  <2>5. cNext'[t] = next[n] /\ cTail' = cTail /\ cHead' = cHead /\ cData' = cData
    BY <1>6 DEF ReadTailNext, TypeOK
  <2>6. CopiesOK(t)'
    BY <1>2, <1>3, <2>1, <2>2, <2>3, <2>5 DEF CopiesOK, TailRead, HeadRead, Copy
  <2>7. \A u \in Threads : u # t => Unmoved(u)
    BY <1>1, <1>6, <2>2 DEF Unmoved, ReadTailNext, TypeOK
  <2> HIDE DEF to
  <2>8. CalmStep(t, to)
    BY <1>1, <1>2, <1>4, <2>1, <2>2, <2>4, <2>5, <2>6, <2>7 DEF CalmStep, Built, TailRead
  <2> QED BY <2>1, <2>8
<1>7. CASE DqReadHead(t)
  <2>1. /\ pc' = [pc EXCEPT ![t] = "dqTail"] /\ pc[t] = "dqHead"
        /\ pc' \in [Threads -> Statements] /\ pc'[t] = "dqTail"
        /\ \A u \in Threads : u # t => pc'[u] = pc[u]
    BY <1>7, GotoFacts DEF DqReadHead, Statements
  <2>2. TypeOK'
    BY <1>1, <1>2, <1>3, <1>7, <2>1 DEF TypeOK, DqReadHead
  <2>3. cHead'[t] = head
    BY <1>7 DEF DqReadHead, TypeOK
  <2>4. CopiesOK(t)'
    BY <1>2, <1>3, <2>1, <2>3 DEF CopiesOK, TailRead, HeadRead, Copy
  <2>5. \A u \in Threads : u # t => Unmoved(u)
    BY <1>1, <1>7, <2>1 DEF Unmoved, DqReadHead, TypeOK
  <2>6. CalmStep(t, "dqTail")
    BY <1>1, <1>2, <1>4, <2>1, <2>2, <2>4, <2>5 DEF CalmStep, Built, TailRead
  <2> QED BY <2>6 DEF Statements
<1>8. CASE DqReadTail(t)
  <2> DEFINE to == IF cHead[t] = tail THEN "dqTailNext" ELSE "dqNext"
  <2>1. to \in {"dqTailNext", "dqNext"} /\ to \in Statements
    BY DEF Statements
  <2>2. /\ pc' = [pc EXCEPT ![t] = to] /\ pc[t] = "dqTail"
        /\ pc' \in [Threads -> Statements] /\ pc'[t] = to
        /\ \A u \in Threads : u # t => pc'[u] = pc[u]
    BY <1>8, <2>1, GotoFacts DEF DqReadTail
  <2>3. Copy(cHead[t], head)
    BY <2>2 DEF CopiesOK, HeadRead
  <2>4. TypeOK'
    BY <1>1, <1>2, <1>3, <1>8, <2>2 DEF TypeOK, DqReadTail
  <2>5. cTail'[t] = tail /\ cHead' = cHead
    BY <1>8 DEF DqReadTail, TypeOK
  <2>6. cHead[t] # tail => cHead[t].stamp < tail.stamp
    BY <1>3, <2>3 DEF Copy
  <2>7. CopiesOK(t)'
    BY <1>2, <1>3, <2>1, <2>2, <2>3, <2>5, <2>6 DEF CopiesOK, TailRead, HeadRead, Copy
  <2>8. \A u \in Threads : u # t => Unmoved(u)
    BY <1>1, <1>8, <2>2 DEF Unmoved, DqReadTail, TypeOK
  <2> HIDE DEF to
  <2>9. CalmStep(t, to)
    BY <1>1, <1>2, <1>4, <2>1, <2>2, <2>4, <2>5, <2>7, <2>8 DEF CalmStep, Built, TailRead
  <2> QED BY <2>1, <2>9
<1>9. CASE DqTailNext(t)
  <2>1. /\ pc' = [pc EXCEPT ![t] = "dqSwing"] /\ pc[t] = "dqTailNext"
        /\ pc' \in [Threads -> Statements] /\ pc'[t] = "dqSwing"
        /\ \A u \in Threads : u # t => pc'[u] = pc[u]
    BY <1>9, GotoFacts DEF DqTailNext, Statements
  <2>2. /\ Copy(cTail[t], tail) /\ cTail[t].node \in Nodes /\ Copy(cHead[t], head)
        /\ cHead[t] = cTail[t]
    BY <1>3, <2>1 DEF CopiesOK, TailRead, HeadRead, Copy
  <2>3. TypeOK'
    BY <1>1, <1>2, <1>3, <1>9, <2>1, <2>2 DEF TypeOK, DqTailNext
  <2>4. /\ cNext'[t] = next[cTail[t].node] /\ cNext'[t] \in Nodes
        /\ cTail' = cTail /\ cHead' = cHead
    BY <1>3, <1>9, <2>2 DEF DqTailNext, TypeOK
  <2>5. CopiesOK(t)'
    BY <1>2, <1>3, <2>1, <2>2, <2>4 DEF CopiesOK, TailRead, HeadRead, Copy
  <2>6. \A u \in Threads : u # t => Unmoved(u)
    BY <1>1, <1>9, <2>1 DEF Unmoved, DqTailNext, TypeOK
  <2>7. CalmStep(t, "dqSwing")
    BY <1>1, <1>2, <1>4, <2>1, <2>3, <2>4, <2>5, <2>6 DEF CalmStep, Built, TailRead
  <2> QED BY <2>7 DEF Statements
<1>10. CASE DqNext(t)
  <2>1. /\ pc' = [pc EXCEPT ![t] = "dqData"] /\ pc[t] = "dqNext"
        /\ pc' \in [Threads -> Statements] /\ pc'[t] = "dqData"
        /\ \A u \in Threads : u # t => pc'[u] = pc[u]
    BY <1>10, GotoFacts DEF DqNext, Statements
  <2>2. Copy(cHead[t], head) /\ cHead[t].node \in Nodes /\ cHead[t].stamp < tail.stamp
    BY <1>3, <2>1 DEF CopiesOK, HeadRead, Copy
  <2>3. TypeOK'
    BY <1>1, <1>2, <1>3, <1>10, <2>1, <2>2 DEF TypeOK, DqNext
  <2>4. /\ cNext'[t] = next[cHead[t].node] /\ cNext'[t] \in Nodes
        /\ cTail' = cTail /\ cHead' = cHead
    BY <1>3, <1>10, <2>2 DEF DqNext, TypeOK
  <2>5. CopiesOK(t)'
    BY <1>2, <1>3, <2>1, <2>2, <2>4 DEF CopiesOK, TailRead, HeadRead, Copy
  <2>6. \A u \in Threads : u # t => Unmoved(u)
    BY <1>1, <1>10, <2>1 DEF Unmoved, DqNext, TypeOK
  <2>7. CalmStep(t, "dqData")
    BY <1>1, <1>2, <1>4, <2>1, <2>3, <2>4, <2>5, <2>6 DEF CalmStep, Built, TailRead
  <2> QED BY <2>7 DEF Statements
<1>11. CASE DqData(t)
  <2>1. /\ pc' = [pc EXCEPT ![t] = "dqCas"] /\ pc[t] = "dqData"
        /\ pc' \in [Threads -> Statements] /\ pc'[t] = "dqCas"
        /\ \A u \in Threads : u # t => pc'[u] = pc[u]
    BY <1>11, GotoFacts DEF DqData, Statements
  <2>2. /\ Copy(cHead[t], head) /\ cHead[t].stamp < tail.stamp /\ cNext[t] \in Nodes
        /\ head = cHead[t] => next[head.node] = cNext[t]
    BY <2>1 DEF CopiesOK, HeadRead
  <2>3. data[cNext[t]] \in Data
    BY <2>2 DEF TypeOK
  <2>4. TypeOK'
    BY <1>1, <1>2, <1>11, <2>1, <2>3 DEF TypeOK, DqData
  <2>5. cData'[t] = data[cNext[t]] /\ cNext' = cNext /\ cTail' = cTail /\ cHead' = cHead
    BY <1>11 DEF DqData, TypeOK
  <2>6. CopiesOK(t)'
    BY <1>2, <2>1, <2>2, <2>5 DEF CopiesOK, TailRead, HeadRead, Copy
  <2>7. \A u \in Threads : u # t => Unmoved(u)
    BY <1>1, <1>11, <2>1 DEF Unmoved, DqData, TypeOK
  <2>8. CalmStep(t, "dqCas")
    BY <1>1, <1>2, <1>4, <2>1, <2>4, <2>5, <2>6, <2>7 DEF CalmStep, Built, TailRead
  <2> QED BY <2>8 DEF Statements
<1> QED BY <1>5, <1>6, <1>7, <1>8, <1>9, <1>10, <1>11

LEMMA CountCalm ==
  ASSUME TypeOK, NEW t \in Threads, CopiesOK(t),
         CountEnqueue(t) \/ Reserve(t) \/ Unreserve(t)
  PROVE  \E to \in Statements : CalmStep(t, to)
<1>1. TailStep
  BY DEF TailStep, CountEnqueue, Reserve, Unreserve
<1>2. size' \in Int
  BY DEF CountEnqueue, Reserve, Unreserve, TypeOK
<1>3. CASE CountEnqueue(t)
  <2>1. /\ pc' = [pc EXCEPT ![t] = "swing"] /\ pc[t] = "size"
        /\ pc' \in [Threads -> Statements] /\ pc'[t] = "swing"
        /\ \A u \in Threads : u # t => pc'[u] = pc[u]
    BY <1>3, GotoFacts DEF CountEnqueue, Statements
  <2>2. UNCHANGED <<head, tail, next, data, pool, node, cHead, cTail, cNext, cData, history>>
    BY <1>3 DEF CountEnqueue
  <2>3. TypeOK'
    BY <1>2, <2>1, <2>2 DEF TypeOK, pool, history
  <2>4. CopiesOK(t)'
    BY <2>1, <2>2 DEF CopiesOK, TailRead, HeadRead, Copy, pool
  <2>5. \A u \in Threads : u # t => Unmoved(u)
    BY <2>1, <2>2 DEF Unmoved
  <2>6. CalmStep(t, "swing")
    BY <1>1, <2>1, <2>2, <2>3, <2>4, <2>5 DEF CalmStep, Built, TailRead, pool, history
  <2> QED BY <2>6 DEF Statements
<1>4. CASE Reserve(t)
  <2> DEFINE to == IF size - 1 < 0 THEN "unreserve" ELSE "dqHead"
  <2>1. to \in {"unreserve", "dqHead"} /\ to \in Statements
    BY DEF Statements
  <2>2. /\ pc' = [pc EXCEPT ![t] = to] /\ pc[t] = "idle"
        /\ pc' \in [Threads -> Statements] /\ pc'[t] = to
        /\ \A u \in Threads : u # t => pc'[u] = pc[u]
    BY <1>4, <2>1, GotoFacts DEF Reserve
  <2>3. UNCHANGED <<head, tail, next, data, pool, node, cHead, cTail, cNext, cData, history>>
    BY <1>4 DEF Reserve
  <2> HIDE DEF to
  <2>4. TypeOK'
    BY <1>2, <2>2, <2>3 DEF TypeOK, pool, history
  <2>5. CopiesOK(t)'
    BY <2>1, <2>2, <2>3 DEF CopiesOK, TailRead, HeadRead, Copy, pool
  <2>6. \A u \in Threads : u # t => Unmoved(u)
    BY <2>2, <2>3 DEF Unmoved
  <2>7. CalmStep(t, to)
    BY <1>1, <2>1, <2>2, <2>3, <2>4, <2>5, <2>6 DEF CalmStep, Built, TailRead, pool, history
  <2> QED BY <2>1, <2>7
<1>5. CASE Unreserve(t)
  <2>1. /\ pc' = [pc EXCEPT ![t] = "idle"] /\ pc[t] = "unreserve"
        /\ pc' \in [Threads -> Statements] /\ pc'[t] = "idle"
        /\ \A u \in Threads : u # t => pc'[u] = pc[u]
    BY <1>5, GotoFacts DEF Unreserve, Return, Statements
  <2>2. UNCHANGED <<head, tail, next, data, pool, history>>
    BY <1>5 DEF Unreserve
  <2>3. TypeOK'
    BY <1>2, <1>5, <2>1, <2>2
       DEF TypeOK, pool, history, Unreserve, Return, NoWord, Word, NodeOrNull, Data
  <2>4. CopiesOK(t)'
    BY <2>1 DEF CopiesOK, TailRead, HeadRead
  <2>5. \A u \in Threads : u # t => Unmoved(u)
    BY <1>5, <2>1 DEF Unmoved, Unreserve, Return, TypeOK
  <2>6. CalmStep(t, "idle")
    BY <1>1, <2>1, <2>2, <2>3, <2>4, <2>5 DEF CalmStep, Built, TailRead, pool, history
  <2> QED BY <2>6 DEF Statements
<1> QED BY <1>3, <1>4, <1>5

LEMMA SwingCalm ==
  ASSUME TypeOK, NoWrap, NEW t \in Threads, CopiesOK(t),
         HelpTail(t) \/ EnqueueReturn(t) \/ DqSwingTail(t)
  PROVE  \E to \in Statements : CalmStep(t, to)
<1>1. UNCHANGED <<head, next, data, size, pool, history>>
  BY DEF HelpTail, EnqueueReturn, DqSwingTail
<1>2. CASE HelpTail(t)
  <2>1. /\ pc' = [pc EXCEPT ![t] = "tail"] /\ pc[t] = "help"
        /\ pc' \in [Threads -> Statements] /\ pc'[t] = "tail"
        /\ \A u \in Threads : u # t => pc'[u] = pc[u]
    BY <1>2, GotoFacts DEF HelpTail, Again, Statements
  <2>2. TailStep /\ tail' \in [stamp : Nat, node : Nodes]
    BY <1>2, <2>1, SwingMoves DEF HelpTail, CopiesOK, TailRead
  <2>3. TypeOK'
    BY <1>1, <1>2, <2>1, <2>2
       DEF TypeOK, pool, history, HelpTail, Again, NoWord, Word, NodeOrNull, Data
  <2>4. CopiesOK(t)'
    BY <2>1 DEF CopiesOK, TailRead, HeadRead
  <2>5. \A u \in Threads : u # t => Unmoved(u)
    BY <1>2, <2>1 DEF Unmoved, HelpTail, Again, TypeOK
  <2>6. node' = node
    BY <1>2 DEF HelpTail, Again
  <2>7. CalmStep(t, "tail")
    BY <1>1, <2>1, <2>2, <2>3, <2>4, <2>5, <2>6 DEF CalmStep, Built, TailRead, pool, history
  <2> QED BY <2>7 DEF Statements
<1>3. CASE EnqueueReturn(t)
  <2>1. /\ pc' = [pc EXCEPT ![t] = "idle"] /\ pc[t] = "swing"
        /\ pc' \in [Threads -> Statements] /\ pc'[t] = "idle"
        /\ \A u \in Threads : u # t => pc'[u] = pc[u]
    BY <1>3, GotoFacts DEF EnqueueReturn, Return, Statements
  <2>2. TailStep /\ tail' \in [stamp : Nat, node : Nodes]
    BY <1>3, <2>1, SwingMoves DEF EnqueueReturn, CopiesOK, TailRead
  <2>3. TypeOK'
    BY <1>1, <1>3, <2>1, <2>2
       DEF TypeOK, pool, history, EnqueueReturn, Return, NoWord, Word, NodeOrNull, Data
  <2>4. CopiesOK(t)'
    BY <2>1 DEF CopiesOK, TailRead, HeadRead
  <2>5. \A u \in Threads : u # t => Unmoved(u)
    BY <1>3, <2>1 DEF Unmoved, EnqueueReturn, Return, TypeOK
  <2>6. CalmStep(t, "idle")
    BY <1>1, <2>1, <2>2, <2>3, <2>4, <2>5 DEF CalmStep, Built, TailRead, pool, history
  <2> QED BY <2>6 DEF Statements
<1>4. CASE DqSwingTail(t)
  <2>1. /\ pc' = [pc EXCEPT ![t] = "dqNext"] /\ pc[t] = "dqSwing"
        /\ pc' \in [Threads -> Statements] /\ pc'[t] = "dqNext"
        /\ \A u \in Threads : u # t => pc'[u] = pc[u]
    BY <1>4, GotoFacts DEF DqSwingTail, Statements
  <2>2. /\ TailStep /\ tail' \in [stamp : Nat, node : Nodes]
        /\ cTail[t].stamp < tail'.stamp
    BY <1>4, <2>1, SwingMoves DEF DqSwingTail, CopiesOK, TailRead
  <2>3. TypeOK'
    BY <1>1, <1>4, <2>1, <2>2 DEF TypeOK, pool, history, DqSwingTail, NodeOrNull
  <2>4. Copy(cHead[t], head) /\ cHead[t] = cTail[t] /\ cHead' = cHead
    BY <1>4, <2>1 DEF CopiesOK, HeadRead, DqSwingTail
  <2>5. CopiesOK(t)'
    BY <1>1, <2>1, <2>2, <2>4 DEF CopiesOK, TailRead, HeadRead, Copy, pool
  <2>6. \A u \in Threads : u # t => Unmoved(u)
    BY <1>4, <2>1 DEF Unmoved, DqSwingTail, TypeOK
  <2>7. CalmStep(t, "dqNext")
    BY <1>1, <2>1, <2>2, <2>3, <2>5, <2>6 DEF CalmStep, Built, TailRead, pool, history
  <2> QED BY <2>7 DEF Statements
<1> QED BY <1>2, <1>3, <1>4

\* The tail and head words, as the list has them.
LEMMA WordsInList ==
  ASSUME NEW kind, NEW holder, NEW place, NEW top, NEW deep, NEW rank, NEW clock,
         Core(kind, holder, place, top, deep, rank, clock)
  PROVE  /\ tail.node \in heap /\ head.node \in heap /\ head.stamp <= tail.stamp
         /\ head.stamp = tail.stamp => head.node = tail.node
<1>1. tail.node \in Nodes /\ head.node \in Nodes
  BY DEF Core, TypeOK
<1>2. /\ kind[head.node] = "list" /\ place[head.node] = head.stamp
      /\ kind[tail.node] = "list" /\ place[tail.node] = tail.stamp
      /\ head.stamp <= place[tail.node]
  BY <1>1 DEF Core, ListOK
<1>3. tail.node \in heap /\ head.node \in heap
  BY <1>1, <1>2 DEF Core, KindOK
<1>4. head.stamp = tail.stamp => head.node = tail.node
  BY <1>1, <1>2 DEF Core, ListOK
<1> QED BY <1>2, <1>3, <1>4

LEMMA CalmKeeps ==
  ASSUME NEW kind, NEW holder, NEW place, NEW top, NEW deep, NEW rank, NEW clock,
         Core(kind, holder, place, top, deep, rank, clock), NoWrap,
         NEW t \in Threads, Calm(t)
  PROVE  /\ \E to \in Statements : CalmStep(t, to)
         /\ Core(kind, holder, place, top, deep, rank, clock)'
<1>1. TypeOK /\ CopiesOK(t)
  BY DEF Core
<1>2. \E to \in Statements : CalmStep(t, to)
  <2>1. CASE LinkFails(t)
    BY <1>1, <2>1, AgainCalm DEF LinkFails, Statements
  <2>2. CASE DqTailNextNull(t)
    BY <1>1, <2>2, AgainCalm DEF DqTailNextNull, Statements
  <2>3. CASE DqNextNull(t)
    BY <1>1, <2>3, AgainCalm DEF DqNextNull, Statements
  <2>4. CASE DqCasFails(t)
    BY <1>1, <2>4, AgainCalm DEF DqCasFails, Statements
  <2>5. CASE \/ ReadTail(t) \/ ReadTailNext(t) \/ DqReadHead(t) \/ DqReadTail(t)
             \/ DqTailNext(t) \/ DqNext(t) \/ DqData(t)
    BY <1>1, <2>5, WordsInList, ReadCalm
  <2>6. CASE CountEnqueue(t) \/ Reserve(t) \/ Unreserve(t)
    BY <1>1, <2>6, CountCalm
  <2>7. CASE HelpTail(t) \/ EnqueueReturn(t) \/ DqSwingTail(t)
    BY <1>1, <2>7, SwingCalm
  <2> QED BY <2>1, <2>2, <2>3, <2>4, <2>5, <2>6, <2>7 DEF Calm
<1>3. PICK to \in Statements : CalmStep(t, to)
  BY <1>2
<1>4. /\ pc' = [pc EXCEPT ![t] = to]
      /\ TypeOK' /\ CopiesOK(t)' /\ TailStep
      /\ UNCHANGED <<head, next, data, free, heap>>
      /\ \A u \in Threads : u # t => Unmoved(u)
      /\ pc[t] \in Built <=> to \in Built
      /\ pc[t] \notin {"construct", "dqFree"} /\ to \notin {"construct", "dqFree"}
      /\ to \in Built => node'[t] = node[t]
      /\ to \in TailRead =>
           cTail'[t] = tail \/ (pc[t] \in TailRead /\ cTail'[t] = cTail[t])
      /\ to \in {"tailNext", "link"} =>
           cTail'[t] = tail \/ (pc[t] \in {"tailNext", "link"} /\ cTail'[t] = cTail[t])
  BY <1>3 DEF CalmStep
<1>5. Core(kind, holder, place, top, deep, rank, clock)'
  BY <1>4, CalmCore
<1> QED BY <1>2, <1>5

-----------------------------------------------------------------------------
(* The steps that change the hands a node is in *)

\* Alloc takes a node from the free list or from the untouched memory.
LEMMA AllocTakes ==
  ASSUME TypeOK, NEW kind, kind \in [Nodes -> {"list", "held", "free", "new"}],
         KindOK(kind), NEW t \in Threads, Alloc(t)
  PROVE  \E n \in Nodes :
           /\ kind[n] \in {"free", "new"}
           /\ node' = [node EXCEPT ![t] = n]
           /\ heap' = heap \union {n}
           /\ free' \in Seq(Nodes) /\ IsInjective(free')
           /\ Range(free') = Range(free) \ {n}
<1>1. CASE free # <<>>
  <2> DEFINE n == free[Len(free)]
             r == SubSeq(free, 1, Len(free) - 1)
  <2>1. /\ n \in Nodes /\ n \in Range(free)
        /\ r \in Seq(Nodes) /\ IsInjective(r) /\ Range(r) = Range(free) \ {n}
    BY <1>1, FreePop DEF TypeOK, KindOK
  <2>2. node' = [node EXCEPT ![t] = n] /\ free' = r /\ heap' = heap
    BY <1>1 DEF Alloc
  <2>3. kind[n] = "free" /\ n \in heap
    BY <2>1 DEF KindOK
  <2> HIDE DEF n, r
  <2> QED BY <2>1, <2>2, <2>3
<1>2. CASE free = <<>>
  <2> DEFINE n == CHOOSE m \in Nodes : m \notin heap
  <2>1. /\ heap # Nodes /\ heap \subseteq Nodes
        /\ node' = [node EXCEPT ![t] = n] /\ heap' = heap \union {n} /\ free' = free
    BY <1>2 DEF Alloc, TypeOK
  <2>2. \E m \in Nodes : m \notin heap
    BY <2>1
  <2>3. n \in Nodes /\ n \notin heap
    BY <2>2
  <2> HIDE DEF n
  <2>4. kind[n] = "new" /\ n \notin Range(free)
    BY <2>3 DEF KindOK
  <2>5. Range(free) = Range(free) \ {n}
    BY <2>4
  <2>6. /\ free' \in Seq(Nodes) /\ IsInjective(free')
        /\ Range(free') = Range(free) \ {n}
    BY <2>1, <2>5 DEF TypeOK, KindOK
  <2> QED BY <2>1, <2>3, <2>4, <2>6
<1> QED BY <1>1, <1>2

LEMMA AllocCore ==
  ASSUME NEW kind, NEW holder, NEW place, NEW top, NEW deep, NEW rank, NEW clock,
         Core(kind, holder, place, top, deep, rank, clock),
         NEW t \in Threads, Alloc(t), NEW n \in Nodes,
         kind[n] \in {"free", "new"}, node' = [node EXCEPT ![t] = n],
         heap' = heap \union {n}, free' \in Seq(Nodes), IsInjective(free'),
         Range(free') = Range(free) \ {n},
         NEW kind2, kind2 = [kind EXCEPT ![n] = "held"],
         NEW holder2, holder2 = [holder EXCEPT ![n] = t],
         NEW place2, place2 = [place EXCEPT ![n] = 0],
         NEW deep2, deep2 = [deep EXCEPT ![t] = 0],
         NEW rank2, rank2 = [rank EXCEPT ![t] = clock]
  PROVE  Core(kind2, holder2, place2, top, deep2, rank2, clock + 1)'
<1>1. /\ TypeOK /\ GhostOK(kind, holder, place, top, deep, rank, clock)
      /\ KindOK(kind) /\ ListOK(kind, place, top) /\ OwnersOK(kind, holder, place, deep)
      /\ BehindOK(kind, holder, place, deep) /\ (\A u \in Threads : CopiesOK(u))
      /\ RankOK(kind, holder, rank, clock)
  BY DEF Core
<1>2. /\ pc[t] = "idle" /\ pc' \in [Threads -> Statements] /\ pc'[t] = "construct"
      /\ \A u \in Threads : u # t => pc'[u] = pc[u]
  BY <1>1, GotoFacts DEF Alloc, Statements
<1>3. /\ UNCHANGED <<head, tail, next, data, size, cHead, cTail, cNext, cData, got>>
      /\ sent[t] < MaxEnqueue /\ sent' = [sent EXCEPT ![t] = @ + 1]
  BY DEF Alloc, queue
<1>4. sent' \in [Threads -> 0 .. MaxEnqueue]
  BY <1>1, <1>3, ConstantAssumption DEF TypeOK
<1>5. TypeOK'
  BY <1>1, <1>2, <1>3, <1>4 DEF TypeOK, NodeOrNull
<1>6. GhostOK(kind2, holder2, place2, top, deep2, rank2, clock + 1)
  BY <1>1 DEF GhostOK
<1>7. /\ node'[t] = n /\ \A u \in Threads : u # t => node'[u] = node[u]
      /\ kind2[n] = "held" /\ holder2[n] = t /\ place2[n] = 0
      /\ deep2[t] = 0 /\ \A u \in Threads : u # t => deep2[u] = deep[u]
      /\ rank2[t] = clock /\ \A u \in Threads : u # t => rank2[u] = rank[u]
      /\ \A m \in Nodes : m # n =>
           kind2[m] = kind[m] /\ holder2[m] = holder[m] /\ place2[m] = place[m]
      /\ kind[n] # "list" /\ kind[n] # "held"
  BY <1>1 DEF TypeOK, GhostOK
<1>8. KindOK(kind2)'
  BY <1>1, <1>3, <1>7 DEF KindOK, TypeOK
<1>9. ListOK(kind2, place2, top)'
  <2>1. \A m \in Nodes : kind2[m] = "list" <=> kind[m] = "list"
    BY <1>7
  <2>2. \A m \in Nodes : kind[m] = "list" => place2[m] = place[m]
    BY <1>7
  <2>3. \A m \in Nodes : next[m] # Null => next[m] \in Nodes
    BY <1>1 DEF TypeOK, NodeOrNull
  <2>4. head.node \in Nodes /\ tail.node \in Nodes
    BY <1>1 DEF TypeOK
  <2> QED BY <1>1, <1>3, <2>1, <2>2, <2>3, <2>4 DEF ListOK
<1>10. \A m \in Nodes : kind[m] = "held" => m # n /\ holder[m] # t
  BY <1>1, <1>2, <1>7 DEF OwnersOK, Private
<1>11. OwnersOK(kind2, holder2, place2, deep2)'
  <2>1. ASSUME NEW m \in Nodes, kind2[m] = "held"
        PROVE  holder2[m] \in Threads /\ pc'[holder2[m]] \in Private \union {"dqFree"}
    BY <1>1, <1>2, <1>7, <1>10, <2>1 DEF OwnersOK, Private
  <2>2. next[n] = Null => \A u \in Threads : pc[u] \in TailRead => cTail[u].node # n
    BY <1>1, <1>7 DEF KindOK, CopiesOK, Copy
  <2>3. ASSUME NEW u \in Threads
        PROVE  /\ pc'[u] \in Private =>
                    node'[u] \in Nodes /\ Held(kind2, holder2, node'[u], u)
                    /\ place2[node'[u]] = 0
               /\ pc'[u] = "construct" =>
                    /\ \A m \in Nodes : Held(kind2, holder2, m, u) => m = node'[u]
                    /\ deep2[u] = 0
                    /\ next'[node'[u]] = Null =>
                         \A v \in Threads : pc'[v] \in TailRead => cTail'[v].node # node'[u]
               /\ pc'[u] = "dqFree" =>
                    /\ cHead'[u].node \in Nodes /\ next'[cHead'[u].node] # Null
                    /\ \A m \in Nodes : Held(kind2, holder2, m, u) <=> m = cHead'[u].node
    <3>1. CASE u = t
      <4>1. \A m \in Nodes : Held(kind2, holder2, m, t) => m = n
        BY <1>7, <1>10 DEF Held
      <4>2. next[n] = Null => \A v \in Threads : pc'[v] \in TailRead => cTail[v].node # n
        BY <1>2, <2>2 DEF TailRead
      <4> QED BY <1>2, <1>3, <1>7, <3>1, <4>1, <4>2 DEF Held
    <3>2. CASE u # t
      <4>1. \A m \in Nodes : Held(kind2, holder2, m, u) <=> Held(kind, holder, m, u)
        BY <1>7, <3>2 DEF Held
      <4>2. \A m \in Nodes : Held(kind, holder, m, u) => place2[m] = place[m]
        BY <1>7, <1>10 DEF Held
      <4>3. \A v \in Threads : pc'[v] \in TailRead => pc[v] \in TailRead
        BY <1>2 DEF TailRead
      <4>4. pc'[u] = pc[u] /\ node'[u] = node[u] /\ deep2[u] = deep[u]
        BY <1>2, <1>7, <3>2
      <4>5. pc'[u] \in Private =>
              node'[u] \in Nodes /\ Held(kind2, holder2, node'[u], u)
              /\ place2[node'[u]] = 0
        <5>1. pc[u] \in Private =>
                node[u] \in Nodes /\ Held(kind, holder, node[u], u) /\ place[node[u]] = 0
          BY <1>1 DEF OwnersOK
        <5> QED BY <5>1, <4>1, <4>2, <4>4
      <4>6. pc'[u] = "construct" =>
              /\ \A m \in Nodes : Held(kind2, holder2, m, u) => m = node'[u]
              /\ deep2[u] = 0
              /\ next'[node'[u]] = Null =>
                   \A v \in Threads : pc'[v] \in TailRead => cTail'[v].node # node'[u]
        <5>1. pc[u] = "construct" =>
                /\ \A m \in Nodes : Held(kind, holder, m, u) => m = node[u]
                /\ deep[u] = 0
                /\ next[node[u]] = Null =>
                     \A v \in Threads : pc[v] \in TailRead => cTail[v].node # node[u]
          BY <1>1 DEF OwnersOK
        <5> QED BY <1>3, <5>1, <4>1, <4>3, <4>4
      <4>7. pc'[u] = "dqFree" =>
              /\ cHead'[u].node \in Nodes /\ next'[cHead'[u].node] # Null
              /\ \A m \in Nodes : Held(kind2, holder2, m, u) <=> m = cHead'[u].node
        BY <1>1, <1>3, <4>1, <4>4 DEF OwnersOK
      <4> QED BY <4>5, <4>6, <4>7
    <3> QED BY <3>1, <3>2
  <2> QED BY <2>1, <2>3 DEF OwnersOK, Held
<1>12. BehindOK(kind2, holder2, place2, deep2)'
  <2>1. \A m \in Nodes : kind2[m] = "held" /\ pc'[holder2[m]] \in Built =>
          /\ m # n /\ kind[m] = "held" /\ holder[m] \in Threads /\ holder[m] # t
          /\ holder2[m] = holder[m] /\ pc[holder[m]] \in Built
          /\ deep2[holder[m]] = deep[holder[m]]
    BY <1>1, <1>2, <1>7, <1>10 DEF OwnersOK, Built
  <2>2. \A m \in Nodes, u \in Threads : pc'[u] \in Built =>
          u # t /\ pc[u] \in Built /\ deep2[u] = deep[u]
          /\ (Held(kind2, holder2, m, u) <=> Held(kind, holder, m, u))
    BY <1>2, <1>7, <1>10 DEF Built, Held
  <2>3. \A m \in Nodes : kind[m] = "held" => place2[m] = place[m] /\ kind2[m] = kind[m]
    BY <1>7, <1>10
  <2>4. \A m \in Nodes : next[m] # Null => next[m] \in Nodes
    BY <1>1 DEF TypeOK, NodeOrNull
  <2>5. ASSUME NEW m \in Nodes, kind2[m] = "held", pc'[holder2[m]] \in Built
        PROVE  /\ place2[m] <= deep2[holder2[m]]
               /\ next[m] = Null <=> place2[m] = deep2[holder2[m]]
               /\ next[m] # Null => Held(kind2, holder2, next[m], holder2[m])
                                     /\ place2[next[m]] = place2[m] + 1
    BY <1>1, <2>1, <2>2, <2>3, <2>4, <2>5 DEF BehindOK, Held
  <2>6. \A k, m \in Nodes :
          kind2[k] = "held" /\ kind2[m] = "held" /\ holder2[k] = holder2[m]
          /\ pc'[holder2[m]] \in Built /\ place2[k] = place2[m] => k = m
    BY <1>1, <2>1, <2>3 DEF BehindOK
  <2>7. \A u \in Threads : pc'[u] \in Built =>
          \A k \in 0 .. deep2[u] : \E m \in Nodes : Held(kind2, holder2, m, u) /\ place2[m] = k
    BY <1>1, <2>2, <2>3 DEF BehindOK, Held
  <2> QED BY <1>3, <2>5, <2>6, <2>7 DEF BehindOK, Held
<1>13. ASSUME NEW u \in Threads PROVE CopiesOK(u)'
  <2>1. CASE u = t
    BY <1>2, <2>1 DEF CopiesOK, TailRead, HeadRead
  <2>2. CASE u # t
    <3>1. Onward
      BY <1>3 DEF Onward
    <3>2. Unmoved(u)
      BY <1>2, <1>3, <1>7, <2>2 DEF Unmoved
    <3> QED BY <1>1, <1>5, <3>1, <3>2, CopiesStay
  <2> QED BY <2>1, <2>2
<1>14. RankOK(kind2, holder2, rank2, clock + 1)'
  <2>1. \A u \in Threads : rank2[u] < clock + 1
    BY <1>1, <1>7 DEF RankOK, GhostOK
  <2>2. ASSUME NEW v \in Threads, NEW u \in Threads, pc'[v] \in {"tailNext", "link"},
               pc'[u] \in Private, Held(kind2, holder2, cTail'[v].node, u)
        PROVE  rank2[v] < rank2[u]
    <3>1. v # t /\ pc[v] \in {"tailNext", "link"} /\ rank2[v] = rank[v] /\ rank[v] < clock
      BY <1>1, <1>2, <1>7, <2>2 DEF RankOK
    <3>2. CASE u = t
      BY <1>7, <3>1, <3>2
    <3>3. CASE u # t
      <4>1. cTail[v].node \in Nodes
        BY <1>1, <3>1 DEF CopiesOK, Copy, TailRead, TypeOK
      <4>2. Held(kind, holder, cTail[v].node, u)
        BY <1>3, <1>7, <2>2, <3>3, <4>1 DEF Held
      <4> QED BY <1>1, <1>2, <1>7, <2>2, <3>1, <3>3, <4>2 DEF RankOK
    <3> QED BY <3>2, <3>3
  <2> QED BY <2>1, <2>2 DEF RankOK, Held
<1> QED BY <1>5, <1>6, <1>8, <1>9, <1>11, <1>12, <1>13, <1>14 DEF Core, GhostOK

\* The facts about the owners of one thread, for use one at a time.
LEMMA OwnerFacts ==
  ASSUME NEW kind, NEW holder, NEW place, NEW deep,
         OwnersOK(kind, holder, place, deep), NEW u \in Threads
  PROVE  /\ pc[u] \in Private =>
              node[u] \in Nodes /\ kind[node[u]] = "held" /\ holder[node[u]] = u
              /\ place[node[u]] = 0
         /\ pc[u] = "construct" =>
              /\ \A m \in Nodes : kind[m] = "held" /\ holder[m] = u => m = node[u]
              /\ deep[u] = 0
              /\ next[node[u]] = Null =>
                   \A v \in Threads : pc[v] \in TailRead => cTail[v].node # node[u]
         /\ pc[u] = "dqFree" =>
              /\ cHead[u].node \in Nodes /\ next[cHead[u].node] # Null
              /\ \A m \in Nodes : (kind[m] = "held" /\ holder[m] = u) <=> m = cHead[u].node
BY DEF OwnersOK, Held

LEMMA ConstructCore ==
  ASSUME NEW kind, NEW holder, NEW place, NEW top, NEW deep, NEW rank, NEW clock,
         Core(kind, holder, place, top, deep, rank, clock),
         NEW t \in Threads, Construct(t)
  PROVE  Core(kind, holder, place, top, deep, rank, clock)'
<1>1. /\ TypeOK /\ GhostOK(kind, holder, place, top, deep, rank, clock)
      /\ KindOK(kind) /\ ListOK(kind, place, top) /\ OwnersOK(kind, holder, place, deep)
      /\ BehindOK(kind, holder, place, deep) /\ (\A u \in Threads : CopiesOK(u))
      /\ RankOK(kind, holder, rank, clock)
  BY DEF Core
<1>2. /\ pc[t] = "construct" /\ pc' \in [Threads -> Statements] /\ pc'[t] = "tail"
      /\ \A u \in Threads : u # t => pc'[u] = pc[u]
  BY <1>1, GotoFacts DEF Construct, Statements
<1> DEFINE n == node[t]
<1>3. /\ n \in Nodes /\ kind[n] = "held" /\ holder[n] = t /\ place[n] = 0 /\ deep[t] = 0
      /\ \A m \in Nodes : kind[m] = "held" /\ holder[m] = t => m = n
  BY <1>1, <1>2, OwnerFacts DEF Private
<1>4. /\ UNCHANGED <<head, tail, size, free, heap, node, cHead, cTail, cNext, cData, sent, got>>
      /\ next' = [next EXCEPT ![n] = Null] /\ data' = [data EXCEPT ![n] = Datum(t, sent[t])]
  BY DEF Construct, pool, history
<1>5. Datum(t, sent[t]) \in Data
  BY <1>1, ConstantAssumption DEF Datum, Data, TypeOK
<1> HIDE DEF n
<1>6. /\ next'[n] = Null /\ data'[n] = Datum(t, sent[t])
      /\ \A m \in Nodes : m # n => next'[m] = next[m] /\ data'[m] = data[m]
  BY <1>1, <1>3, <1>4 DEF TypeOK
<1>7. TypeOK'
  BY <1>1, <1>2, <1>4, <1>5 DEF TypeOK, NodeOrNull
<1>8. KindOK(kind)'
  BY <1>1, <1>3, <1>4, <1>6 DEF KindOK
<1>9. /\ head.node \in Nodes /\ tail.node \in Nodes
      /\ \A m \in Nodes : next[m] # Null => next[m] \in Nodes
      /\ kind[head.node] = "list" /\ kind[tail.node] = "list"
      /\ head.node # n /\ tail.node # n
      /\ next[head.node] # Null => next[head.node] \in Nodes /\ next[head.node] # n
  <2>1. /\ head.node \in Nodes /\ tail.node \in Nodes
        /\ \A m \in Nodes : next[m] # Null => next[m] \in Nodes
    BY <1>1 DEF TypeOK, NodeOrNull
  <2>2. kind[head.node] = "list" /\ kind[tail.node] = "list"
    BY <1>1 DEF ListOK
  <2>3. next[head.node] # Null => kind[next[head.node]] = "list"
    BY <1>1, <2>1, <2>2 DEF ListOK
  <2> QED BY <1>3, <2>1, <2>2, <2>3
<1>10. ListOK(kind, place, top)'
  BY <1>1, <1>3, <1>4, <1>6, <1>9 DEF ListOK
<1>11. OwnersOK(kind, holder, place, deep)'
  <2>1. \A m \in Nodes : kind[m] = "held" =>
          holder[m] \in Threads /\ pc'[holder[m]] \in Private \union {"dqFree"}
    BY <1>1, <1>2 DEF OwnersOK, Private
  <2>2. ASSUME NEW u \in Threads
        PROVE  /\ pc'[u] \in Private =>
                    node'[u] \in Nodes /\ Held(kind, holder, node'[u], u)
                    /\ place[node'[u]] = 0
               /\ pc'[u] = "construct" =>
                    /\ \A m \in Nodes : Held(kind, holder, m, u) => m = node'[u]
                    /\ deep[u] = 0
                    /\ next'[node'[u]] = Null =>
                         \A v \in Threads : pc'[v] \in TailRead => cTail'[v].node # node'[u]
               /\ pc'[u] = "dqFree" =>
                    /\ cHead'[u].node \in Nodes /\ next'[cHead'[u].node] # Null
                    /\ \A m \in Nodes : Held(kind, holder, m, u) <=> m = cHead'[u].node
    <3>1. CASE u = t
      BY <1>2, <1>3, <1>4, <3>1 DEF Held, n
    <3>2. CASE u # t
      <4>1. \A v \in Threads : pc'[v] \in TailRead => pc[v] \in TailRead
        BY <1>2 DEF TailRead
      <4>2. pc'[u] = pc[u]
        BY <1>2, <3>2
      <4>3. pc[u] \in Private => node[u] # n
        BY <1>1, <1>3, <3>2, OwnerFacts
      <4>4. pc[u] = "dqFree" => cHead[u].node # n
        BY <1>1, <1>3, <3>2, OwnerFacts
      <4>5. pc'[u] \in Private =>
              node'[u] \in Nodes /\ Held(kind, holder, node'[u], u) /\ place[node'[u]] = 0
        BY <1>1, <1>4, <4>2, OwnerFacts DEF Held
      <4>6. pc'[u] = "construct" =>
              /\ \A m \in Nodes : Held(kind, holder, m, u) => m = node'[u]
              /\ deep[u] = 0
              /\ next'[node'[u]] = Null =>
                   \A v \in Threads : pc'[v] \in TailRead => cTail'[v].node # node'[u]
        <5>1. pc[u] = "construct" => pc[u] \in Private
          BY DEF Private
        <5>2. pc[u] = "construct" =>
                /\ node[u] \in Nodes /\ node[u] # n
                /\ \A m \in Nodes : kind[m] = "held" /\ holder[m] = u => m = node[u]
                /\ deep[u] = 0
                /\ next[node[u]] = Null =>
                     \A v \in Threads : pc[v] \in TailRead => cTail[v].node # node[u]
          BY <1>1, <4>3, <5>1, OwnerFacts
        <5> QED BY <1>4, <1>6, <5>2, <4>1, <4>2 DEF Held
      <4>7. pc'[u] = "dqFree" =>
              /\ cHead'[u].node \in Nodes /\ next'[cHead'[u].node] # Null
              /\ \A m \in Nodes : Held(kind, holder, m, u) <=> m = cHead'[u].node
        <5>1. pc[u] = "dqFree" =>
                /\ cHead[u].node \in Nodes /\ next[cHead[u].node] # Null
                /\ \A m \in Nodes : (kind[m] = "held" /\ holder[m] = u) <=> m = cHead[u].node
          BY <1>1, OwnerFacts
        <5> QED BY <1>4, <1>6, <5>1, <4>2, <4>4 DEF Held
      <4> QED BY <4>5, <4>6, <4>7
    <3> QED BY <3>1, <3>2
  <2> QED BY <2>1, <2>2 DEF OwnersOK, Held
<1>12. BehindOK(kind, holder, place, deep)'
  <2>1. \A m \in Nodes : kind[m] = "held" /\ m # n => holder[m] \in Threads /\ holder[m] # t
    BY <1>1, <1>3 DEF OwnersOK
  <2>2. \A m \in Nodes : kind[m] = "held" /\ m # n /\ pc'[holder[m]] \in Built =>
          pc[holder[m]] \in Built /\ next'[m] = next[m]
    BY <1>2, <1>6, <2>1
  <2>3. ASSUME NEW m \in Nodes, kind[m] = "held", pc'[holder[m]] \in Built
        PROVE  /\ place[m] <= deep[holder[m]]
               /\ next'[m] = Null <=> place[m] = deep[holder[m]]
               /\ next'[m] # Null => Held(kind, holder, next'[m], holder[m])
                                     /\ place[next'[m]] = place[m] + 1
    <3>1. CASE m = n
      BY <1>3, <1>6, <3>1
    <3>2. CASE m # n
      BY <1>1, <2>2, <2>3, <3>2 DEF BehindOK
    <3> QED BY <3>1, <3>2
  <2>4. \A k, m \in Nodes :
          kind[k] = "held" /\ kind[m] = "held" /\ holder[k] = holder[m]
          /\ pc'[holder[m]] \in Built /\ place[k] = place[m] => k = m
    BY <1>1, <1>3, <2>1, <2>2 DEF BehindOK
  <2>5. ASSUME NEW u \in Threads, pc'[u] \in Built
        PROVE  \A k \in 0 .. deep[u] : \E m \in Nodes : Held(kind, holder, m, u) /\ place[m] = k
    <3>1. CASE u = t
      BY <1>3, <3>1 DEF Held
    <3>2. CASE u # t
      BY <1>1, <1>2, <2>5, <3>2 DEF BehindOK
    <3> QED BY <3>1, <3>2
  <2> QED BY <2>3, <2>4, <2>5 DEF BehindOK, Held
<1>13. ASSUME NEW u \in Threads PROVE CopiesOK(u)'
  <2>1. CASE u = t
    BY <1>2, <2>1 DEF CopiesOK, TailRead, HeadRead
  <2>2. CASE u # t
    <3>1. Onward
      BY <1>4, <1>6, <1>9 DEF Onward
    <3>2. Unmoved(u)
      BY <1>2, <1>4, <2>2 DEF Unmoved
    <3> QED BY <1>1, <1>7, <3>1, <3>2, CopiesStay
  <2> QED BY <2>1, <2>2
<1>14. RankOK(kind, holder, rank, clock)'
  <2>1. \A u \in Threads : /\ pc'[u] \in Private <=> pc[u] \in Private
                           /\ pc'[u] \in {"tailNext", "link"} => pc[u] \in {"tailNext", "link"}
    BY <1>2 DEF Private
  <2> QED BY <1>1, <1>4, <2>1 DEF RankOK, Held
<1> QED BY <1>1, <1>7, <1>8, <1>10, <1>11, <1>12, <1>13, <1>14 DEF Core, GhostOK

\* Where the compare-exchange of LinkNode can succeed: at the end of the list,
\* or behind a node that another thread has not linked yet.
LEMMA LinkTarget ==
  ASSUME NEW kind, NEW holder, NEW place, NEW top, NEW deep, NEW rank, NEW clock,
         Core(kind, holder, place, top, deep, rank, clock),
         NEW t \in Threads, LinkNode(t)
  PROVE  LET c == cTail[t].node
             n == node[t]
         IN  /\ c \in Nodes /\ next[c] = Null
             /\ n \in Nodes /\ kind[n] = "held" /\ holder[n] = t /\ place[n] = 0
             /\ \/ kind[c] = "list"
                \/ /\ kind[c] = "held" /\ holder[c] \in Threads /\ holder[c] # t
                   /\ pc[holder[c]] \in Built
             /\ \A v \in Threads : pc[v] = "construct" => node[v] # c
             /\ \A v \in Threads : pc[v] = "dqFree" => cHead[v].node # c
<1> DEFINE c == cTail[t].node
           n == node[t]
<1>1. /\ TypeOK /\ GhostOK(kind, holder, place, top, deep, rank, clock)
      /\ KindOK(kind) /\ OwnersOK(kind, holder, place, deep)
      /\ CopiesOK(t) /\ RankOK(kind, holder, rank, clock)
  BY DEF Core
<1>2. pc[t] = "link" /\ next[c] = Null
  BY DEF LinkNode, Goto
<1>3. c \in heap /\ c \in Nodes
  BY <1>1, <1>2 DEF CopiesOK, Copy, TailRead, TypeOK
<1>4. n \in Nodes /\ kind[n] = "held" /\ holder[n] = t /\ place[n] = 0
  BY <1>1, <1>2, OwnerFacts DEF Private
<1> HIDE DEF c, n
<1>5. kind[c] \in {"list", "held"}
  BY <1>1, <1>2, <1>3 DEF KindOK, GhostOK
<1>6. \A v \in Threads : pc[v] = "construct" => node[v] # c
  BY <1>1, <1>2, OwnerFacts DEF TailRead, c
<1>7. \A v \in Threads : pc[v] = "dqFree" => cHead[v].node # c
  BY <1>1, <1>2, OwnerFacts
<1>8. ASSUME kind[c] = "held"
      PROVE  holder[c] \in Threads /\ holder[c] # t /\ pc[holder[c]] \in Built
  <2>1. holder[c] \in Threads /\ pc[holder[c]] \in Private \union {"dqFree"}
    BY <1>1, <1>3, <1>8 DEF OwnersOK
  <2>2. pc[holder[c]] # "dqFree"
    BY <1>1, <1>3, <1>7, <1>8, <2>1, OwnerFacts
  <2>3. pc[holder[c]] # "construct"
    BY <1>1, <1>3, <1>6, <1>8, <2>1, OwnerFacts
  <2>4. pc[holder[c]] \in Built /\ pc[holder[c]] \in Private
    BY <2>1, <2>2, <2>3 DEF Private, Built
  <2>5. rank[t] < rank[holder[c]] /\ rank[t] \in Nat
    BY <1>1, <1>2, <1>8, <2>1, <2>4 DEF RankOK, Held, GhostOK, c
  <2>6. holder[c] # t
    BY <2>5
  <2> QED BY <2>1, <2>4, <2>6
<1> QED BY <1>2, <1>3, <1>4, <1>5, <1>6, <1>7, <1>8 DEF c, n

\* What both kinds of LinkNode leave as it is.
LEMMA LinkQuiet ==
  ASSUME NEW kind, NEW holder, NEW place, NEW top, NEW deep, NEW rank, NEW clock,
         Core(kind, holder, place, top, deep, rank, clock),
         NEW t \in Threads, LinkNode(t)
  PROVE  /\ TypeOK'
         /\ pc[t] = "link" /\ pc'[t] = "size"
         /\ \A u \in Threads : u # t => pc'[u] = pc[u]
         /\ UNCHANGED <<head, tail, data, size, free, heap, node, cHead, cTail, cNext, cData>>
         /\ next'[cTail[t].node] = node[t]
         /\ \A m \in Nodes : m # cTail[t].node => next'[m] = next[m]
         /\ \A u \in Threads : CopiesOK(u)'
<1>1. TypeOK /\ ListOK(kind, place, top) /\ (\A u \in Threads : CopiesOK(u))
  BY DEF Core
<1> DEFINE c == cTail[t].node
           n == node[t]
<1>2. c \in Nodes /\ next[c] = Null /\ n \in Nodes /\ n # Null
  BY LinkTarget, ConstantAssumption
<1>3. /\ pc[t] = "link" /\ pc' \in [Threads -> Statements] /\ pc'[t] = "size"
      /\ \A u \in Threads : u # t => pc'[u] = pc[u]
  BY <1>1, GotoFacts DEF LinkNode, Statements
<1>4. /\ UNCHANGED <<head, tail, data, size, free, heap, node, cHead, cTail, cNext,
                     cData, sent, got>>
      /\ next' = [next EXCEPT ![c] = n]
  BY DEF LinkNode, pool, history
<1> HIDE DEF c, n
<1>5. next'[c] = n /\ \A m \in Nodes : m # c => next'[m] = next[m]
  BY <1>1, <1>2, <1>4 DEF TypeOK
<1>6. TypeOK'
  BY <1>1, <1>2, <1>3, <1>4 DEF TypeOK, NodeOrNull
<1>7. ASSUME NEW u \in Threads PROVE CopiesOK(u)'
  <2>1. CASE u = t
    <3>1. Copy(cTail[t], tail)
      BY <1>1, <1>3 DEF CopiesOK, TailRead
    <3>2. Copy(cTail[t], tail)'
      BY <1>4, <3>1 DEF Copy
    <3>3. node'[t] \in Nodes /\ (tail' = cTail'[t] => next'[tail'.node] = node'[t])
      BY <1>2, <1>4, <1>5 DEF c, n
    <3> QED BY <1>3, <2>1, <3>2, <3>3 DEF CopiesOK, TailRead, HeadRead
  <2>2. CASE u # t
    <3>1. Onward
      BY <1>1, <1>2, <1>4, <1>5 DEF Onward, TypeOK
    <3>2. Unmoved(u)
      BY <1>3, <1>4, <2>2 DEF Unmoved
    <3> QED BY <1>1, <1>6, <3>1, <3>2, CopiesStay
  <2> QED BY <2>1, <2>2
<1> QED BY <1>3, <1>4, <1>5, <1>6, <1>7 DEF c, n

\* LinkNode at the end of the list: the node and what hangs behind it become
\* the end of the list.
LEMMA LinkCoreList ==
  ASSUME NEW kind, NEW holder, NEW place, NEW top, NEW deep, NEW rank, NEW clock,
         Core(kind, holder, place, top, deep, rank, clock),
         NEW t \in Threads, LinkNode(t), kind[cTail[t].node] = "list",
         NEW kind2, kind2 = [m \in Nodes |-> IF Held(kind, holder, m, t) THEN "list" ELSE kind[m]],
         NEW place2,
         place2 = [m \in Nodes |-> IF Held(kind, holder, m, t) THEN top + 1 + place[m] ELSE place[m]],
         NEW top2, top2 = top + 1 + deep[t]
  PROVE  /\ Core(kind2, holder, place2, top2, deep, rank, clock)'
         /\ place[cTail[t].node] = top
<1> DEFINE c == cTail[t].node
           n == node[t]
<1>1. /\ TypeOK /\ GhostOK(kind, holder, place, top, deep, rank, clock)
      /\ KindOK(kind) /\ ListOK(kind, place, top) /\ OwnersOK(kind, holder, place, deep)
      /\ BehindOK(kind, holder, place, deep)
      /\ RankOK(kind, holder, rank, clock)
  BY DEF Core
<1>2. /\ c \in Nodes /\ next[c] = Null /\ kind[c] = "list"
      /\ n \in Nodes /\ kind[n] = "held" /\ holder[n] = t /\ place[n] = 0 /\ n # Null
      /\ \A v \in Threads : pc[v] = "construct" => node[v] # c
      /\ \A v \in Threads : pc[v] = "dqFree" => cHead[v].node # c
  BY LinkTarget, ConstantAssumption
<1>3. /\ TypeOK'
      /\ pc[t] = "link" /\ pc'[t] = "size"
      /\ \A u \in Threads : u # t => pc'[u] = pc[u]
      /\ UNCHANGED <<head, tail, data, size, free, heap, node, cHead, cTail, cNext, cData>>
      /\ next'[c] = n
      /\ \A m \in Nodes : m # c => next'[m] = next[m]
      /\ \A u \in Threads : CopiesOK(u)'
  BY LinkQuiet
<1> HIDE DEF c, n
<1>4. /\ top \in Nat /\ deep[t] \in Nat /\ top2 = top + 1 + deep[t]
      /\ \A m \in Nodes : place[m] \in Nat
      /\ \A m \in Nodes : kind[m] = "held" /\ holder[m] = t =>
           kind2[m] = "list" /\ place2[m] = top + 1 + place[m]
      /\ \A m \in Nodes : ~(kind[m] = "held" /\ holder[m] = t) =>
           kind2[m] = kind[m] /\ place2[m] = place[m]
  BY <1>1 DEF GhostOK, Held
<1>5. GhostOK(kind2, holder, place2, top2, deep, rank, clock)
  <2>1. kind2 \in [Nodes -> {"list", "held", "free", "new"}]
    BY <1>1 DEF GhostOK
  <2>2. \A m \in Nodes : top + 1 + place[m] \in Nat
    BY <1>4
  <2>3. place2 \in [Nodes -> Nat]
    BY <1>4, <2>2
  <2> QED BY <1>1, <1>4, <2>1, <2>3 DEF GhostOK
<1>6. KindOK(kind2)'
  <2>1. \A m \in Nodes : (kind2[m] = "new" <=> kind[m] = "new") /\ (kind2[m] = "free" <=> kind[m] = "free")
    BY <1>4
  <2>2. \A m \in Nodes : kind[m] = "free" => next'[m] # Null
    BY <1>1, <1>2, <1>3 DEF KindOK
  <2> QED BY <1>1, <1>3, <2>1, <2>2 DEF KindOK
<1>7. /\ \A m \in Nodes : kind[m] = "held" /\ holder[m] = t =>
           /\ place[m] <= deep[t]
           /\ next[m] = Null <=> place[m] = deep[t]
           /\ next[m] # Null => /\ kind[next[m]] = "held" /\ holder[next[m]] = t
                                /\ place[next[m]] = place[m] + 1
      /\ \A k, m \in Nodes :
           kind[k] = "held" /\ kind[m] = "held" /\ holder[k] = t /\ holder[m] = t
           /\ place[k] = place[m] => k = m
      /\ \A k \in 0 .. deep[t] :
           \E m \in Nodes : kind[m] = "held" /\ holder[m] = t /\ place[m] = k
  BY <1>1, <1>3 DEF BehindOK, Built, Held
<1>8. /\ head.node \in Nodes /\ tail.node \in Nodes
      /\ head.stamp \in Nat /\ tail.stamp \in Nat
      /\ \A m \in Nodes : next[m] # Null => next[m] \in Nodes
  BY <1>1 DEF TypeOK, NodeOrNull
<1>9. /\ kind[head.node] = "list" /\ place[head.node] = head.stamp
      /\ kind[tail.node] = "list" /\ place[tail.node] = tail.stamp
      /\ \A m \in Nodes : kind[m] = "list" =>
           /\ head.stamp <= place[m] /\ place[m] <= top
           /\ next[m] = Null <=> place[m] = top
           /\ next[m] # Null => kind[next[m]] = "list" /\ place[next[m]] = place[m] + 1
      /\ \A k, m \in Nodes :
           kind[k] = "list" /\ kind[m] = "list" /\ place[k] = place[m] => k = m
      /\ \A k \in head.stamp .. top : \E m \in Nodes : kind[m] = "list" /\ place[m] = k
  BY <1>1 DEF ListOK
<1>10. place[c] = top /\ head.stamp <= top
  BY <1>2, <1>9
<1>11. ListOK(kind2, place2, top2)'
  <2>1. \A m \in Nodes : kind2[m] = "list" <=>
          kind[m] = "list" \/ (kind[m] = "held" /\ holder[m] = t)
    BY <1>4
  <2>2. ASSUME NEW m \in Nodes, kind2[m] = "list"
        PROVE  /\ head.stamp <= place2[m] /\ place2[m] <= top2
               /\ next'[m] = Null <=> place2[m] = top2
               /\ next'[m] # Null => kind2[next'[m]] = "list" /\ place2[next'[m]] = place2[m] + 1
    <3>1. CASE m = c
      <4>1. next'[m] = n /\ kind2[n] = "list" /\ place2[n] = top + 1 /\ place2[m] = top
        BY <1>2, <1>3, <1>4, <1>10, <3>1
      <4> QED BY <1>2, <1>4, <1>10, <4>1
    <3>2. CASE m # c /\ kind[m] = "list"
      <4>1. next'[m] = next[m] /\ place2[m] = place[m] /\ place[m] # top
        BY <1>2, <1>3, <1>4, <1>9, <1>10, <3>2
      <4>2. next[m] \in Nodes /\ next[m] # Null /\ kind[next[m]] = "list"
            /\ place[next[m]] = place[m] + 1
        BY <1>8, <1>9, <3>2, <4>1
      <4>3. kind2[next[m]] = "list" /\ place2[next[m]] = place[m] + 1
        BY <1>4, <4>2
      <4>4. head.stamp <= place[m] /\ place[m] <= top
        BY <1>9, <3>2
      <4> QED BY <1>4, <4>1, <4>2, <4>3, <4>4
    <3>3. CASE kind[m] = "held" /\ holder[m] = t
      <4>1. m # c /\ next'[m] = next[m] /\ place2[m] = top + 1 + place[m]
            /\ place[m] <= deep[t] /\ (next[m] = Null <=> place[m] = deep[t])
        BY <1>2, <1>3, <1>4, <1>7, <3>3
      <4>2. next[m] # Null => kind2[next[m]] = "list" /\ place2[next[m]] = top + 1 + (place[m] + 1)
        BY <1>4, <1>7, <1>8, <3>3
      <4>3. place[m] \in Nat
        BY <1>4
      <4> QED BY <1>4, <1>8, <1>10, <4>1, <4>2, <4>3
    <3> QED BY <2>1, <2>2, <3>1, <3>2, <3>3
  <2>3. ASSUME NEW k \in Nodes, NEW m \in Nodes, kind2[k] = "list", kind2[m] = "list",
               place2[k] = place2[m]
        PROVE  k = m
    <3>1. \A l \in Nodes : kind[l] = "list" => place2[l] = place[l] /\ place[l] <= top
      BY <1>4, <1>9
    <3>2. \A l \in Nodes : kind[l] = "held" /\ holder[l] = t =>
            place2[l] = top + 1 + place[l] /\ place[l] \in Nat
      BY <1>4
    <3>3. CASE kind[k] = "list" /\ kind[m] = "list"
      BY <1>9, <2>3, <3>1, <3>3
    <3>4. CASE kind[k] = "held" /\ holder[k] = t /\ kind[m] = "held" /\ holder[m] = t
      <4>1. place[k] = place[m]
        BY <1>4, <2>3, <3>2, <3>4
      <4> QED BY <1>7, <3>4, <4>1
    <3>5. CASE kind[k] = "list" /\ kind[m] = "held" /\ holder[m] = t
      BY <1>4, <2>3, <3>1, <3>2, <3>5
    <3>6. CASE kind[m] = "list" /\ kind[k] = "held" /\ holder[k] = t
      BY <1>4, <2>3, <3>1, <3>2, <3>6
    <3> QED BY <2>1, <2>3, <3>3, <3>4, <3>5, <3>6
  <2>4. ASSUME NEW k \in head.stamp .. top2
        PROVE  \E m \in Nodes : kind2[m] = "list" /\ place2[m] = k
    <3>1. CASE k <= top
      <4>1. k \in head.stamp .. top
        BY <1>4, <1>8, <3>1
      <4>2. PICK m \in Nodes : kind[m] = "list" /\ place[m] = k
        BY <1>9, <4>1
      <4> QED BY <1>4, <4>2
    <3>2. CASE k > top
      <4>1. k - (top + 1) \in 0 .. deep[t]
        BY <1>4, <1>8, <3>2
      <4>2. PICK m \in Nodes : kind[m] = "held" /\ holder[m] = t /\ place[m] = k - (top + 1)
        BY <1>7, <4>1
      <4>3. top + 1 + (k - (top + 1)) = k
        BY <1>4, <1>8
      <4> QED BY <1>4, <4>2, <4>3
    <3> QED BY <1>4, <1>8, <3>1, <3>2
  <2>5. /\ kind2[head.node] = "list" /\ place2[head.node] = head.stamp
        /\ kind2[tail.node] = "list" /\ place2[tail.node] = tail.stamp
    BY <1>4, <1>8, <1>9
  <2> QED BY <1>3, <2>2, <2>3, <2>4, <2>5 DEF ListOK
<1>12. /\ \A m \in Nodes : kind2[m] = "held" => kind[m] = "held" /\ holder[m] # t
                                               /\ place2[m] = place[m] /\ m # c
       /\ \A m \in Nodes : kind[m] = "held" /\ holder[m] # t => kind2[m] = "held" /\ place2[m] = place[m]
  BY <1>2, <1>4
<1>13. OwnersOK(kind2, holder, place2, deep)'
  <2>1. \A m \in Nodes : kind2[m] = "held" =>
          holder[m] \in Threads /\ pc'[holder[m]] \in Private \union {"dqFree"}
    BY <1>1, <1>3, <1>12 DEF OwnersOK
  <2>2. ASSUME NEW u \in Threads
        PROVE  /\ pc'[u] \in Private =>
                    node'[u] \in Nodes /\ Held(kind2, holder, node'[u], u)
                    /\ place2[node'[u]] = 0
               /\ pc'[u] = "construct" =>
                    /\ \A m \in Nodes : Held(kind2, holder, m, u) => m = node'[u]
                    /\ deep[u] = 0
                    /\ next'[node'[u]] = Null =>
                         \A v \in Threads : pc'[v] \in TailRead => cTail'[v].node # node'[u]
               /\ pc'[u] = "dqFree" =>
                    /\ cHead'[u].node \in Nodes /\ next'[cHead'[u].node] # Null
                    /\ \A m \in Nodes : Held(kind2, holder, m, u) <=> m = cHead'[u].node
    <3>1. CASE u = t
      BY <1>3, <3>1 DEF Private
    <3>2. CASE u # t
      <4>1. pc'[u] = pc[u] /\ \A v \in Threads : pc'[v] \in TailRead => pc[v] \in TailRead
        BY <1>3, <3>2 DEF TailRead
      <4>2. /\ pc[u] \in Private =>
                 node[u] \in Nodes /\ kind[node[u]] = "held" /\ holder[node[u]] = u
                 /\ place[node[u]] = 0
            /\ pc[u] = "construct" =>
                 /\ \A m \in Nodes : kind[m] = "held" /\ holder[m] = u => m = node[u]
                 /\ deep[u] = 0
                 /\ next[node[u]] = Null =>
                      \A v \in Threads : pc[v] \in TailRead => cTail[v].node # node[u]
            /\ pc[u] = "dqFree" =>
                 /\ cHead[u].node \in Nodes /\ next[cHead[u].node] # Null
                 /\ \A m \in Nodes : (kind[m] = "held" /\ holder[m] = u) <=> m = cHead[u].node
        BY <1>1, OwnerFacts
      <4>3. pc[u] = "construct" => pc[u] \in Private
        BY DEF Private
      <4>4. \A m \in Nodes : Held(kind2, holder, m, u) <=> (kind[m] = "held" /\ holder[m] = u)
        BY <1>12, <3>2 DEF Held
      <4>5. pc'[u] \in Private =>
              node'[u] \in Nodes /\ Held(kind2, holder, node'[u], u) /\ place2[node'[u]] = 0
        BY <1>3, <1>12, <3>2, <4>1, <4>2, <4>4
      <4>6. pc'[u] = "construct" =>
              /\ \A m \in Nodes : Held(kind2, holder, m, u) => m = node'[u]
              /\ deep[u] = 0
              /\ next'[node'[u]] = Null =>
                   \A v \in Threads : pc'[v] \in TailRead => cTail'[v].node # node'[u]
        BY <1>2, <1>3, <4>1, <4>2, <4>3, <4>4
      <4>7. pc'[u] = "dqFree" =>
              /\ cHead'[u].node \in Nodes /\ next'[cHead'[u].node] # Null
              /\ \A m \in Nodes : Held(kind2, holder, m, u) <=> m = cHead'[u].node
        BY <1>2, <1>3, <4>1, <4>2, <4>4
      <4> QED BY <4>5, <4>6, <4>7
    <3> QED BY <3>1, <3>2
  <2> QED BY <2>1, <2>2 DEF OwnersOK, Held
<1>14. BehindOK(kind2, holder, place2, deep)'
  <2>1. \A m \in Nodes : kind2[m] = "held" => holder[m] \in Threads
    BY <1>1, <1>12 DEF OwnersOK
  <2>2. ASSUME NEW m \in Nodes, kind2[m] = "held", pc'[holder[m]] \in Built
        PROVE  /\ place2[m] <= deep[holder[m]]
               /\ next'[m] = Null <=> place2[m] = deep[holder[m]]
               /\ next'[m] # Null => Held(kind2, holder, next'[m], holder[m])
                                     /\ place2[next'[m]] = place2[m] + 1
    <3>1. kind[m] = "held" /\ holder[m] # t /\ place2[m] = place[m] /\ next'[m] = next[m]
          /\ pc[holder[m]] \in Built
      BY <1>3, <1>12, <2>1, <2>2
    <3>2. /\ place[m] <= deep[holder[m]]
          /\ next[m] = Null <=> place[m] = deep[holder[m]]
          /\ next[m] # Null => kind[next[m]] = "held" /\ holder[next[m]] = holder[m]
                               /\ place[next[m]] = place[m] + 1
      BY <1>1, <3>1 DEF BehindOK, Held
    <3> QED BY <1>8, <1>12, <3>1, <3>2 DEF Held
  <2>3. \A k, m \in Nodes :
          kind2[k] = "held" /\ kind2[m] = "held" /\ holder[k] = holder[m]
          /\ pc'[holder[m]] \in Built /\ place2[k] = place2[m] => k = m
    BY <1>1, <1>3, <1>12, <2>1 DEF BehindOK
  <2>4. ASSUME NEW u \in Threads, pc'[u] \in Built
        PROVE  \A k \in 0 .. deep[u] : \E m \in Nodes : Held(kind2, holder, m, u) /\ place2[m] = k
    <3>1. u # t /\ pc[u] \in Built
      BY <1>3, <2>4 DEF Built
    <3>2. \A k \in 0 .. deep[u] :
            \E m \in Nodes : kind[m] = "held" /\ holder[m] = u /\ place[m] = k
      BY <1>1, <3>1 DEF BehindOK, Held
    <3> QED BY <1>12, <3>1, <3>2 DEF Held
  <2> QED BY <2>2, <2>3, <2>4 DEF BehindOK, Held
<1>15. RankOK(kind2, holder, rank, clock)'
  <2>1. ASSUME NEW v \in Threads, NEW u \in Threads, pc'[v] \in {"tailNext", "link"},
               pc'[u] \in Private, Held(kind2, holder, cTail'[v].node, u)
        PROVE  rank[v] < rank[u]
    <3>1. v # t /\ u # t /\ pc[v] \in {"tailNext", "link"} /\ pc[u] \in Private
      BY <1>3, <2>1 DEF Private
    <3>2. cTail[v].node \in Nodes
      <4>1. CopiesOK(v)
        BY DEF Core
      <4> QED BY <1>1, <3>1, <4>1 DEF CopiesOK, Copy, TailRead, TypeOK
    <3>3. Held(kind, holder, cTail[v].node, u)
      BY <1>3, <1>12, <2>1, <3>2 DEF Held
    <3> QED BY <1>1, <3>1, <3>3 DEF RankOK
  <2> QED BY <1>1, <2>1 DEF RankOK, Held
<1> QED BY <1>3, <1>5, <1>6, <1>10, <1>11, <1>13, <1>14, <1>15 DEF Core, GhostOK, c

\* LinkNode behind a node another thread holds: what thread t held is now in
\* the other's hands.
LEMMA LinkCoreHeld ==
  ASSUME NEW kind, NEW holder, NEW place, NEW top, NEW deep, NEW rank, NEW clock,
         Core(kind, holder, place, top, deep, rank, clock),
         NEW t \in Threads, LinkNode(t), kind[cTail[t].node] # "list",
         NEW h, h = holder[cTail[t].node],
         NEW holder2, holder2 = [m \in Nodes |-> IF Held(kind, holder, m, t) THEN h ELSE holder[m]],
         NEW place2,
         place2 = [m \in Nodes |-> IF Held(kind, holder, m, t) THEN deep[h] + 1 + place[m] ELSE place[m]],
         NEW deep2, deep2 = [deep EXCEPT ![h] = deep[h] + 1 + deep[t]]
  PROVE  /\ Core(kind, holder2, place2, top, deep2, rank, clock)'
         /\ h \in Threads /\ h # t /\ pc[h] \in Built
<1> DEFINE c == cTail[t].node
           n == node[t]
<1>1. /\ TypeOK /\ GhostOK(kind, holder, place, top, deep, rank, clock)
      /\ KindOK(kind) /\ ListOK(kind, place, top) /\ OwnersOK(kind, holder, place, deep)
      /\ BehindOK(kind, holder, place, deep)
      /\ RankOK(kind, holder, rank, clock)
  BY DEF Core
<1>2. /\ c \in Nodes /\ next[c] = Null /\ kind[c] = "held" /\ holder[c] = h
      /\ h \in Threads /\ h # t /\ pc[h] \in Built
      /\ n \in Nodes /\ kind[n] = "held" /\ holder[n] = t /\ place[n] = 0 /\ n # Null
      /\ \A v \in Threads : pc[v] = "construct" => node[v] # c
      /\ \A v \in Threads : pc[v] = "dqFree" => cHead[v].node # c
  BY LinkTarget, ConstantAssumption
<1>3. /\ TypeOK'
      /\ pc[t] = "link" /\ pc'[t] = "size"
      /\ \A u \in Threads : u # t => pc'[u] = pc[u]
      /\ UNCHANGED <<head, tail, data, size, free, heap, node, cHead, cTail, cNext, cData>>
      /\ next'[c] = n
      /\ \A m \in Nodes : m # c => next'[m] = next[m]
      /\ \A u \in Threads : CopiesOK(u)'
  BY LinkQuiet
<1> HIDE DEF c, n
<1>4. /\ deep[h] \in Nat /\ deep[t] \in Nat /\ deep2[h] = deep[h] + 1 + deep[t]
      /\ \A u \in Threads : u # h => deep2[u] = deep[u]
      /\ \A m \in Nodes : place[m] \in Nat
      /\ \A m \in Nodes : kind[m] = "held" /\ holder[m] = t =>
           holder2[m] = h /\ place2[m] = deep[h] + 1 + place[m]
      /\ \A m \in Nodes : ~(kind[m] = "held" /\ holder[m] = t) =>
           holder2[m] = holder[m] /\ place2[m] = place[m]
  BY <1>1, <1>2 DEF GhostOK, Held
<1>5. GhostOK(kind, holder2, place2, top, deep2, rank, clock)
  <2>1. holder2 \in [Nodes -> Threads \union {Null}]
    BY <1>1, <1>2 DEF GhostOK
  <2>2. \A m \in Nodes : deep[h] + 1 + place[m] \in Nat
    BY <1>4
  <2>3. place2 \in [Nodes -> Nat]
    BY <1>4, <2>2
  <2>4. deep[h] + 1 + deep[t] \in Nat
    BY <1>4
  <2>5. deep2 \in [Threads -> Nat]
    BY <1>1, <2>4 DEF GhostOK
  <2> QED BY <1>1, <2>1, <2>3, <2>5 DEF GhostOK
<1>6. KindOK(kind)'
  BY <1>1, <1>2, <1>3 DEF KindOK
<1>7. /\ \A m \in Nodes : kind[m] = "held" /\ holder[m] \in {t, h} =>
           /\ place[m] <= deep[holder[m]]
           /\ next[m] = Null <=> place[m] = deep[holder[m]]
           /\ next[m] # Null => /\ kind[next[m]] = "held" /\ holder[next[m]] = holder[m]
                                /\ place[next[m]] = place[m] + 1
      /\ \A k, m \in Nodes :
           kind[k] = "held" /\ kind[m] = "held" /\ holder[k] = holder[m] /\ holder[m] \in {t, h}
           /\ place[k] = place[m] => k = m
      /\ \A u \in {t, h} : \A k \in 0 .. deep[u] :
           \E m \in Nodes : kind[m] = "held" /\ holder[m] = u /\ place[m] = k
  BY <1>1, <1>2, <1>3 DEF BehindOK, Built, Held
<1>8. /\ head.node \in Nodes /\ tail.node \in Nodes
      /\ head.stamp \in Nat /\ tail.stamp \in Nat
      /\ \A m \in Nodes : next[m] # Null => next[m] \in Nodes
  BY <1>1 DEF TypeOK, NodeOrNull
<1>9. place[c] = deep[h]
  BY <1>2, <1>7
<1>10. ListOK(kind, place2, top)'
  <2>1. \A m \in Nodes : kind[m] = "list" => place2[m] = place[m] /\ next'[m] = next[m]
    BY <1>2, <1>3, <1>4
  <2> QED BY <1>1, <1>3, <1>8, <2>1 DEF ListOK
<1>11. /\ \A m \in Nodes : kind[m] = "held" => holder2[m] \in Threads /\ holder2[m] # t
       /\ \A m \in Nodes : kind[m] = "held" /\ holder2[m] # h =>
            holder2[m] = holder[m] /\ place2[m] = place[m] /\ m # c /\ next'[m] = next[m]
       /\ \A m \in Nodes : kind[m] = "held" /\ holder[m] # t =>
            holder2[m] = holder[m] /\ place2[m] = place[m]
  <2>1. \A m \in Nodes : kind[m] = "held" => holder[m] \in Threads
    BY <1>1 DEF OwnersOK
  <2> QED BY <1>2, <1>3, <1>4, <2>1
<1>12. OwnersOK(kind, holder2, place2, deep2)'
  <2>1. \A m \in Nodes : kind[m] = "held" =>
          holder2[m] \in Threads /\ pc'[holder2[m]] \in Private \union {"dqFree"}
    <3>1. \A m \in Nodes : kind[m] = "held" =>
            pc[holder[m]] \in Private \union {"dqFree"}
      BY <1>1 DEF OwnersOK
    <3>2. pc'[h] \in Private
      BY <1>2, <1>3 DEF Private, Built
    <3> QED BY <1>3, <1>11, <3>1, <3>2
  <2>2. ASSUME NEW u \in Threads
        PROVE  /\ pc'[u] \in Private =>
                    node'[u] \in Nodes /\ Held(kind, holder2, node'[u], u)
                    /\ place2[node'[u]] = 0
               /\ pc'[u] = "construct" =>
                    /\ \A m \in Nodes : Held(kind, holder2, m, u) => m = node'[u]
                    /\ deep2[u] = 0
                    /\ next'[node'[u]] = Null =>
                         \A v \in Threads : pc'[v] \in TailRead => cTail'[v].node # node'[u]
               /\ pc'[u] = "dqFree" =>
                    /\ cHead'[u].node \in Nodes /\ next'[cHead'[u].node] # Null
                    /\ \A m \in Nodes : Held(kind, holder2, m, u) <=> m = cHead'[u].node
    <3>1. CASE u = t
      BY <1>3, <3>1 DEF Private
    <3>2. CASE u # t
      <4>1. pc'[u] = pc[u] /\ \A v \in Threads : pc'[v] \in TailRead => pc[v] \in TailRead
        BY <1>3, <3>2 DEF TailRead
      <4>2. /\ pc[u] \in Private =>
                 node[u] \in Nodes /\ kind[node[u]] = "held" /\ holder[node[u]] = u
                 /\ place[node[u]] = 0
            /\ pc[u] = "construct" =>
                 /\ \A m \in Nodes : kind[m] = "held" /\ holder[m] = u => m = node[u]
                 /\ deep[u] = 0
                 /\ next[node[u]] = Null =>
                      \A v \in Threads : pc[v] \in TailRead => cTail[v].node # node[u]
            /\ pc[u] = "dqFree" =>
                 /\ cHead[u].node \in Nodes /\ next[cHead[u].node] # Null
                 /\ \A m \in Nodes : (kind[m] = "held" /\ holder[m] = u) <=> m = cHead[u].node
        BY <1>1, OwnerFacts
      <4>3. pc[u] = "construct" => pc[u] \in Private /\ u # h
        BY <1>2 DEF Private, Built
      <4>4. pc[u] = "dqFree" => u # h
        BY <1>2 DEF Built
      <4>5. u # h => \A m \in Nodes : Held(kind, holder2, m, u) <=> (kind[m] = "held" /\ holder[m] = u)
        BY <1>4, <3>2 DEF Held
      <4>6. pc'[u] \in Private =>
              node'[u] \in Nodes /\ Held(kind, holder2, node'[u], u) /\ place2[node'[u]] = 0
        BY <1>3, <1>11, <3>2, <4>1, <4>2 DEF Held
      <4>7. pc'[u] = "construct" =>
              /\ \A m \in Nodes : Held(kind, holder2, m, u) => m = node'[u]
              /\ deep2[u] = 0
              /\ next'[node'[u]] = Null =>
                   \A v \in Threads : pc'[v] \in TailRead => cTail'[v].node # node'[u]
        BY <1>2, <1>3, <1>4, <4>1, <4>2, <4>3, <4>5
      <4>8. pc'[u] = "dqFree" =>
              /\ cHead'[u].node \in Nodes /\ next'[cHead'[u].node] # Null
              /\ \A m \in Nodes : Held(kind, holder2, m, u) <=> m = cHead'[u].node
        BY <1>2, <1>3, <4>1, <4>2, <4>4, <4>5
      <4> QED BY <4>6, <4>7, <4>8
    <3> QED BY <3>1, <3>2
  <2> QED BY <2>1, <2>2 DEF OwnersOK, Held
<1>13. BehindOK(kind, holder2, place2, deep2)'
  <2>1. ASSUME NEW m \in Nodes, kind[m] = "held", pc'[holder2[m]] \in Built
        PROVE  /\ place2[m] <= deep2[holder2[m]]
               /\ next'[m] = Null <=> place2[m] = deep2[holder2[m]]
               /\ next'[m] # Null => Held(kind, holder2, next'[m], holder2[m])
                                     /\ place2[next'[m]] = place2[m] + 1
    <3>1. CASE holder2[m] # h
      <4>1. /\ holder2[m] = holder[m] /\ holder[m] \in Threads /\ holder[m] # t /\ holder[m] # h
            /\ place2[m] = place[m] /\ next'[m] = next[m] /\ pc[holder[m]] \in Built
            /\ deep2[holder[m]] = deep[holder[m]]
        BY <1>3, <1>4, <1>11, <2>1, <3>1
      <4>2. /\ place[m] <= deep[holder[m]]
            /\ next[m] = Null <=> place[m] = deep[holder[m]]
            /\ next[m] # Null => kind[next[m]] = "held" /\ holder[next[m]] = holder[m]
                                 /\ place[next[m]] = place[m] + 1
        BY <1>1, <2>1, <4>1 DEF BehindOK, Held
      <4> QED BY <1>8, <1>11, <4>1, <4>2 DEF Held
    <3>2. CASE m = c
      <4>1. next'[m] = n /\ holder2[n] = h /\ place2[n] = deep[h] + 1 /\ place2[m] = deep[h]
            /\ holder2[m] = h
        BY <1>2, <1>3, <1>4, <1>9, <3>2
      <4> QED BY <1>2, <1>4, <4>1 DEF Held
    <3>3. CASE m # c /\ holder[m] = h
      <4>1. /\ next'[m] = next[m] /\ place2[m] = place[m] /\ place[m] # deep[h]
            /\ holder2[m] = h /\ place[m] <= deep[h]
        BY <1>2, <1>3, <1>4, <1>7, <1>9, <2>1, <3>3
      <4>2. /\ next[m] \in Nodes /\ next[m] # Null /\ kind[next[m]] = "held"
            /\ holder[next[m]] = h /\ place[next[m]] = place[m] + 1
        BY <1>7, <1>8, <2>1, <3>3, <4>1
      <4>3. holder2[next[m]] = h /\ place2[next[m]] = place[m] + 1
        BY <1>2, <1>4, <4>2
      <4> QED BY <1>4, <4>1, <4>2, <4>3 DEF Held
    <3>4. CASE holder[m] = t
      <4>1. /\ m # c /\ next'[m] = next[m] /\ place2[m] = deep[h] + 1 + place[m]
            /\ holder2[m] = h
            /\ place[m] <= deep[t] /\ (next[m] = Null <=> place[m] = deep[t])
        BY <1>2, <1>3, <1>4, <1>7, <2>1, <3>4
      <4>2. next[m] # Null => /\ kind[next[m]] = "held" /\ holder2[next[m]] = h
                              /\ place2[next[m]] = deep[h] + 1 + (place[m] + 1)
        BY <1>4, <1>7, <1>8, <2>1, <3>4
      <4>3. place[m] \in Nat
        BY <1>4
      <4> QED BY <1>4, <4>1, <4>2, <4>3 DEF Held
    <3> QED BY <1>4, <2>1, <3>1, <3>2, <3>3, <3>4
  <2>2. ASSUME NEW k \in Nodes, NEW m \in Nodes, kind[k] = "held", kind[m] = "held",
               holder2[k] = holder2[m], pc'[holder2[m]] \in Built, place2[k] = place2[m]
        PROVE  k = m
    <3>1. CASE holder2[m] # h
      <4>1. /\ holder[k] = holder[m] /\ place[k] = place[m] /\ pc[holder[m]] \in Built
        BY <1>3, <1>11, <2>2, <3>1
      <4> QED BY <1>1, <2>2, <4>1 DEF BehindOK
    <3>2. CASE holder2[m] = h
      <4>1. \A l \in Nodes : kind[l] = "held" /\ holder2[l] = h => holder[l] \in {t, h}
        BY <1>4
      <4>2. \A l \in Nodes : kind[l] = "held" /\ holder[l] = h =>
              place2[l] = place[l] /\ place[l] <= deep[h] /\ place[l] \in Nat
        BY <1>2, <1>4, <1>7
      <4>3. \A l \in Nodes : kind[l] = "held" /\ holder[l] = t =>
              place2[l] = deep[h] + 1 + place[l] /\ place[l] \in Nat
        BY <1>4
      <4>4. holder[k] = holder[m] /\ holder[m] \in {t, h}
        <5>1. holder[k] \in {t, h} /\ holder[m] \in {t, h}
          BY <2>2, <3>2, <4>1
        <5>2. ~(holder[k] = t /\ holder[m] = h)
          BY <1>4, <2>2, <4>2, <4>3
        <5>3. ~(holder[k] = h /\ holder[m] = t)
          BY <1>4, <2>2, <4>2, <4>3
        <5> QED BY <5>1, <5>2, <5>3
      <4>5. place[k] = place[m]
        BY <1>4, <2>2, <4>2, <4>3, <4>4
      <4> QED BY <1>7, <2>2, <4>4, <4>5
    <3> QED BY <3>1, <3>2
  <2>3. ASSUME NEW u \in Threads, pc'[u] \in Built, NEW k \in 0 .. deep2[u]
        PROVE  \E m \in Nodes : kind[m] = "held" /\ holder2[m] = u /\ place2[m] = k
    <3>1. u # t
      BY <1>3, <2>3 DEF Built
    <3>2. CASE u # h
      <4>1. pc[u] \in Built /\ k \in 0 .. deep[u]
        BY <1>3, <1>4, <2>3, <3>1, <3>2
      <4>2. PICK m \in Nodes : kind[m] = "held" /\ holder[m] = u /\ place[m] = k
        BY <1>1, <4>1 DEF BehindOK, Held
      <4> QED BY <1>11, <3>1, <4>2
    <3>3. CASE u = h /\ k <= deep[h]
      <4>1. k \in 0 .. deep[h]
        BY <1>4, <2>3, <3>3
      <4>2. PICK m \in Nodes : kind[m] = "held" /\ holder[m] = h /\ place[m] = k
        BY <1>7, <4>1
      <4> QED BY <1>2, <1>11, <3>3, <4>2
    <3>4. CASE u = h /\ k > deep[h]
      <4>1. k - (deep[h] + 1) \in 0 .. deep[t]
        BY <1>4, <2>3, <3>4
      <4>2. PICK m \in Nodes : kind[m] = "held" /\ holder[m] = t /\ place[m] = k - (deep[h] + 1)
        BY <1>7, <4>1
      <4>3. deep[h] + 1 + (k - (deep[h] + 1)) = k
        BY <1>4, <2>3
      <4> QED BY <1>4, <3>4, <4>2, <4>3
    <3> QED BY <1>4, <2>3, <3>2, <3>3, <3>4
  <2> QED BY <2>1, <2>2, <2>3 DEF BehindOK, Held
<1>14. RankOK(kind, holder2, rank, clock)'
  <2>1. ASSUME NEW v \in Threads, NEW u \in Threads, pc'[v] \in {"tailNext", "link"},
               pc'[u] \in Private, Held(kind, holder2, cTail'[v].node, u)
        PROVE  rank[v] < rank[u]
    <3>1. v # t /\ u # t /\ pc[v] \in {"tailNext", "link"} /\ pc[u] \in Private
      BY <1>3, <2>1 DEF Private
    <3>2. cTail[v].node \in Nodes /\ kind[cTail[v].node] = "held" /\ holder2[cTail[v].node] = u
      <4>1. CopiesOK(v)
        BY DEF Core
      <4> QED BY <1>1, <1>3, <2>1, <3>1, <4>1 DEF CopiesOK, Copy, TailRead, TypeOK, Held
    <3>3. CASE holder[cTail[v].node] # t
      BY <1>1, <1>11, <3>1, <3>2, <3>3 DEF RankOK, Held
    <3>4. CASE holder[cTail[v].node] = t
      <4>1. u = h
        BY <1>4, <3>2, <3>4
      <4>2. rank[v] < rank[t]
        BY <1>1, <1>3, <3>1, <3>2, <3>4 DEF RankOK, Held, Private
      <4>3. rank[t] < rank[h]
        BY <1>1, <1>2, <1>3 DEF RankOK, Held, Private, Built, c
      <4>4. rank[t] \in Nat /\ rank[h] \in Nat /\ rank[v] \in Nat
        BY <1>1, <1>2 DEF GhostOK
      <4> QED BY <4>1, <4>2, <4>3, <4>4
    <3> QED BY <3>3, <3>4
  <2> QED BY <1>1, <2>1 DEF RankOK, Held
<1> QED BY <1>2, <1>3, <1>5, <1>6, <1>10, <1>12, <1>13, <1>14 DEF Core, GhostOK

\* The compare-exchange of Dequeue: the next node is the dummy, and the old
\* one is in the thread's hands.
LEMMA MoveFacts ==
  ASSUME NEW kind, NEW holder, NEW place, NEW top, NEW deep, NEW rank, NEW clock,
         Core(kind, holder, place, top, deep, rank, clock), NoWrap,
         NEW t \in Threads, DqMoveHead(t)
  PROVE  /\ next[head.node] \in Nodes /\ head' = Word(head.stamp + 1, next[head.node])
         /\ kind[next[head.node]] = "list" /\ place[next[head.node]] = head.stamp + 1
         /\ cHead[t].node = head.node
         /\ cData[t] = data[next[head.node]] /\ head.stamp < tail.stamp
<1>1. TypeOK /\ ListOK(kind, place, top) /\ CopiesOK(t)
  BY DEF Core
<1>2. pc[t] = "dqCas" /\ head = cHead[t] /\ head' = Moved(cHead[t], cNext[t])
  BY DEF DqMoveHead, Goto
<1>3. /\ cNext[t] \in Nodes /\ next[head.node] = cNext[t] /\ cNext[t] # Null
      /\ head.stamp < tail.stamp /\ cData[t] = data[cNext[t]]
  BY <1>1, <1>2, ConstantAssumption DEF CopiesOK
<1>4. /\ head.stamp \in Nat /\ tail.stamp \in Nat /\ head.node \in Nodes
      /\ kind[head.node] = "list" /\ place[head.node] = head.stamp
      /\ StampMod \in Nat
  BY <1>1, ConstantAssumption DEF TypeOK, ListOK
<1>5. head.stamp + 1 < StampMod
  BY <1>3, <1>4 DEF NoWrap
<1>6. head' = Word(head.stamp + 1, next[head.node])
  BY <1>2, <1>3, <1>4, <1>5, NextStamp
<1>7. kind[next[head.node]] = "list" /\ place[next[head.node]] = head.stamp + 1
  BY <1>1, <1>3, <1>4 DEF ListOK
<1> QED BY <1>2, <1>3, <1>6, <1>7

LEMMA MoveCore ==
  ASSUME NEW kind, NEW holder, NEW place, NEW top, NEW deep, NEW rank, NEW clock,
         Core(kind, holder, place, top, deep, rank, clock), NoWrap,
         NEW t \in Threads, DqMoveHead(t), NEW old, old = head.node,
         NEW kind2, kind2 = [kind EXCEPT ![old] = "held"],
         NEW holder2, holder2 = [holder EXCEPT ![old] = t]
  PROVE  Core(kind2, holder2, place, top, deep, rank, clock)'
<1>1. /\ TypeOK /\ GhostOK(kind, holder, place, top, deep, rank, clock)
      /\ KindOK(kind) /\ ListOK(kind, place, top) /\ OwnersOK(kind, holder, place, deep)
      /\ BehindOK(kind, holder, place, deep) /\ (\A u \in Threads : CopiesOK(u))
      /\ RankOK(kind, holder, rank, clock)
  BY DEF Core
<1>2. /\ pc[t] = "dqCas" /\ pc' \in [Threads -> Statements] /\ pc'[t] = "dqFree"
      /\ \A u \in Threads : u # t => pc'[u] = pc[u]
  BY <1>1, GotoFacts DEF DqMoveHead, Statements
<1>3. /\ UNCHANGED <<tail, next, data, size, free, heap, node, cHead, cTail, cNext, cData, sent>>
      /\ got' = Append(got, cData[t])
  BY DEF DqMoveHead, pool
<1>4. /\ next[old] \in Nodes /\ head' = Word(head.stamp + 1, next[old])
      /\ kind[next[old]] = "list" /\ place[next[old]] = head.stamp + 1
      /\ cHead[t].node = old /\ head.stamp < tail.stamp
  BY MoveFacts
<1>5. head'.node = next[old] /\ head'.stamp = head.stamp + 1
  BY <1>4 DEF Word
<1>6. /\ old \in Nodes /\ head.stamp \in Nat /\ tail.stamp \in Nat /\ Null \notin Nodes
      /\ cData[t] \in Data /\ tail.node \in Nodes
      /\ \A m \in Nodes : next[m] # Null => next[m] \in Nodes
      /\ \A m \in Nodes : place[m] \in Nat
  BY <1>1, ConstantAssumption DEF TypeOK, NodeOrNull, GhostOK
<1>7. got' \in Seq(Data)
  BY <1>1, <1>3, <1>6, AppendProperties DEF TypeOK
<1>8. TypeOK'
  BY <1>1, <1>2, <1>3, <1>4, <1>6, <1>7 DEF TypeOK, Word
<1>9. GhostOK(kind2, holder2, place, top, deep, rank, clock)
  BY <1>1 DEF GhostOK
<1>10. /\ kind[old] = "list" /\ place[old] = head.stamp
       /\ kind2[old] = "held" /\ holder2[old] = t
       /\ \A m \in Nodes : m # old => kind2[m] = kind[m] /\ holder2[m] = holder[m]
  BY <1>1, <1>6 DEF GhostOK, ListOK
<1>11. KindOK(kind2)'
  BY <1>1, <1>3, <1>6, <1>10 DEF KindOK
<1>12. ListOK(kind2, place, top)'
  <2>1. kind2[head'.node] = "list" /\ place[head'.node] = head'.stamp
    BY <1>4, <1>5, <1>6, <1>10
  <2>2. kind2[tail.node] = "list" /\ place[tail.node] = tail.stamp
    <3>1. kind[tail.node] = "list" /\ place[tail.node] = tail.stamp
      BY <1>1 DEF ListOK
    <3> QED BY <1>4, <1>6, <1>10, <3>1
  <2>3. ASSUME NEW m \in Nodes, kind2[m] = "list"
        PROVE  /\ head'.stamp <= place[m] /\ place[m] <= top
               /\ next[m] = Null <=> place[m] = top
               /\ next[m] # Null => kind2[next[m]] = "list" /\ place[next[m]] = place[m] + 1
    <3>1. m # old /\ kind[m] = "list"
      BY <1>10, <2>3
    <3>2. /\ head.stamp <= place[m] /\ place[m] <= top
          /\ next[m] = Null <=> place[m] = top
          /\ next[m] # Null => kind[next[m]] = "list" /\ place[next[m]] = place[m] + 1
      BY <1>1, <3>1 DEF ListOK
    <3>3. place[m] # head.stamp
      BY <1>1, <1>6, <1>10, <3>1 DEF ListOK
    <3> QED BY <1>5, <1>6, <1>10, <3>2, <3>3
  <2>4. \A k, m \in Nodes :
          kind2[k] = "list" /\ kind2[m] = "list" /\ place[k] = place[m] => k = m
    BY <1>1, <1>10 DEF ListOK
  <2>5. ASSUME NEW k \in head'.stamp .. top
        PROVE  \E m \in Nodes : kind2[m] = "list" /\ place[m] = k
    <3>1. k \in head.stamp .. top /\ k # head.stamp
      BY <1>1, <1>5, <1>6 DEF GhostOK
    <3>2. PICK m \in Nodes : kind[m] = "list" /\ place[m] = k
      BY <1>1, <3>1 DEF ListOK
    <3> QED BY <1>10, <3>1, <3>2
  <2> QED BY <1>3, <2>1, <2>2, <2>3, <2>4, <2>5 DEF ListOK
<1>13. /\ \A m \in Nodes : kind[m] = "held" => holder[m] # t /\ m # old
       /\ \A m \in Nodes, u \in Threads : u # t =>
            ((kind2[m] = "held" /\ holder2[m] = u) <=> (kind[m] = "held" /\ holder[m] = u))
  BY <1>1, <1>2, <1>10 DEF OwnersOK, Private
<1>14. OwnersOK(kind2, holder2, place, deep)'
  <2>1. \A m \in Nodes : kind2[m] = "held" =>
          holder2[m] \in Threads /\ pc'[holder2[m]] \in Private \union {"dqFree"}
    BY <1>1, <1>2, <1>10, <1>13 DEF OwnersOK
  <2>2. ASSUME NEW u \in Threads
        PROVE  /\ pc'[u] \in Private =>
                    node'[u] \in Nodes /\ Held(kind2, holder2, node'[u], u)
                    /\ place[node'[u]] = 0
               /\ pc'[u] = "construct" =>
                    /\ \A m \in Nodes : Held(kind2, holder2, m, u) => m = node'[u]
                    /\ deep[u] = 0
                    /\ next'[node'[u]] = Null =>
                         \A v \in Threads : pc'[v] \in TailRead => cTail'[v].node # node'[u]
               /\ pc'[u] = "dqFree" =>
                    /\ cHead'[u].node \in Nodes /\ next'[cHead'[u].node] # Null
                    /\ \A m \in Nodes : Held(kind2, holder2, m, u) <=> m = cHead'[u].node
    <3>1. CASE u = t
      <4>1. \A m \in Nodes : Held(kind2, holder2, m, t) <=> m = old
        BY <1>10, <1>13 DEF Held
      <4> QED BY <1>2, <1>3, <1>4, <1>6, <3>1, <4>1 DEF Private
    <3>2. CASE u # t
      <4>1. pc'[u] = pc[u] /\ \A v \in Threads : pc'[v] \in TailRead => pc[v] \in TailRead
        BY <1>2, <3>2 DEF TailRead
      <4>2. /\ pc[u] \in Private =>
                 node[u] \in Nodes /\ kind[node[u]] = "held" /\ holder[node[u]] = u
                 /\ place[node[u]] = 0
            /\ pc[u] = "construct" =>
                 /\ \A m \in Nodes : kind[m] = "held" /\ holder[m] = u => m = node[u]
                 /\ deep[u] = 0
                 /\ next[node[u]] = Null =>
                      \A v \in Threads : pc[v] \in TailRead => cTail[v].node # node[u]
            /\ pc[u] = "dqFree" =>
                 /\ cHead[u].node \in Nodes /\ next[cHead[u].node] # Null
                 /\ \A m \in Nodes : (kind[m] = "held" /\ holder[m] = u) <=> m = cHead[u].node
        BY <1>1, OwnerFacts
      <4>3. \A m \in Nodes : Held(kind2, holder2, m, u) <=> (kind[m] = "held" /\ holder[m] = u)
        BY <1>13, <3>2 DEF Held
      <4>4. pc'[u] \in Private =>
              node'[u] \in Nodes /\ Held(kind2, holder2, node'[u], u) /\ place[node'[u]] = 0
        BY <1>3, <4>1, <4>2, <4>3
      <4>5. pc'[u] = "construct" =>
              /\ \A m \in Nodes : Held(kind2, holder2, m, u) => m = node'[u]
              /\ deep[u] = 0
              /\ next'[node'[u]] = Null =>
                   \A v \in Threads : pc'[v] \in TailRead => cTail'[v].node # node'[u]
        BY <1>3, <4>1, <4>2, <4>3
      <4>6. pc'[u] = "dqFree" =>
              /\ cHead'[u].node \in Nodes /\ next'[cHead'[u].node] # Null
              /\ \A m \in Nodes : Held(kind2, holder2, m, u) <=> m = cHead'[u].node
        BY <1>3, <4>1, <4>2, <4>3
      <4> QED BY <4>4, <4>5, <4>6
    <3> QED BY <3>1, <3>2
  <2> QED BY <2>1, <2>2 DEF OwnersOK, Held
<1>15. BehindOK(kind2, holder2, place, deep)'
  <2>1. \A m \in Nodes : kind2[m] = "held" /\ pc'[holder2[m]] \in Built =>
          /\ m # old /\ kind[m] = "held" /\ holder2[m] = holder[m] /\ holder[m] \in Threads
          /\ pc[holder[m]] \in Built
    BY <1>1, <1>2, <1>10, <1>13 DEF OwnersOK, Built
  <2>2. ASSUME NEW m \in Nodes, kind2[m] = "held", pc'[holder2[m]] \in Built
        PROVE  /\ place[m] <= deep[holder2[m]]
               /\ next[m] = Null <=> place[m] = deep[holder2[m]]
               /\ next[m] # Null => Held(kind2, holder2, next[m], holder2[m])
                                     /\ place[next[m]] = place[m] + 1
    <3>1. /\ place[m] <= deep[holder[m]]
          /\ next[m] = Null <=> place[m] = deep[holder[m]]
          /\ next[m] # Null => kind[next[m]] = "held" /\ holder[next[m]] = holder[m]
                               /\ place[next[m]] = place[m] + 1
      BY <1>1, <2>1, <2>2 DEF BehindOK, Held
    <3> QED BY <1>6, <1>10, <1>13, <2>1, <2>2, <3>1 DEF Held
  <2>3. \A k, m \in Nodes :
          kind2[k] = "held" /\ kind2[m] = "held" /\ holder2[k] = holder2[m]
          /\ pc'[holder2[m]] \in Built /\ place[k] = place[m] => k = m
    BY <1>1, <2>1 DEF BehindOK
  <2>4. ASSUME NEW u \in Threads, pc'[u] \in Built
        PROVE  \A k \in 0 .. deep[u] : \E m \in Nodes : Held(kind2, holder2, m, u) /\ place[m] = k
    <3>1. u # t /\ pc[u] \in Built
      BY <1>2, <2>4 DEF Built
    <3>2. \A k \in 0 .. deep[u] :
            \E m \in Nodes : kind[m] = "held" /\ holder[m] = u /\ place[m] = k
      BY <1>1, <3>1 DEF BehindOK, Held
    <3> QED BY <1>13, <3>1, <3>2 DEF Held
  <2> QED BY <1>3, <2>2, <2>3, <2>4 DEF BehindOK, Held
<1>16. ASSUME NEW u \in Threads PROVE CopiesOK(u)'
  <2>1. CASE u = t
    BY <1>2, <2>1 DEF CopiesOK, TailRead, HeadRead
  <2>2. CASE u # t
    <3>1. Onward
      BY <1>3, <1>5, <1>6 DEF Onward
    <3>2. Unmoved(u)
      BY <1>2, <1>3, <2>2 DEF Unmoved
    <3> QED BY <1>1, <1>8, <3>1, <3>2, CopiesStay
  <2> QED BY <2>1, <2>2
<1>17. RankOK(kind2, holder2, rank, clock)'
  <2>1. ASSUME NEW v \in Threads, NEW u \in Threads, pc'[v] \in {"tailNext", "link"},
               pc'[u] \in Private, Held(kind2, holder2, cTail'[v].node, u)
        PROVE  rank[v] < rank[u]
    <3>1. v # t /\ u # t /\ pc[v] \in {"tailNext", "link"} /\ pc[u] \in Private
      BY <1>2, <2>1 DEF Private
    <3>2. cTail[v].node \in Nodes
      BY <1>1, <3>1 DEF CopiesOK, Copy, TailRead, TypeOK
    <3>3. Held(kind, holder, cTail[v].node, u)
      BY <1>3, <1>13, <2>1, <3>1, <3>2 DEF Held
    <3> QED BY <1>1, <3>1, <3>3 DEF RankOK
  <2> QED BY <1>1, <2>1 DEF RankOK, Held
<1> QED BY <1>8, <1>9, <1>11, <1>12, <1>14, <1>15, <1>16, <1>17 DEF Core, GhostOK

\* DqFree: the old dummy goes from the thread's hands to the free list.
LEMMA FreeCore ==
  ASSUME NEW kind, NEW holder, NEW place, NEW top, NEW deep, NEW rank, NEW clock,
         Core(kind, holder, place, top, deep, rank, clock),
         NEW t \in Threads, DqFree(t), NEW old, old = cHead[t].node,
         NEW kind2, kind2 = [kind EXCEPT ![old] = "free"]
  PROVE  /\ Core(kind2, holder, place, top, deep, rank, clock)'
         /\ kind[old] = "held" /\ old \in Nodes /\ holder[old] = t
<1>1. /\ TypeOK /\ GhostOK(kind, holder, place, top, deep, rank, clock)
      /\ KindOK(kind) /\ ListOK(kind, place, top) /\ OwnersOK(kind, holder, place, deep)
      /\ BehindOK(kind, holder, place, deep) /\ (\A u \in Threads : CopiesOK(u))
      /\ RankOK(kind, holder, rank, clock)
  BY DEF Core
<1>2. /\ pc[t] = "dqFree" /\ pc' \in [Threads -> Statements] /\ pc'[t] = "idle"
      /\ \A u \in Threads : u # t => pc'[u] = pc[u]
  BY <1>1, GotoFacts DEF DqFree, Return, Statements
<1>3. /\ UNCHANGED <<head, tail, next, data, size, heap, sent, got>>
      /\ free' = Append(free, old)
      /\ node' = [node EXCEPT ![t] = Null] /\ cHead' = [cHead EXCEPT ![t] = NoWord]
      /\ cTail' = [cTail EXCEPT ![t] = NoWord] /\ cNext' = [cNext EXCEPT ![t] = Null]
      /\ cData' = [cData EXCEPT ![t] = NoData]
  BY DEF DqFree, Return, queue, history
<1>4. /\ old \in Nodes /\ next[old] # Null
      /\ \A m \in Nodes : (kind[m] = "held" /\ holder[m] = t) <=> m = old
  BY <1>1, <1>2, OwnerFacts
<1>5. old \notin Range(free)
  BY <1>1, <1>4 DEF KindOK
<1>6. /\ free' \in Seq(Nodes) /\ IsInjective(free') /\ Range(free') = Range(free) \union {old}
  BY <1>1, <1>3, <1>4, <1>5, FreePush DEF TypeOK, KindOK
<1>7. TypeOK'
  BY <1>1, <1>2, <1>3, <1>6 DEF TypeOK, NoWord, Word, NodeOrNull, Data
<1>8. GhostOK(kind2, holder, place, top, deep, rank, clock)
  BY <1>1 DEF GhostOK
<1>9. /\ kind[old] = "held" /\ holder[old] = t /\ kind2[old] = "free"
      /\ \A m \in Nodes : m # old => kind2[m] = kind[m]
  BY <1>1, <1>4 DEF GhostOK
<1>10. KindOK(kind2)'
  BY <1>1, <1>3, <1>4, <1>6, <1>9 DEF KindOK
<1>11. /\ head.node \in Nodes /\ tail.node \in Nodes
       /\ \A m \in Nodes : next[m] # Null => next[m] \in Nodes
       /\ \A m \in Nodes : kind2[m] = "list" <=> kind[m] = "list"
  BY <1>1, <1>9 DEF TypeOK, NodeOrNull
<1>12. ListOK(kind2, place, top)'
  BY <1>1, <1>3, <1>11 DEF ListOK
<1>13. /\ \A m \in Nodes : kind2[m] = "held" <=> kind[m] = "held" /\ holder[m] # t
       /\ \A u \in Threads : u # t =>
            /\ node'[u] = node[u] /\ cHead'[u] = cHead[u] /\ cTail'[u] = cTail[u]
            /\ cNext'[u] = cNext[u] /\ cData'[u] = cData[u]
  BY <1>1, <1>3, <1>4, <1>9 DEF TypeOK
<1>14. OwnersOK(kind2, holder, place, deep)'
  <2>1. \A m \in Nodes : kind2[m] = "held" =>
          holder[m] \in Threads /\ pc'[holder[m]] \in Private \union {"dqFree"}
    BY <1>1, <1>2, <1>13 DEF OwnersOK
  <2>2. ASSUME NEW u \in Threads
        PROVE  /\ pc'[u] \in Private =>
                    node'[u] \in Nodes /\ Held(kind2, holder, node'[u], u)
                    /\ place[node'[u]] = 0
               /\ pc'[u] = "construct" =>
                    /\ \A m \in Nodes : Held(kind2, holder, m, u) => m = node'[u]
                    /\ deep[u] = 0
                    /\ next'[node'[u]] = Null =>
                         \A v \in Threads : pc'[v] \in TailRead => cTail'[v].node # node'[u]
               /\ pc'[u] = "dqFree" =>
                    /\ cHead'[u].node \in Nodes /\ next'[cHead'[u].node] # Null
                    /\ \A m \in Nodes : Held(kind2, holder, m, u) <=> m = cHead'[u].node
    <3>1. CASE u = t
      BY <1>2, <3>1 DEF Private
    <3>2. CASE u # t
      <4>1. /\ pc'[u] = pc[u]
            /\ \A v \in Threads : pc'[v] \in TailRead => pc[v] \in TailRead /\ v # t
        BY <1>2, <3>2 DEF TailRead
      <4>2. /\ pc[u] \in Private =>
                 node[u] \in Nodes /\ kind[node[u]] = "held" /\ holder[node[u]] = u
                 /\ place[node[u]] = 0
            /\ pc[u] = "construct" =>
                 /\ \A m \in Nodes : kind[m] = "held" /\ holder[m] = u => m = node[u]
                 /\ deep[u] = 0
                 /\ next[node[u]] = Null =>
                      \A v \in Threads : pc[v] \in TailRead => cTail[v].node # node[u]
            /\ pc[u] = "dqFree" =>
                 /\ cHead[u].node \in Nodes /\ next[cHead[u].node] # Null
                 /\ \A m \in Nodes : (kind[m] = "held" /\ holder[m] = u) <=> m = cHead[u].node
        BY <1>1, OwnerFacts
      <4>3. \A m \in Nodes : Held(kind2, holder, m, u) <=> (kind[m] = "held" /\ holder[m] = u)
        BY <1>13, <3>2 DEF Held
      <4>31. node'[u] = node[u] /\ cHead'[u] = cHead[u] /\ next' = next
        BY <1>3, <1>13, <3>2
      <4>32. \A v \in Threads : pc'[v] \in TailRead => cTail'[v] = cTail[v]
        BY <1>13, <4>1
      <4>4. pc'[u] \in Private =>
              node'[u] \in Nodes /\ Held(kind2, holder, node'[u], u) /\ place[node'[u]] = 0
        BY <1>13, <3>2, <4>1, <4>2, <4>3
      <4>5. pc'[u] = "construct" =>
              /\ \A m \in Nodes : Held(kind2, holder, m, u) => m = node'[u]
              /\ deep[u] = 0
              /\ next'[node'[u]] = Null =>
                   \A v \in Threads : pc'[v] \in TailRead => cTail'[v].node # node'[u]
        BY <4>1, <4>2, <4>3, <4>31, <4>32
      <4>6. pc'[u] = "dqFree" =>
              /\ cHead'[u].node \in Nodes /\ next'[cHead'[u].node] # Null
              /\ \A m \in Nodes : Held(kind2, holder, m, u) <=> m = cHead'[u].node
        BY <4>1, <4>2, <4>3, <4>31, <4>32
      <4> QED BY <4>4, <4>5, <4>6
    <3> QED BY <3>1, <3>2
  <2> QED BY <2>1, <2>2 DEF OwnersOK, Held
<1>15. BehindOK(kind2, holder, place, deep)'
  <2>1. \A m \in Nodes : kind2[m] = "held" /\ pc'[holder[m]] \in Built =>
          kind[m] = "held" /\ holder[m] \in Threads /\ holder[m] # t /\ pc[holder[m]] \in Built
    BY <1>1, <1>2, <1>13 DEF OwnersOK
  <2>2. ASSUME NEW m \in Nodes, kind2[m] = "held", pc'[holder[m]] \in Built
        PROVE  /\ place[m] <= deep[holder[m]]
               /\ next[m] = Null <=> place[m] = deep[holder[m]]
               /\ next[m] # Null => Held(kind2, holder, next[m], holder[m])
                                     /\ place[next[m]] = place[m] + 1
    <3>1. /\ place[m] <= deep[holder[m]]
          /\ next[m] = Null <=> place[m] = deep[holder[m]]
          /\ next[m] # Null => kind[next[m]] = "held" /\ holder[next[m]] = holder[m]
                               /\ place[next[m]] = place[m] + 1
      BY <1>1, <2>1, <2>2 DEF BehindOK, Held
    <3> QED BY <1>11, <1>13, <2>1, <2>2, <3>1 DEF Held
  <2>3. \A k, m \in Nodes :
          kind2[k] = "held" /\ kind2[m] = "held" /\ holder[k] = holder[m]
          /\ pc'[holder[m]] \in Built /\ place[k] = place[m] => k = m
    BY <1>1, <2>1 DEF BehindOK
  <2>4. ASSUME NEW u \in Threads, pc'[u] \in Built
        PROVE  \A k \in 0 .. deep[u] : \E m \in Nodes : Held(kind2, holder, m, u) /\ place[m] = k
    <3>1. u # t /\ pc[u] \in Built
      BY <1>2, <2>4 DEF Built
    <3>2. \A k \in 0 .. deep[u] :
            \E m \in Nodes : kind[m] = "held" /\ holder[m] = u /\ place[m] = k
      BY <1>1, <3>1 DEF BehindOK, Held
    <3> QED BY <1>13, <3>1, <3>2 DEF Held
  <2> QED BY <1>3, <2>2, <2>3, <2>4 DEF BehindOK, Held
<1>16. ASSUME NEW u \in Threads PROVE CopiesOK(u)'
  <2>1. CASE u = t
    BY <1>2, <2>1 DEF CopiesOK, TailRead, HeadRead
  <2>2. CASE u # t
    <3>1. Onward
      BY <1>3 DEF Onward
    <3>2. Unmoved(u)
      BY <1>2, <1>13, <2>2 DEF Unmoved
    <3> QED BY <1>1, <1>7, <3>1, <3>2, CopiesStay
  <2> QED BY <2>1, <2>2
<1>17. RankOK(kind2, holder, rank, clock)'
  <2>1. ASSUME NEW v \in Threads, NEW u \in Threads, pc'[v] \in {"tailNext", "link"},
               pc'[u] \in Private, Held(kind2, holder, cTail'[v].node, u)
        PROVE  rank[v] < rank[u]
    <3>1. v # t /\ u # t /\ pc[v] \in {"tailNext", "link"} /\ pc[u] \in Private
      BY <1>2, <2>1 DEF Private
    <3>2. cTail[v].node \in Nodes
      BY <1>1, <3>1 DEF CopiesOK, Copy, TailRead, TypeOK
    <3>3. Held(kind, holder, cTail[v].node, u)
      BY <1>13, <2>1, <3>1, <3>2 DEF Held
    <3> QED BY <1>1, <3>1, <3>3 DEF RankOK
  <2> QED BY <1>1, <2>1 DEF RankOK, Held
<1> QED BY <1>4, <1>7, <1>8, <1>9, <1>10, <1>12, <1>14, <1>15, <1>16, <1>17
        DEF Core, GhostOK

-----------------------------------------------------------------------------
(* What the nodes carry *)

Enqueuing == Private \union {"size", "swing"}

\* A node whose datum is on its way: in the list behind the dummy, or built
\* and not linked yet.
Live(kind, holder, n) ==
  \/ kind[n] = "list" /\ n # head.node
  \/ kind[n] = "held" /\ pc[holder[n]] \in Built

\* Every datum of an Enqueue call is in one place: taken out by Dequeue, on a
\* live node, or about to be written to one.
DataOK(kind, holder) ==
  /\ \A n \in Nodes : Live(kind, holder, n) => data[n] \in Sent /\ data[n] \notin Range(got)
  /\ \A m, n \in Nodes :
       Live(kind, holder, m) /\ Live(kind, holder, n) /\ data[m] = data[n] => m = n
  /\ IsInjective(got) /\ Range(got) \subseteq Sent
  /\ \A d \in Sent :
       \/ d \in Range(got)
       \/ \E n \in Nodes : Live(kind, holder, n) /\ data[n] = d
       \/ \E t \in Threads : pc[t] = "construct" /\ d = Datum(t, sent[t])
  /\ \A t \in Threads : pc[t] = "construct" =>
       /\ Datum(t, sent[t]) \notin Range(got)
       /\ \A n \in Nodes : Live(kind, holder, n) => data[n] # Datum(t, sent[t])
  /\ \A t \in Threads : pc[t] \in Enqueuing => t \in Producers /\ sent[t] >= 1
  /\ head.stamp = Len(got)

\* What the producers have sent when the counts of their calls are s.
SentBy(s) == {d \in Producers \X (1 .. MaxEnqueue) : d[2] <= s[d[1]]}

LEMMA SentIs ==
  ASSUME NEW s, \A p \in Producers : s[p] \in 0 .. MaxEnqueue
  PROVE  \A d : d \in SentBy(s) <=> \E p \in Producers : \E k \in 1 .. s[p] : d = Datum(p, k)
<1>1. MaxEnqueue \in Nat
  BY ConstantAssumption
<1>2. ASSUME NEW d, d \in SentBy(s)
      PROVE  \E p \in Producers : \E k \in 1 .. s[p] : d = Datum(p, k)
  <2>1. PICK p \in Producers, k \in 1 .. MaxEnqueue : d = <<p, k>>
    BY <1>2 DEF SentBy
  <2>2. k <= s[p]
    BY <1>2, <2>1 DEF SentBy
  <2>3. k \in 1 .. s[p]
    BY <1>1, <2>1, <2>2
  <2> QED BY <2>1, <2>3 DEF Datum
<1>3. ASSUME NEW p \in Producers, NEW k \in 1 .. s[p] PROVE Datum(p, k) \in SentBy(s)
  <2>1. k \in 1 .. MaxEnqueue /\ k <= s[p]
    BY <1>1
  <2> QED BY <2>1 DEF Datum, SentBy
<1> QED BY <1>2, <1>3

\* A step after which the same nodes are live and carry what they carried.
LEMMA DataSame ==
  ASSUME NEW kind, NEW holder, NEW kind2, NEW holder2, DataOK(kind, holder),
         UNCHANGED <<head, sent, got, data>>,
         \A n \in Nodes : Live(kind2, holder2, n)' <=> Live(kind, holder, n),
         \A u \in Threads : pc'[u] = "construct" <=> pc[u] = "construct",
         \A u \in Threads : pc'[u] \in Enqueuing => pc[u] \in Enqueuing
  PROVE  DataOK(kind2, holder2)'
<1>1. Sent' = Sent
  BY DEF Sent
<1> DEFINE L(n) == Live(kind, holder, n)
           M(n) == Live(kind2, holder2, n)'
<1>2. \A n \in Nodes : M(n) <=> L(n)
  OBVIOUS
<1>3. /\ \A n \in Nodes : L(n) => data[n] \in Sent /\ data[n] \notin Range(got)
      /\ \A m, n \in Nodes : L(m) /\ L(n) /\ data[m] = data[n] => m = n
      /\ IsInjective(got) /\ Range(got) \subseteq Sent
      /\ \A d \in Sent :
           \/ d \in Range(got)
           \/ \E n \in Nodes : L(n) /\ data[n] = d
           \/ \E t \in Threads : pc[t] = "construct" /\ d = Datum(t, sent[t])
      /\ \A t \in Threads : pc[t] = "construct" =>
           /\ Datum(t, sent[t]) \notin Range(got)
           /\ \A n \in Nodes : L(n) => data[n] # Datum(t, sent[t])
      /\ \A t \in Threads : pc[t] \in Enqueuing => t \in Producers /\ sent[t] >= 1
      /\ head.stamp = Len(got)
  BY DEF DataOK
<1> HIDE DEF L
<1>4. /\ \A n \in Nodes : M(n) => data'[n] \in Sent' /\ data'[n] \notin Range(got')
      /\ \A m, n \in Nodes : M(m) /\ M(n) /\ data'[m] = data'[n] => m = n
      /\ IsInjective(got') /\ Range(got') \subseteq Sent'
      /\ \A d \in Sent' :
           \/ d \in Range(got')
           \/ \E n \in Nodes : M(n) /\ data'[n] = d
           \/ \E t \in Threads : pc'[t] = "construct" /\ d = Datum(t, sent'[t])
      /\ \A t \in Threads : pc'[t] = "construct" =>
           /\ Datum(t, sent'[t]) \notin Range(got')
           /\ \A n \in Nodes : M(n) => data'[n] # Datum(t, sent'[t])
      /\ \A t \in Threads : pc'[t] \in Enqueuing => t \in Producers /\ sent'[t] >= 1
      /\ head'.stamp = Len(got')
  <2> HIDE DEF M
  <2> QED BY <1>1, <1>2, <1>3
<1> QED BY <1>4 DEF DataOK, Datum

LEMMA CalmData ==
  ASSUME NEW kind, NEW holder, NEW place, NEW top, NEW deep, NEW rank, NEW clock,
         Core(kind, holder, place, top, deep, rank, clock), DataOK(kind, holder),
         NEW t \in Threads, NEW to \in Statements, CalmStep(t, to)
  PROVE  DataOK(kind, holder)'
<1>1. /\ pc \in [Threads -> Statements]
      /\ \A n \in Nodes : kind[n] = "held" => holder[n] \in Threads
  BY DEF Core, TypeOK, OwnersOK
<1>2. /\ pc'[t] = to /\ \A u \in Threads : u # t => pc'[u] = pc[u]
      /\ UNCHANGED <<head, sent, got, data>>
      /\ to \in {"size", "swing"} => pc[t] = "size"
      /\ pc[t] \in Built <=> to \in Built
      /\ pc[t] # "construct" /\ to # "construct"
  BY <1>1 DEF CalmStep
<1>3. \A u \in Threads : /\ pc'[u] \in Built <=> pc[u] \in Built
                         /\ pc'[u] = "construct" <=> pc[u] = "construct"
                         /\ pc'[u] \in Enqueuing => pc[u] \in Enqueuing
  BY <1>2 DEF Enqueuing, Private, Built
<1>4. \A n \in Nodes : Live(kind, holder, n)' <=> Live(kind, holder, n)
  BY <1>1, <1>2, <1>3 DEF Live
<1> QED BY <1>2, <1>3, <1>4, DataSame

LEMMA LinkDataList ==
  ASSUME NEW kind, NEW holder, NEW place, NEW top, NEW deep, NEW rank, NEW clock,
         Core(kind, holder, place, top, deep, rank, clock), DataOK(kind, holder),
         NEW t \in Threads, LinkNode(t),
         NEW kind2, kind2 = [m \in Nodes |-> IF Held(kind, holder, m, t) THEN "list" ELSE kind[m]]
  PROVE  DataOK(kind2, holder)'
<1>1. /\ pc[t] = "link" /\ pc'[t] = "size"
      /\ \A u \in Threads : u # t => pc'[u] = pc[u]
      /\ UNCHANGED <<head, data, sent, got>>
  BY LinkQuiet DEF LinkNode, history
<1>2. /\ \A n \in Nodes : kind[n] = "held" => holder[n] \in Threads
      /\ kind[head.node] = "list"
  BY DEF Core, OwnersOK, ListOK
<1>3. \A n \in Nodes : Live(kind2, holder, n)' <=> Live(kind, holder, n)
  BY <1>1, <1>2 DEF Live, Held, Built
<1>4. \A u \in Threads : /\ pc'[u] = "construct" <=> pc[u] = "construct"
                         /\ pc'[u] \in Enqueuing => pc[u] \in Enqueuing
  BY <1>1 DEF Enqueuing, Private
<1> QED BY <1>1, <1>3, <1>4, DataSame

LEMMA LinkDataHeld ==
  ASSUME NEW kind, NEW holder, NEW place, NEW top, NEW deep, NEW rank, NEW clock,
         Core(kind, holder, place, top, deep, rank, clock), DataOK(kind, holder),
         NEW t \in Threads, LinkNode(t), kind[cTail[t].node] # "list",
         NEW h, h = holder[cTail[t].node],
         NEW holder2, holder2 = [m \in Nodes |-> IF Held(kind, holder, m, t) THEN h ELSE holder[m]]
  PROVE  DataOK(kind, holder2)'
<1>1. /\ pc[t] = "link" /\ pc'[t] = "size"
      /\ \A u \in Threads : u # t => pc'[u] = pc[u]
      /\ UNCHANGED <<head, data, sent, got>>
  BY LinkQuiet DEF LinkNode, history
<1>2. /\ \A n \in Nodes : kind[n] = "held" => holder[n] \in Threads
      /\ h \in Threads /\ h # t /\ pc[h] \in Built
  BY LinkTarget DEF Core, OwnersOK
<1>3. \A n \in Nodes : Live(kind, holder2, n)' <=> Live(kind, holder, n)
  BY <1>1, <1>2 DEF Live, Held, Built
<1>4. \A u \in Threads : /\ pc'[u] = "construct" <=> pc[u] = "construct"
                         /\ pc'[u] \in Enqueuing => pc[u] \in Enqueuing
  BY <1>1 DEF Enqueuing, Private
<1> QED BY <1>1, <1>3, <1>4, DataSame

LEMMA FreeData ==
  ASSUME NEW kind, NEW holder, NEW place, NEW top, NEW deep, NEW rank, NEW clock,
         Core(kind, holder, place, top, deep, rank, clock), DataOK(kind, holder),
         NEW t \in Threads, DqFree(t),
         NEW kind2, kind2 = [kind EXCEPT ![cHead[t].node] = "free"]
  PROVE  DataOK(kind2, holder)'
<1>1. /\ pc \in [Threads -> Statements] /\ kind \in [Nodes -> {"list", "held", "free", "new"}]
      /\ \A n \in Nodes : kind[n] = "held" => holder[n] \in Threads
  BY DEF Core, TypeOK, GhostOK, OwnersOK
<1>2. /\ pc[t] = "dqFree" /\ pc'[t] = "idle"
      /\ \A u \in Threads : u # t => pc'[u] = pc[u]
      /\ UNCHANGED <<head, data, sent, got>>
  BY <1>1 DEF DqFree, Return, Goto, queue, history
<1> DEFINE old == cHead[t].node
<1>3. old \in Nodes /\ kind[old] = "held" /\ holder[old] = t
  BY FreeCore
<1> HIDE DEF old
<1>4. kind2 = [kind EXCEPT ![old] = "free"]
  BY DEF old
<1>5. \A n \in Nodes : Live(kind2, holder, n)' <=> Live(kind, holder, n)
  BY <1>1, <1>2, <1>3, <1>4 DEF Live, Built
<1>6. \A u \in Threads : /\ pc'[u] = "construct" <=> pc[u] = "construct"
                         /\ pc'[u] \in Enqueuing => pc[u] \in Enqueuing
  BY <1>2 DEF Enqueuing, Private
<1> QED BY <1>2, <1>5, <1>6, DataSame

\* The parts of DataOK, for use one at a time.
LEMMA DataParts ==
  ASSUME NEW kind, NEW holder, DataOK(kind, holder)
  PROVE  /\ \A n \in Nodes : Live(kind, holder, n) => data[n] \in Sent /\ data[n] \notin Range(got)
         /\ \A m, n \in Nodes :
              Live(kind, holder, m) /\ Live(kind, holder, n) /\ data[m] = data[n] => m = n
         /\ IsInjective(got) /\ Range(got) \subseteq Sent
         /\ \A d \in Sent :
              \/ d \in Range(got)
              \/ \E n \in Nodes : Live(kind, holder, n) /\ data[n] = d
              \/ \E u \in Threads : pc[u] = "construct" /\ d = Datum(u, sent[u])
         /\ \A u \in Threads : pc[u] = "construct" =>
              /\ Datum(u, sent[u]) \notin Range(got)
              /\ \A n \in Nodes : Live(kind, holder, n) => data[n] # Datum(u, sent[u])
         /\ \A u \in Threads : pc[u] \in Enqueuing => u \in Producers /\ sent[u] >= 1
         /\ head.stamp = Len(got)
BY DEF DataOK

LEMMA AllocData ==
  ASSUME NEW kind, NEW holder, NEW place, NEW top, NEW deep, NEW rank, NEW clock,
         Core(kind, holder, place, top, deep, rank, clock), DataOK(kind, holder), TypeOK',
         NEW t \in Threads, Alloc(t), NEW n \in Nodes, kind[n] \in {"free", "new"},
         NEW kind2, kind2 = [kind EXCEPT ![n] = "held"],
         NEW holder2, holder2 = [holder EXCEPT ![n] = t]
  PROVE  DataOK(kind2, holder2)'
<1>1. /\ TypeOK /\ pc \in [Threads -> Statements] /\ holder \in [Nodes -> Threads \union {Null}]
      /\ kind \in [Nodes -> {"list", "held", "free", "new"}]
      /\ \A m \in Nodes : kind[m] = "held" => holder[m] \in Threads
      /\ \A u \in Threads : sent[u] \in Nat /\ sent[u] \in 0 .. MaxEnqueue
      /\ \A u \in Threads : sent'[u] \in 0 .. MaxEnqueue
  <2>1. TypeOK /\ MaxEnqueue \in Nat
    BY ConstantAssumption DEF Core
  <2>2. \A u \in Threads : sent[u] \in Nat /\ sent[u] \in 0 .. MaxEnqueue
    BY <2>1 DEF TypeOK
  <2>3. \A u \in Threads : sent'[u] \in 0 .. MaxEnqueue
    BY DEF TypeOK
  <2> QED BY <2>1, <2>2, <2>3 DEF Core, TypeOK, GhostOK, OwnersOK
<1>2. /\ t \in Producers /\ pc[t] = "idle" /\ pc'[t] = "construct"
      /\ \A u \in Threads : u # t => pc'[u] = pc[u]
      /\ UNCHANGED <<head, data, got>>
      /\ sent'[t] = sent[t] + 1 /\ \A u \in Threads : u # t => sent'[u] = sent[u]
  BY <1>1 DEF Alloc, Goto, queue, TypeOK
<1> DEFINE d0 == Datum(t, sent[t] + 1)
<1>3. /\ d0 \notin Sent /\ \A d : d \in Sent' <=> d \in Sent \/ d = d0
  <2>1. \A d : d \in Sent <=> \E p \in Producers : \E k \in 1 .. sent[p] : d = Datum(p, k)
    <3>1. \A p \in Producers : sent[p] \in 0 .. MaxEnqueue
      BY <1>1 DEF Threads
    <3>2. Sent = SentBy(sent)
      BY DEF Sent, SentBy
    <3> QED BY <3>1, <3>2, SentIs
  <2>2. \A d : d \in Sent' <=> \E p \in Producers : \E k \in 1 .. sent'[p] : d = Datum(p, k)
    <3>1. \A p \in Producers : sent'[p] \in 0 .. MaxEnqueue
      BY <1>1 DEF Threads
    <3>2. Sent' = SentBy(sent')
      BY DEF Sent, SentBy
    <3> QED BY <3>1, <3>2, SentIs
  <2>3. d0 \notin Sent
    BY <1>1, <1>2, <2>1 DEF Datum
  <2>4. \A k : k \in 1 .. sent'[t] <=> k \in 1 .. sent[t] \/ k = sent[t] + 1
    BY <1>1, <1>2
  <2>5. \A p \in Producers : p \in Threads
    BY DEF Threads
  <2> HIDE DEF d0
  <2>6. ASSUME NEW d, d \in Sent' PROVE d \in Sent \/ d = d0
    <3>1. PICK p \in Producers : \E k \in 1 .. sent'[p] : d = Datum(p, k)
      BY <2>2, <2>6
    <3>2. CASE p = t
      BY <1>2, <2>1, <2>4, <3>1, <3>2 DEF d0
    <3>3. CASE p # t
      BY <1>2, <2>1, <2>5, <3>1, <3>3
    <3> QED BY <3>2, <3>3
  <2>7. ASSUME NEW d, d \in Sent PROVE d \in Sent'
    <3>1. PICK p \in Producers : \E k \in 1 .. sent[p] : d = Datum(p, k)
      BY <2>1, <2>7
    <3>2. CASE p = t
      BY <1>2, <2>2, <2>4, <3>1, <3>2
    <3>3. CASE p # t
      BY <1>2, <2>2, <2>5, <3>1, <3>3
    <3> QED BY <3>2, <3>3
  <2>8. d0 \in Sent'
    BY <1>2, <2>2, <2>4 DEF d0
  <2> QED BY <2>3, <2>6, <2>7, <2>8
<1>4. \A m \in Nodes : Live(kind2, holder2, m)' <=> Live(kind, holder, m)
  <2>1. \A m \in Nodes : m # n => kind2[m] = kind[m] /\ holder2[m] = holder[m]
    BY <1>1
  <2>2. kind2[n] = "held" /\ holder2[n] = t /\ kind[n] # "list" /\ kind[n] # "held"
    BY <1>1
  <2>3. \A m \in Nodes : m # n => (Live(kind2, holder2, m)' <=> Live(kind, holder, m))
    <3>1. \A u \in Threads : pc'[u] \in Built <=> pc[u] \in Built
      BY <1>2 DEF Built
    <3> QED BY <1>1, <1>2, <2>1, <3>1 DEF Live
  <2>4. ~Live(kind2, holder2, n)' /\ ~Live(kind, holder, n)
    BY <1>2, <2>2 DEF Live, Built
  <2> QED BY <2>3, <2>4
<1> DEFINE L(m) == Live(kind, holder, m)
           M(m) == Live(kind2, holder2, m)'
<1>5. /\ \A m \in Nodes : L(m) => data[m] \in Sent /\ data[m] \notin Range(got)
      /\ \A k, m \in Nodes : L(k) /\ L(m) /\ data[k] = data[m] => k = m
      /\ IsInjective(got) /\ Range(got) \subseteq Sent
      /\ \A d \in Sent :
           \/ d \in Range(got)
           \/ \E m \in Nodes : L(m) /\ data[m] = d
           \/ \E u \in Threads : pc[u] = "construct" /\ d = Datum(u, sent[u])
      /\ \A u \in Threads : pc[u] = "construct" =>
           /\ Datum(u, sent[u]) \notin Range(got)
           /\ \A m \in Nodes : L(m) => data[m] # Datum(u, sent[u])
      /\ \A u \in Threads : pc[u] \in Enqueuing => u \in Producers /\ sent[u] >= 1
      /\ head.stamp = Len(got)
  BY DataParts
<1>6. \A m \in Nodes : M(m) <=> L(m)
  BY <1>4
<1>7. Datum(t, sent'[t]) = d0
  BY <1>2
<1> HIDE DEF L, M, d0
<1>8. \A m \in Nodes : M(m) => data'[m] \in Sent' /\ data'[m] \notin Range(got')
  BY <1>2, <1>3, <1>5, <1>6
<1>9. \A k, m \in Nodes : M(k) /\ M(m) /\ data'[k] = data'[m] => k = m
  BY <1>2, <1>5, <1>6
<1>10. IsInjective(got') /\ Range(got') \subseteq Sent'
  BY <1>2, <1>3, <1>5
<1>11. ASSUME NEW d \in Sent'
       PROVE  \/ d \in Range(got')
              \/ \E m \in Nodes : M(m) /\ data'[m] = d
              \/ \E u \in Threads : pc'[u] = "construct" /\ d = Datum(u, sent'[u])
  <2>1. CASE d = d0
    BY <1>2, <1>7, <2>1
  <2>2. CASE d \in Sent
    <3>1. \A u \in Threads : pc[u] = "construct" => pc'[u] = "construct" /\ sent'[u] = sent[u]
      BY <1>2
    <3> QED BY <1>2, <1>5, <1>6, <2>2, <3>1
  <2> QED BY <1>3, <2>1, <2>2
<1>12. ASSUME NEW u \in Threads, pc'[u] = "construct"
       PROVE  /\ Datum(u, sent'[u]) \notin Range(got')
              /\ \A m \in Nodes : M(m) => data'[m] # Datum(u, sent'[u])
  <2>1. CASE u = t
    BY <1>2, <1>3, <1>5, <1>6, <1>7, <2>1
  <2>2. CASE u # t
    BY <1>2, <1>5, <1>6, <1>12, <2>2
  <2> QED BY <2>1, <2>2
<1>13. \A u \in Threads : pc'[u] \in Enqueuing => u \in Producers /\ sent'[u] >= 1
  BY <1>1, <1>2, <1>5
<1>14. head'.stamp = Len(got')
  BY <1>2, <1>5
<1> QED BY <1>8, <1>9, <1>10, <1>11, <1>12, <1>13, <1>14 DEF DataOK, M, Datum

LEMMA ConstructData ==
  ASSUME NEW kind, NEW holder, NEW place, NEW top, NEW deep, NEW rank, NEW clock,
         Core(kind, holder, place, top, deep, rank, clock), DataOK(kind, holder),
         NEW t \in Threads, Construct(t), NEW n, n = node[t]
  PROVE  DataOK(kind, holder)'
<1> DEFINE d0 == Datum(t, sent[t])
<1>1. /\ TypeOK /\ OwnersOK(kind, holder, place, deep)
      /\ \A m \in Nodes : kind[m] = "held" => holder[m] \in Threads
      /\ \A u \in Threads : sent[u] \in 0 .. MaxEnqueue /\ MaxEnqueue \in Nat
  BY ConstantAssumption DEF Core, TypeOK, OwnersOK
<1>2. /\ pc[t] = "construct" /\ pc'[t] = "tail"
      /\ \A u \in Threads : u # t => pc'[u] = pc[u]
      /\ UNCHANGED <<head, sent, got>>
      /\ data' = [data EXCEPT ![n] = d0]
  BY <1>1 DEF Construct, Goto, history, TypeOK
<1>3. /\ n \in Nodes /\ kind[n] = "held" /\ holder[n] = t
      /\ \A m \in Nodes : kind[m] = "held" /\ holder[m] = t => m = n
  BY <1>1, <1>2, OwnerFacts DEF Private
<1> DEFINE L(m) == Live(kind, holder, m)
           M(m) == Live(kind, holder, m)'
<1>4. /\ \A m \in Nodes : L(m) => data[m] \in Sent /\ data[m] \notin Range(got)
      /\ \A k, m \in Nodes : L(k) /\ L(m) /\ data[k] = data[m] => k = m
      /\ IsInjective(got) /\ Range(got) \subseteq Sent
      /\ \A d \in Sent :
           \/ d \in Range(got)
           \/ \E m \in Nodes : L(m) /\ data[m] = d
           \/ \E u \in Threads : pc[u] = "construct" /\ d = Datum(u, sent[u])
      /\ \A u \in Threads : pc[u] = "construct" =>
           /\ Datum(u, sent[u]) \notin Range(got)
           /\ \A m \in Nodes : L(m) => data[m] # Datum(u, sent[u])
      /\ \A u \in Threads : pc[u] \in Enqueuing => u \in Producers /\ sent[u] >= 1
      /\ head.stamp = Len(got)
  BY DataParts
<1> HIDE DEF d0
<1>5. /\ M(n) /\ ~L(n)
      /\ \A m \in Nodes : m # n => (M(m) <=> L(m))
  <2>1. M(n) /\ ~L(n)
    BY <1>2, <1>3 DEF Live, Built
  <2>2. ASSUME NEW m \in Nodes, m # n PROVE M(m) <=> L(m)
    <3>1. kind[m] = "held" => holder[m] # t /\ pc'[holder[m]] = pc[holder[m]]
      BY <1>1, <1>2, <1>3, <2>2
    <3> QED BY <1>2, <3>1 DEF Live
  <2> QED BY <2>1, <2>2
<1>6. data'[n] = d0 /\ \A m \in Nodes : m # n => data'[m] = data[m]
  BY <1>1, <1>2, <1>3 DEF TypeOK
<1>7. Sent' = Sent
  BY <1>2 DEF Sent
<1>8. t \in Producers /\ sent[t] >= 1 /\ pc[t] \in Enqueuing
  BY <1>2, <1>4 DEF Enqueuing, Private
<1>9. d0 \in Sent
  <2>1. \A p \in Producers : sent[p] \in 0 .. MaxEnqueue
    BY <1>1 DEF Threads
  <2>2. Sent = SentBy(sent)
    BY DEF Sent, SentBy
  <2>3. sent[t] \in 1 .. sent[t]
    BY <1>1, <1>8
  <2> QED BY <1>8, <2>1, <2>2, <2>3, SentIs DEF d0
<1>10. \A u \in Threads : \A v \in Threads : Datum(u, sent[u]) = Datum(v, sent[v]) => u = v
  BY DEF Datum
<1> HIDE DEF L, M
<1>11. \A m \in Nodes : M(m) => data'[m] \in Sent' /\ data'[m] \notin Range(got')
  <2>1. d0 \notin Range(got)
    BY <1>2, <1>4 DEF d0
  <2> QED BY <1>2, <1>4, <1>5, <1>6, <1>7, <1>9, <2>1
<1>12. \A k, m \in Nodes : M(k) /\ M(m) /\ data'[k] = data'[m] => k = m
  <2>1. \A m \in Nodes : L(m) => data[m] # d0
    BY <1>2, <1>4 DEF d0
  <2> QED BY <1>4, <1>5, <1>6, <2>1
<1>13. IsInjective(got') /\ Range(got') \subseteq Sent'
  BY <1>2, <1>4, <1>7
<1>14. ASSUME NEW d \in Sent'
       PROVE  \/ d \in Range(got')
              \/ \E m \in Nodes : M(m) /\ data'[m] = d
              \/ \E u \in Threads : pc'[u] = "construct" /\ d = Datum(u, sent'[u])
  <2>1. CASE d \in Range(got)
    BY <1>2, <2>1
  <2>2. CASE \E m \in Nodes : L(m) /\ data[m] = d
    BY <1>5, <1>6, <2>2
  <2>3. CASE \E u \in Threads : pc[u] = "construct" /\ d = Datum(u, sent[u])
    <3>1. PICK u \in Threads : pc[u] = "construct" /\ d = Datum(u, sent[u])
      BY <2>3
    <3>2. CASE u = t
      BY <1>3, <1>5, <1>6, <3>1, <3>2 DEF d0
    <3>3. CASE u # t
      BY <1>2, <3>1, <3>3
    <3> QED BY <3>2, <3>3
  <2> QED BY <1>4, <1>7, <2>1, <2>2, <2>3
<1>15. ASSUME NEW u \in Threads, pc'[u] = "construct"
       PROVE  /\ Datum(u, sent'[u]) \notin Range(got')
              /\ \A m \in Nodes : M(m) => data'[m] # Datum(u, sent'[u])
  <2>1. u # t /\ pc[u] = "construct" /\ sent'[u] = sent[u]
    BY <1>2, <1>15
  <2>2. d0 # Datum(u, sent[u])
    BY <1>10, <2>1 DEF d0
  <2> QED BY <1>2, <1>4, <1>5, <1>6, <2>1, <2>2
<1>16. \A u \in Threads : pc'[u] \in Enqueuing => u \in Producers /\ sent'[u] >= 1
  BY <1>2, <1>4, <1>8
<1>17. head'.stamp = Len(got')
  BY <1>2, <1>4
<1> QED BY <1>11, <1>12, <1>13, <1>14, <1>15, <1>16, <1>17 DEF DataOK, M, Datum

\* What Append does to a history without repetition.
LEMMA AppendOnce ==
  ASSUME NEW S, NEW s \in Seq(S), IsInjective(s), NEW d \in S, d \notin Range(s)
  PROVE  /\ IsInjective(Append(s, d)) /\ Range(Append(s, d)) = Range(s) \union {d}
         /\ Len(Append(s, d)) = Len(s) + 1 /\ Len(s) \in Nat
         /\ DOMAIN s = 1 .. Len(s) /\ DOMAIN Append(s, d) = 1 .. Len(s) + 1
         /\ \A i \in 1 .. Len(s) : Append(s, d)[i] = s[i]
         /\ Append(s, d)[Len(s) + 1] = d
<1> DEFINE r == Append(s, d)
           len == Len(s)
<1>1. /\ len \in Nat /\ DOMAIN s = 1 .. len /\ Len(r) = len + 1
      /\ DOMAIN r = 1 .. len + 1
      /\ \A i \in 1 .. len : r[i] = s[i]
      /\ r[len + 1] = d
  BY AppendProperties, LenProperties
<1> HIDE DEF r, len
<1>2. 1 .. len + 1 = (1 .. len) \union {len + 1} /\ len + 1 \notin 1 .. len
  BY <1>1
<1>3. Range(r) = Range(s) \union {d}
  BY <1>1, <1>2 DEF Range
<1>4. \A i, j \in 1 .. len + 1 : r[i] = r[j] => i = j
  <2>1. \A i \in 1 .. len : r[i] = s[i] /\ r[i] # d
    BY <1>1 DEF Range
  <2>2. \A i, j \in 1 .. len : s[i] = s[j] => i = j
    BY <1>1 DEF IsInjective
  <2> QED BY <1>1, <1>2, <2>1, <2>2
<1>5. IsInjective(r)
  BY <1>1, <1>4 DEF IsInjective
<1> QED BY <1>1, <1>3, <1>5 DEF r, len

LEMMA MoveData ==
  ASSUME NEW kind, NEW holder, NEW place, NEW top, NEW deep, NEW rank, NEW clock,
         Core(kind, holder, place, top, deep, rank, clock), NoWrap, DataOK(kind, holder),
         NEW t \in Threads, DqMoveHead(t), NEW old, old = head.node,
         NEW n, n = next[old],
         NEW kind2, kind2 = [kind EXCEPT ![old] = "held"],
         NEW holder2, holder2 = [holder EXCEPT ![old] = t]
  PROVE  DataOK(kind2, holder2)'
<1> DEFINE d0 == data[n]
<1>1. /\ TypeOK /\ old \in Nodes
      /\ kind \in [Nodes -> {"list", "held", "free", "new"}]
      /\ holder \in [Nodes -> Threads \union {Null}]
      /\ \A m \in Nodes : kind[m] = "held" => holder[m] \in Threads
      /\ kind[old] = "list" /\ head.stamp \in Nat
  BY DEF Core, TypeOK, GhostOK, OwnersOK, ListOK
<1>2. /\ n \in Nodes /\ head' = Word(head.stamp + 1, n) /\ kind[n] = "list"
      /\ n # old /\ cData[t] = d0
  <2>1. /\ n \in Nodes /\ head' = Word(head.stamp + 1, n) /\ kind[n] = "list"
        /\ cData[t] = d0 /\ next[old] # Null
    BY MoveFacts, ConstantAssumption
  <2>2. place[old] = head.stamp /\ place[n] = head.stamp + 1
    BY MoveFacts DEF Core, ListOK
  <2> QED BY <1>1, <2>1, <2>2
<1>3. /\ pc[t] = "dqCas" /\ pc'[t] = "dqFree"
      /\ \A u \in Threads : u # t => pc'[u] = pc[u]
      /\ UNCHANGED <<data, sent>> /\ got' = Append(got, d0)
  BY <1>1, <1>2 DEF DqMoveHead, Goto, TypeOK
<1> DEFINE L(m) == Live(kind, holder, m)
           M(m) == Live(kind2, holder2, m)'
<1>4. /\ \A m \in Nodes : L(m) => data[m] \in Sent /\ data[m] \notin Range(got)
      /\ \A k, m \in Nodes : L(k) /\ L(m) /\ data[k] = data[m] => k = m
      /\ IsInjective(got) /\ Range(got) \subseteq Sent
      /\ \A d \in Sent :
           \/ d \in Range(got)
           \/ \E m \in Nodes : L(m) /\ data[m] = d
           \/ \E u \in Threads : pc[u] = "construct" /\ d = Datum(u, sent[u])
      /\ \A u \in Threads : pc[u] = "construct" =>
           /\ Datum(u, sent[u]) \notin Range(got)
           /\ \A m \in Nodes : L(m) => data[m] # Datum(u, sent[u])
      /\ \A u \in Threads : pc[u] \in Enqueuing => u \in Producers /\ sent[u] >= 1
      /\ head.stamp = Len(got)
  BY DataParts
<1>5. /\ L(n) /\ ~M(n)
      /\ \A m \in Nodes : m # n => (M(m) <=> L(m))
  <2>1. head'.node = n
    BY <1>2 DEF Word
  <2>2. /\ kind2[old] = "held" /\ holder2[old] = t
        /\ \A m \in Nodes : m # old => kind2[m] = kind[m] /\ holder2[m] = holder[m]
    BY <1>1
  <2>3. L(n) /\ ~M(n)
    BY <1>2, <2>1, <2>2 DEF Live
  <2>4. ~L(old) /\ ~M(old)
    BY <1>1, <1>3, <2>1, <2>2 DEF Live, Built
  <2>5. ASSUME NEW m \in Nodes, m # n, m # old PROVE M(m) <=> L(m)
    <3>1. kind[m] = "held" => (pc'[holder[m]] \in Built <=> pc[holder[m]] \in Built)
      BY <1>1, <1>3 DEF Built
    <3> QED BY <2>1, <2>2, <2>5, <3>1 DEF Live
  <2> QED BY <2>3, <2>4, <2>5
<1>6. d0 \in Sent /\ d0 \notin Range(got) /\ d0 \in Data
  BY <1>1, <1>2, <1>4, <1>5 DEF TypeOK
<1>7. /\ IsInjective(got') /\ Range(got') = Range(got) \union {d0}
      /\ Len(got') = Len(got) + 1
  BY <1>1, <1>3, <1>4, <1>6, AppendOnce DEF TypeOK
<1>8. Sent' = Sent /\ UNCHANGED <<data, sent>>
  BY <1>3 DEF Sent
<1>9. \A m \in Nodes : L(m) /\ m # n => data[m] # d0
  BY <1>2, <1>4, <1>5
<1> HIDE DEF L, M
<1>10. \A m \in Nodes : M(m) => data'[m] \in Sent' /\ data'[m] \notin Range(got')
  BY <1>4, <1>5, <1>7, <1>8, <1>9
<1>11. \A k, m \in Nodes : M(k) /\ M(m) /\ data'[k] = data'[m] => k = m
  BY <1>4, <1>5, <1>8
<1>12. IsInjective(got') /\ Range(got') \subseteq Sent'
  BY <1>4, <1>6, <1>7, <1>8
<1>13. ASSUME NEW d \in Sent'
       PROVE  \/ d \in Range(got')
              \/ \E m \in Nodes : M(m) /\ data'[m] = d
              \/ \E u \in Threads : pc'[u] = "construct" /\ d = Datum(u, sent'[u])
  <2>1. CASE d \in Range(got)
    BY <1>7, <2>1
  <2>2. CASE \E m \in Nodes : L(m) /\ data[m] = d
    <3>1. PICK m \in Nodes : L(m) /\ data[m] = d
      BY <2>2
    <3>2. CASE m = n
      BY <1>7, <3>1, <3>2
    <3>3. CASE m # n
      BY <1>5, <1>8, <3>1, <3>3
    <3> QED BY <3>2, <3>3
  <2>3. CASE \E u \in Threads : pc[u] = "construct" /\ d = Datum(u, sent[u])
    <3>1. PICK u \in Threads : pc[u] = "construct" /\ d = Datum(u, sent[u])
      BY <2>3
    <3>2. pc'[u] = "construct" /\ sent'[u] = sent[u]
      BY <1>3, <3>1
    <3> QED BY <3>1, <3>2
  <2> QED BY <1>4, <1>8, <2>1, <2>2, <2>3
<1>14. ASSUME NEW u \in Threads, pc'[u] = "construct"
       PROVE  /\ Datum(u, sent'[u]) \notin Range(got')
              /\ \A m \in Nodes : M(m) => data'[m] # Datum(u, sent'[u])
  <2>1. u # t /\ pc[u] = "construct" /\ sent'[u] = sent[u]
    BY <1>3, <1>14
  <2>2. d0 # Datum(u, sent[u])
    BY <1>2, <1>4, <1>5, <2>1
  <2> QED BY <1>4, <1>5, <1>7, <1>8, <2>1, <2>2
<1>15. \A u \in Threads : pc'[u] \in Enqueuing => u \in Producers /\ sent'[u] >= 1
  BY <1>3, <1>4 DEF Enqueuing, Private
<1>16. head'.stamp = Len(got')
  BY <1>1, <1>2, <1>4, <1>7 DEF Word
<1> QED BY <1>10, <1>11, <1>12, <1>13, <1>14, <1>15, <1>16 DEF DataOK, M, Datum

-----------------------------------------------------------------------------
(* What size counts *)

\* The statements between the compare-exchange and the count of Enqueue, and
\* between the count and the compare-exchange of Dequeue.
Counted == {"size", "unreserve", "dqHead", "dqTail", "dqTailNext", "dqSwing",
            "dqNext", "dqData", "dqCas"}

Counting == {t \in Threads : pc[t] \in Counted}

\* The nodes that have been linked behind another and are not the dummy.
Linked(kind, holder) ==
  {n \in Nodes :
     \/ kind[n] = "list" /\ n # head.node
     \/ kind[n] = "held" /\ pc[holder[n]] \in Private /\ n # node[holder[n]]}

SizeOK(kind, holder) == size + Cardinality(Counting) = Cardinality(Linked(kind, holder))

LEMMA SetsFinite ==
  ASSUME NEW kind, NEW holder
  PROVE  /\ IsFiniteSet(Threads) /\ IsFiniteSet(Counting) /\ IsFiniteSet(Counting')
         /\ IsFiniteSet(Linked(kind, holder)) /\ IsFiniteSet(Linked(kind, holder)')
         /\ Cardinality(Counting) \in Nat /\ Cardinality(Counting') \in Nat
         /\ Cardinality(Linked(kind, holder)) \in Nat
         /\ Cardinality(Linked(kind, holder)') \in Nat
<1>1. IsFiniteSet(Threads) /\ IsFiniteSet(Nodes)
  BY ConstantAssumption, FS_Union DEF Threads
<1>2. /\ Counting \subseteq Threads /\ Counting' \subseteq Threads
      /\ Linked(kind, holder) \subseteq Nodes /\ Linked(kind, holder)' \subseteq Nodes
  BY DEF Counting, Linked
<1> QED BY <1>1, <1>2, FS_Subset, FS_CardinalityType

LEMMA OneMore ==
  ASSUME NEW S, NEW T, NEW x, IsFiniteSet(S), x \notin S, \A y : y \in T <=> y \in S \/ y = x
  PROVE  Cardinality(T) = Cardinality(S) + 1
<1>1. T = S \union {x}
  OBVIOUS
<1> QED BY <1>1, FS_AddElement

LEMMA OneLess ==
  ASSUME NEW S, NEW T, NEW x, IsFiniteSet(T), x \in S, \A y : y \in T <=> y \in S /\ y # x
  PROVE  Cardinality(T) = Cardinality(S) - 1
<1>1. S = T \union {x} /\ x \notin T
  OBVIOUS
<1>2. Cardinality(S) = Cardinality(T) + 1 /\ Cardinality(T) \in Nat
  BY <1>1, FS_AddElement, FS_CardinalityType
<1> QED BY <1>2

\* How many threads are between two counts, when one thread steps.
LEMMA CountingStep ==
  ASSUME NEW t \in Threads, \A u \in Threads : u # t => pc'[u] = pc[u]
  PROVE  /\ (pc'[t] \in Counted <=> pc[t] \in Counted) =>
              Cardinality(Counting') = Cardinality(Counting)
         /\ pc'[t] \in Counted /\ pc[t] \notin Counted =>
              Cardinality(Counting') = Cardinality(Counting) + 1
         /\ pc'[t] \notin Counted /\ pc[t] \in Counted =>
              Cardinality(Counting') = Cardinality(Counting) - 1
<1>1. IsFiniteSet(Counting) /\ IsFiniteSet(Counting')
  BY SetsFinite
<1>2. ASSUME pc'[t] \in Counted <=> pc[t] \in Counted
      PROVE  Cardinality(Counting') = Cardinality(Counting)
  <2>1. Counting' = Counting
    BY <1>2 DEF Counting
  <2> QED BY <2>1
<1>3. ASSUME pc'[t] \in Counted, pc[t] \notin Counted
      PROVE  Cardinality(Counting') = Cardinality(Counting) + 1
  <2>1. t \notin Counting /\ \A y : y \in Counting' <=> y \in Counting \/ y = t
    BY <1>3 DEF Counting
  <2> QED BY <1>1, <2>1, OneMore
<1>4. ASSUME pc'[t] \notin Counted, pc[t] \in Counted
      PROVE  Cardinality(Counting') = Cardinality(Counting) - 1
  <2>1. t \in Counting /\ \A y : y \in Counting' <=> y \in Counting /\ y # t
    BY <1>4 DEF Counting
  <2> QED BY <1>1, <2>1, OneLess
<1> QED BY <1>2, <1>3, <1>4

LEMMA CalmSize ==
  ASSUME NEW kind, NEW holder, NEW place, NEW top, NEW deep, NEW rank, NEW clock,
         Core(kind, holder, place, top, deep, rank, clock), SizeOK(kind, holder),
         NEW t \in Threads, Calm(t), NEW to \in Statements, CalmStep(t, to)
  PROVE  SizeOK(kind, holder)'
<1>1. /\ pc \in [Threads -> Statements] /\ size \in Int
      /\ \A n \in Nodes : kind[n] = "held" => holder[n] \in Threads
  BY DEF Core, TypeOK, OwnersOK
<1>2. /\ pc'[t] = to /\ \A u \in Threads : u # t => pc'[u] = pc[u] /\ node'[u] = node[u]
      /\ head' = head
      /\ pc[t] \in Built <=> to \in Built
      /\ pc[t] # "construct" /\ to # "construct"
      /\ to \in Built => node'[t] = node[t]
  BY <1>1 DEF CalmStep, Unmoved
<1>3. Linked(kind, holder)' = Linked(kind, holder)
  <2>1. \A n \in Nodes : kind[n] = "held" =>
          /\ pc'[holder[n]] \in Private <=> pc[holder[n]] \in Private
          /\ pc'[holder[n]] \in Private => node'[holder[n]] = node[holder[n]]
    BY <1>1, <1>2 DEF Private, Built
  <2> QED BY <1>2, <2>1 DEF Linked
<1>4. size' + Cardinality(Counting') = size + Cardinality(Counting)
  <2>1. Cardinality(Counting) \in Nat /\ Cardinality(Counting') \in Nat
    BY SetsFinite
  <2>2. CASE CountEnqueue(t) \/ Unreserve(t)
    <3>1. size' = size + 1 /\ pc[t] \in Counted /\ pc'[t] \notin Counted
      BY <1>1, <2>2 DEF CountEnqueue, Unreserve, Goto, Return, Counted
    <3>2. Cardinality(Counting') = Cardinality(Counting) - 1
      BY <1>2, <3>1, CountingStep
    <3> QED BY <1>1, <2>1, <3>1, <3>2
  <2>3. CASE Reserve(t)
    <3>1. size' = size - 1 /\ pc[t] \notin Counted /\ pc'[t] \in Counted
      BY <1>1, <2>3 DEF Reserve, Goto, Counted
    <3>2. Cardinality(Counting') = Cardinality(Counting) + 1
      BY <1>2, <3>1, CountingStep
    <3> QED BY <1>1, <2>1, <3>1, <3>2
  <2>4. CASE ReadTail(t) \/ ReadTailNext(t) \/ LinkFails(t) \/ HelpTail(t) \/ EnqueueReturn(t)
    <3>1. size' = size /\ pc[t] \notin Counted /\ pc'[t] \notin Counted
      BY <1>1, <2>4 DEF ReadTail, ReadTailNext, LinkFails, HelpTail, EnqueueReturn,
                        Goto, Again, Return, Counted, queue
    <3> QED BY <1>2, <3>1, CountingStep
  <2>5. CASE \/ DqReadHead(t) \/ DqReadTail(t) \/ DqTailNextNull(t) \/ DqTailNext(t)
             \/ DqSwingTail(t) \/ DqNextNull(t) \/ DqNext(t) \/ DqData(t) \/ DqCasFails(t)
    <3>1. size' = size /\ pc[t] \in Counted /\ pc'[t] \in Counted
      BY <1>1, <2>5 DEF DqReadHead, DqReadTail, DqTailNextNull, DqTailNext, DqSwingTail,
                        DqNextNull, DqNext, DqData, DqCasFails, Goto, Again, Counted, queue
    <3> QED BY <1>2, <3>1, CountingStep
  <2> QED BY <2>2, <2>3, <2>4, <2>5 DEF Calm
<1> QED BY <1>3, <1>4 DEF SizeOK

\* A step that leaves the links and the counts as they are.
LEMMA SizeSame ==
  ASSUME NEW kind, NEW holder, NEW kind2, NEW holder2, SizeOK(kind, holder), size' = size,
         NEW t \in Threads, \A u \in Threads : u # t => pc'[u] = pc[u],
         pc'[t] \in Counted <=> pc[t] \in Counted,
         Linked(kind2, holder2)' = Linked(kind, holder)
  PROVE  SizeOK(kind2, holder2)'
<1>1. Cardinality(Counting') = Cardinality(Counting)
  BY CountingStep
<1> QED BY <1>1 DEF SizeOK

LEMMA AllocSize ==
  ASSUME NEW kind, NEW holder, NEW place, NEW top, NEW deep, NEW rank, NEW clock,
         Core(kind, holder, place, top, deep, rank, clock), SizeOK(kind, holder),
         NEW t \in Threads, Alloc(t), NEW n \in Nodes, kind[n] \in {"free", "new"},
         node' = [node EXCEPT ![t] = n],
         NEW kind2, kind2 = [kind EXCEPT ![n] = "held"],
         NEW holder2, holder2 = [holder EXCEPT ![n] = t]
  PROVE  SizeOK(kind2, holder2)'
<1>1. /\ pc \in [Threads -> Statements] /\ node \in [Threads -> NodeOrNull]
      /\ holder \in [Nodes -> Threads \union {Null}]
      /\ kind \in [Nodes -> {"list", "held", "free", "new"}]
      /\ \A m \in Nodes : kind[m] = "held" =>
           holder[m] \in Threads /\ pc[holder[m]] \in Private \union {"dqFree"}
  BY DEF Core, TypeOK, GhostOK, OwnersOK
<1>2. /\ pc[t] = "idle" /\ pc'[t] = "construct"
      /\ \A u \in Threads : u # t => pc'[u] = pc[u] /\ node'[u] = node[u]
      /\ head' = head /\ size' = size /\ node'[t] = n
  BY <1>1 DEF Alloc, Goto, queue
<1>3. /\ kind2[n] = "held" /\ holder2[n] = t
      /\ \A m \in Nodes : m # n => kind2[m] = kind[m] /\ holder2[m] = holder[m]
  BY <1>1
<1>4. Linked(kind2, holder2)' = Linked(kind, holder)
  <2>1. n \notin Linked(kind2, holder2)' /\ n \notin Linked(kind, holder)
    BY <1>2, <1>3 DEF Linked
  <2>2. \A m \in Nodes : kind[m] = "held" => holder[m] # t
    BY <1>1, <1>2 DEF Private
  <2>3. \A m \in Nodes : m # n => (m \in Linked(kind2, holder2)' <=> m \in Linked(kind, holder))
    BY <1>1, <1>2, <1>3, <2>2 DEF Linked
  <2>4. \A m : (m \in Linked(kind2, holder2)' => m \in Nodes) /\ (m \in Linked(kind, holder) => m \in Nodes)
    BY DEF Linked
  <2>5. \A m : m \in Linked(kind2, holder2)' <=> m \in Linked(kind, holder)
    BY <2>1, <2>3, <2>4
  <2> QED BY <2>5
<1> QED BY <1>2, <1>4, SizeSame DEF Counted

LEMMA ConstructSize ==
  ASSUME NEW kind, NEW holder, NEW place, NEW top, NEW deep, NEW rank, NEW clock,
         Core(kind, holder, place, top, deep, rank, clock), SizeOK(kind, holder),
         NEW t \in Threads, Construct(t)
  PROVE  SizeOK(kind, holder)'
<1>1. /\ pc \in [Threads -> Statements]
      /\ \A m \in Nodes : kind[m] = "held" => holder[m] \in Threads
  BY DEF Core, TypeOK, OwnersOK
<1>2. /\ pc[t] = "construct" /\ pc'[t] = "tail"
      /\ \A u \in Threads : u # t => pc'[u] = pc[u]
      /\ head' = head /\ size' = size /\ node' = node
  BY <1>1 DEF Construct, Goto
<1>3. \A u \in Threads : pc'[u] \in Private <=> pc[u] \in Private
  BY <1>2 DEF Private
<1>4. Linked(kind, holder)' = Linked(kind, holder)
  BY <1>1, <1>2, <1>3 DEF Linked
<1> QED BY <1>2, <1>4, SizeSame DEF Counted

LEMMA FreeSize ==
  ASSUME NEW kind, NEW holder, NEW place, NEW top, NEW deep, NEW rank, NEW clock,
         Core(kind, holder, place, top, deep, rank, clock), SizeOK(kind, holder),
         NEW t \in Threads, DqFree(t), NEW old, old = cHead[t].node,
         NEW kind2, kind2 = [kind EXCEPT ![old] = "free"]
  PROVE  SizeOK(kind2, holder)'
<1>1. /\ pc \in [Threads -> Statements] /\ node \in [Threads -> NodeOrNull]
      /\ kind \in [Nodes -> {"list", "held", "free", "new"}]
      /\ \A m \in Nodes : kind[m] = "held" => holder[m] \in Threads
  BY DEF Core, TypeOK, GhostOK, OwnersOK
<1>2. /\ pc[t] = "dqFree" /\ pc'[t] = "idle"
      /\ \A u \in Threads : u # t => pc'[u] = pc[u] /\ node'[u] = node[u]
      /\ head' = head /\ size' = size
  BY <1>1 DEF DqFree, Return, Goto, queue
<1>3. old \in Nodes /\ kind[old] = "held" /\ holder[old] = t
  BY FreeCore
<1>4. kind2[old] = "free" /\ \A m \in Nodes : m # old => kind2[m] = kind[m]
  BY <1>1, <1>3
<1>5. Linked(kind2, holder)' = Linked(kind, holder)
  <2>1. old \notin Linked(kind2, holder)' /\ old \notin Linked(kind, holder)
    BY <1>2, <1>3, <1>4 DEF Linked, Private
  <2>2. \A u \in Threads : pc'[u] \in Private <=> pc[u] \in Private
    BY <1>2 DEF Private
  <2>3. \A m \in Nodes : m # old => (m \in Linked(kind2, holder)' <=> m \in Linked(kind, holder))
    <3>1. \A m \in Nodes : kind[m] = "held" /\ pc[holder[m]] \in Private =>
            node'[holder[m]] = node[holder[m]]
      BY <1>1, <1>2 DEF Private
    <3> QED BY <1>1, <1>2, <1>4, <2>2, <3>1 DEF Linked
  <2>4. \A m : (m \in Linked(kind2, holder)' => m \in Nodes) /\ (m \in Linked(kind, holder) => m \in Nodes)
    BY DEF Linked
  <2>5. \A m : m \in Linked(kind2, holder)' <=> m \in Linked(kind, holder)
    BY <2>1, <2>3, <2>4
  <2> QED BY <2>5
<1> QED BY <1>2, <1>5, SizeSame DEF Counted

LEMMA MoveSize ==
  ASSUME NEW kind, NEW holder, NEW place, NEW top, NEW deep, NEW rank, NEW clock,
         Core(kind, holder, place, top, deep, rank, clock), NoWrap, SizeOK(kind, holder),
         NEW t \in Threads, DqMoveHead(t), NEW old, old = head.node,
         NEW n, n = next[old],
         NEW kind2, kind2 = [kind EXCEPT ![old] = "held"],
         NEW holder2, holder2 = [holder EXCEPT ![old] = t]
  PROVE  SizeOK(kind2, holder2)'
<1>1. /\ pc \in [Threads -> Statements] /\ old \in Nodes /\ head.stamp \in Nat
      /\ kind \in [Nodes -> {"list", "held", "free", "new"}]
      /\ holder \in [Nodes -> Threads \union {Null}]
      /\ \A m \in Nodes : kind[m] = "held" => holder[m] \in Threads
      /\ kind[old] = "list" /\ place[old] = head.stamp
  BY DEF Core, TypeOK, GhostOK, OwnersOK, ListOK
<1>2. /\ pc[t] = "dqCas" /\ pc'[t] = "dqFree"
      /\ \A u \in Threads : u # t => pc'[u] = pc[u]
      /\ node' = node /\ size' = size
  BY <1>1 DEF DqMoveHead, Goto
<1>3. /\ n \in Nodes /\ kind[n] = "list" /\ n # old /\ head'.node = n
  BY <1>1, MoveFacts DEF Word
<1>4. /\ kind2[old] = "held" /\ holder2[old] = t
      /\ \A m \in Nodes : m # old => kind2[m] = kind[m] /\ holder2[m] = holder[m]
  BY <1>1
<1>5. /\ n \in Linked(kind, holder)
      /\ \A m : m \in Linked(kind2, holder2)' <=> m \in Linked(kind, holder) /\ m # n
  <2>1. n \in Linked(kind, holder) /\ n \notin Linked(kind2, holder2)'
    BY <1>3, <1>4 DEF Linked
  <2>2. old \notin Linked(kind2, holder2)' /\ old \notin Linked(kind, holder)
    BY <1>1, <1>2, <1>3, <1>4 DEF Linked, Private
  <2>3. \A u \in Threads : pc'[u] \in Private <=> pc[u] \in Private
    BY <1>2 DEF Private
  <2>4. \A m \in Nodes : m # n /\ m # old =>
          (m \in Linked(kind2, holder2)' <=> m \in Linked(kind, holder))
    BY <1>1, <1>2, <1>3, <1>4, <2>3 DEF Linked
  <2>5. Linked(kind2, holder2)' \subseteq Nodes /\ Linked(kind, holder) \subseteq Nodes
    BY DEF Linked
  <2> QED BY <2>1, <2>2, <2>4, <2>5
<1>6. Cardinality(Linked(kind2, holder2)') = Cardinality(Linked(kind, holder)) - 1
  BY <1>5, OneLess, SetsFinite
<1>7. Cardinality(Counting') = Cardinality(Counting) - 1
  BY <1>2, CountingStep DEF Counted
<1>8. size \in Int /\ Cardinality(Counting) \in Nat /\ Cardinality(Linked(kind, holder)) \in Nat
  BY SetsFinite DEF Core, TypeOK
<1> QED BY <1>2, <1>6, <1>7, <1>8 DEF SizeOK

LEMMA LinkSizeList ==
  ASSUME NEW kind, NEW holder, NEW place, NEW top, NEW deep, NEW rank, NEW clock,
         Core(kind, holder, place, top, deep, rank, clock), SizeOK(kind, holder),
         NEW t \in Threads, LinkNode(t), NEW n, n = node[t],
         NEW kind2, kind2 = [m \in Nodes |-> IF Held(kind, holder, m, t) THEN "list" ELSE kind[m]]
  PROVE  SizeOK(kind2, holder)'
<1>1. /\ head.node \in Nodes /\ kind[head.node] = "list"
      /\ \A m \in Nodes : kind[m] = "held" => holder[m] \in Threads
  BY DEF Core, TypeOK, OwnersOK, ListOK
<1>2. /\ pc[t] = "link" /\ pc'[t] = "size"
      /\ \A u \in Threads : u # t => pc'[u] = pc[u]
      /\ node' = node /\ size' = size /\ head' = head
      /\ n \in Nodes /\ kind[n] = "held" /\ holder[n] = t
  BY LinkQuiet, LinkTarget
<1>3. \A m \in Nodes : /\ kind[m] = "held" /\ holder[m] = t => kind2[m] = "list"
                       /\ ~(kind[m] = "held" /\ holder[m] = t) => kind2[m] = kind[m]
  BY DEF Held
<1>4. /\ n \notin Linked(kind, holder)
      /\ \A m : m \in Linked(kind2, holder)' <=> m \in Linked(kind, holder) \/ m = n
  <2>1. n \notin Linked(kind, holder) /\ n \in Linked(kind2, holder)'
    BY <1>1, <1>2, <1>3 DEF Linked
  <2>2. ASSUME NEW m \in Nodes, m # n
        PROVE  m \in Linked(kind2, holder)' <=> m \in Linked(kind, holder)
    <3>1. CASE kind[m] = "held" /\ holder[m] = t
      BY <1>1, <1>2, <1>3, <2>2, <3>1 DEF Linked, Private
    <3>2. CASE ~(kind[m] = "held" /\ holder[m] = t)
      BY <1>1, <1>2, <1>3, <3>2 DEF Linked
    <3> QED BY <3>1, <3>2
  <2>3. Linked(kind2, holder)' \subseteq Nodes /\ Linked(kind, holder) \subseteq Nodes
    BY DEF Linked
  <2> QED BY <2>1, <2>2, <2>3
<1>5. Cardinality(Linked(kind2, holder)') = Cardinality(Linked(kind, holder)) + 1
  BY <1>4, OneMore, SetsFinite
<1>6. Cardinality(Counting') = Cardinality(Counting) + 1
  BY <1>2, CountingStep DEF Counted
<1>7. size \in Int /\ Cardinality(Counting) \in Nat /\ Cardinality(Linked(kind, holder)) \in Nat
  BY SetsFinite DEF Core, TypeOK
<1> QED BY <1>2, <1>5, <1>6, <1>7 DEF SizeOK

LEMMA LinkSizeHeld ==
  ASSUME NEW kind, NEW holder, NEW place, NEW top, NEW deep, NEW rank, NEW clock,
         Core(kind, holder, place, top, deep, rank, clock), SizeOK(kind, holder),
         NEW t \in Threads, LinkNode(t), NEW n, n = node[t], kind[cTail[t].node] # "list",
         NEW h, h = holder[cTail[t].node],
         NEW holder2, holder2 = [m \in Nodes |-> IF Held(kind, holder, m, t) THEN h ELSE holder[m]]
  PROVE  SizeOK(kind, holder2)'
<1>1. /\ \A m \in Nodes : kind[m] = "held" => holder[m] \in Threads
      /\ \A u \in Threads : pc[u] \in Private => kind[node[u]] = "held" /\ holder[node[u]] = u
  BY DEF Core, OwnersOK, Held
<1>2. /\ pc[t] = "link" /\ pc'[t] = "size"
      /\ \A u \in Threads : u # t => pc'[u] = pc[u]
      /\ node' = node /\ size' = size /\ head' = head
      /\ n \in Nodes /\ kind[n] = "held" /\ holder[n] = t
      /\ h \in Threads /\ h # t /\ pc[h] \in Private /\ pc'[h] \in Private
  <2>1. pc[h] \in Built /\ h \in Threads /\ h # t
    BY LinkTarget
  <2> QED BY <2>1, LinkQuiet, LinkTarget DEF Built, Private
<1>3. \A m \in Nodes : /\ kind[m] = "held" /\ holder[m] = t => holder2[m] = h
                       /\ ~(kind[m] = "held" /\ holder[m] = t) => holder2[m] = holder[m]
  BY DEF Held
<1>4. /\ n \notin Linked(kind, holder)
      /\ \A m : m \in Linked(kind, holder2)' <=> m \in Linked(kind, holder) \/ m = n
  <2>1. n \notin Linked(kind, holder) /\ n \in Linked(kind, holder2)'
    BY <1>1, <1>2, <1>3 DEF Linked
  <2>2. ASSUME NEW m \in Nodes, m # n
        PROVE  m \in Linked(kind, holder2)' <=> m \in Linked(kind, holder)
    <3>1. CASE kind[m] = "held" /\ holder[m] = t
      BY <1>1, <1>2, <1>3, <2>2, <3>1 DEF Linked, Private
    <3>2. CASE ~(kind[m] = "held" /\ holder[m] = t)
      BY <1>1, <1>2, <1>3, <3>2 DEF Linked
    <3> QED BY <3>1, <3>2
  <2>3. Linked(kind, holder2)' \subseteq Nodes /\ Linked(kind, holder) \subseteq Nodes
    BY DEF Linked
  <2> QED BY <2>1, <2>2, <2>3
<1>5. Cardinality(Linked(kind, holder2)') = Cardinality(Linked(kind, holder)) + 1
  BY <1>4, OneMore, SetsFinite
<1>6. Cardinality(Counting') = Cardinality(Counting) + 1
  BY <1>2, CountingStep DEF Counted
<1>7. size \in Int /\ Cardinality(Counting) \in Nat /\ Cardinality(Linked(kind, holder)) \in Nat
  BY SetsFinite DEF Core, TypeOK
<1> QED BY <1>2, <1>5, <1>6, <1>7 DEF SizeOK

-----------------------------------------------------------------------------
(* One producer *)

OnlyProducer(p) == \A q \in Producers : sent[q] > 0 => q = p

\* The k-th node ever linked carries the producer's k-th datum, and so does the
\* k-th datum dequeued.
InOrder(p, kind, holder, place, top) ==
  /\ \A n \in Nodes : kind[n] = "list" /\ n # head.node => data[n] = Datum(p, place[n])
  /\ \A i \in 1 .. Len(got) : got[i] = Datum(p, i)
  /\ pc[p] \in Private =>
       top = sent[p] - 1 /\ \A n \in Nodes : kind[n] = "held" /\ holder[n] = p => n = node[p]
  /\ pc[p] \in Built => data[node[p]] = Datum(p, sent[p])
  /\ pc[p] \notin Private => top = sent[p]

FifoOK(kind, holder, place, top) ==
  \A p \in Producers : OnlyProducer(p) => InOrder(p, kind, holder, place, top)

LEMMA CalmFifo ==
  ASSUME NEW kind, NEW holder, NEW place, NEW top, NEW deep, NEW rank, NEW clock,
         Core(kind, holder, place, top, deep, rank, clock), FifoOK(kind, holder, place, top),
         NEW t \in Threads, NEW to \in Statements, CalmStep(t, to)
  PROVE  FifoOK(kind, holder, place, top)'
<1>1. pc \in [Threads -> Statements]
  BY DEF Core, TypeOK
<1>2. /\ pc'[t] = to
      /\ \A u \in Threads : u # t => pc'[u] = pc[u] /\ node'[u] = node[u]
      /\ UNCHANGED <<head, sent, got, data>>
      /\ pc[t] \in Built <=> to \in Built
      /\ pc[t] # "construct" /\ to # "construct"
      /\ to \in Built => node'[t] = node[t]
  BY <1>1 DEF CalmStep, Unmoved
<1>3. \A u \in Threads : /\ pc'[u] \in Built <=> pc[u] \in Built
                         /\ pc'[u] \in Private <=> pc[u] \in Private
                         /\ pc'[u] \in Private => node'[u] = node[u]
                         /\ pc'[u] \in Built => pc'[u] \in Private
  BY <1>2 DEF Private, Built
<1>4. ASSUME NEW p \in Producers, OnlyProducer(p)'
      PROVE  InOrder(p, kind, holder, place, top)'
  <2>1. OnlyProducer(p) /\ p \in Threads
    BY <1>2, <1>4 DEF OnlyProducer, Threads
  <2>2. InOrder(p, kind, holder, place, top)
    BY <2>1 DEF FifoOK
  <2> QED BY <1>2, <1>3, <2>1, <2>2 DEF InOrder, Datum
<1> QED BY <1>4 DEF FifoOK, OnlyProducer, InOrder, Datum

LEMMA AllocFifo ==
  ASSUME NEW kind, NEW holder, NEW place, NEW top, NEW deep, NEW rank, NEW clock,
         Core(kind, holder, place, top, deep, rank, clock), FifoOK(kind, holder, place, top),
         NEW t \in Threads, Alloc(t), NEW n \in Nodes, kind[n] \in {"free", "new"},
         node' = [node EXCEPT ![t] = n],
         NEW kind2, kind2 = [kind EXCEPT ![n] = "held"],
         NEW holder2, holder2 = [holder EXCEPT ![n] = t],
         NEW place2, place2 = [place EXCEPT ![n] = 0]
  PROVE  FifoOK(kind2, holder2, place2, top)'
<1>1. /\ pc \in [Threads -> Statements] /\ node \in [Threads -> NodeOrNull]
      /\ holder \in [Nodes -> Threads \union {Null}] /\ place \in [Nodes -> Nat]
      /\ kind \in [Nodes -> {"list", "held", "free", "new"}]
      /\ \A m \in Nodes : kind[m] = "held" =>
           holder[m] \in Threads /\ pc[holder[m]] \in Private \union {"dqFree"}
      /\ sent \in [Threads -> 0 .. MaxEnqueue] /\ MaxEnqueue \in Nat
  BY ConstantAssumption DEF Core, TypeOK, GhostOK, OwnersOK
<1>2. /\ t \in Producers /\ pc[t] = "idle" /\ pc'[t] = "construct" /\ node'[t] = n
      /\ UNCHANGED <<head, data, got>>
      /\ sent'[t] = sent[t] + 1 /\ \A u \in Threads : u # t => sent'[u] = sent[u]
  BY <1>1 DEF Alloc, Goto, queue
<1>3. /\ kind2[n] = "held" /\ holder2[n] = t
      /\ \A m \in Nodes : m # n =>
           kind2[m] = kind[m] /\ holder2[m] = holder[m] /\ place2[m] = place[m]
  BY <1>1
<1>4. ASSUME NEW p \in Producers, OnlyProducer(p)'
      PROVE  InOrder(p, kind2, holder2, place2, top)'
  <2>1. \A q \in Producers : sent[q] \in Nat /\ q \in Threads
    BY <1>1 DEF Threads
  <2>2. p = t
    BY <1>2, <1>4, <2>1 DEF OnlyProducer
  <2>3. OnlyProducer(p)
    BY <1>2, <1>4, <2>1, <2>2 DEF OnlyProducer
  <2>4. InOrder(p, kind, holder, place, top)
    BY <2>3 DEF FifoOK
  <2>5. \A m \in Nodes : kind2[m] = "list" => kind[m] = "list" /\ place2[m] = place[m]
    BY <1>3
  <2>6. \A m \in Nodes : kind2[m] = "held" /\ holder2[m] = t => m = n
    BY <1>1, <1>2, <1>3 DEF Private
  <2>7. top = sent'[t] - 1
    BY <1>2, <2>1, <2>2, <2>4 DEF InOrder, Private
  <2> QED BY <1>2, <2>2, <2>4, <2>5, <2>6, <2>7 DEF InOrder, Private, Built, Datum
<1> QED BY <1>4 DEF FifoOK, OnlyProducer, InOrder, Datum

LEMMA ConstructFifo ==
  ASSUME NEW kind, NEW holder, NEW place, NEW top, NEW deep, NEW rank, NEW clock,
         Core(kind, holder, place, top, deep, rank, clock), FifoOK(kind, holder, place, top),
         DataOK(kind, holder),
         NEW t \in Threads, Construct(t), NEW n, n = node[t]
  PROVE  FifoOK(kind, holder, place, top)'
<1>1. /\ pc \in [Threads -> Statements] /\ OwnersOK(kind, holder, place, deep)
      /\ data \in [Nodes -> Data]
  BY DEF Core, TypeOK
<1>2. /\ pc[t] = "construct" /\ pc'[t] = "tail"
      /\ UNCHANGED <<head, got, sent, node>>
      /\ data' = [data EXCEPT ![n] = Datum(t, sent[t])]
  BY <1>1 DEF Construct, Goto, history
<1>3. n \in Nodes /\ kind[n] = "held" /\ holder[n] = t
  BY <1>1, <1>2, OwnerFacts DEF Private
<1>4. t \in Producers /\ sent[t] > 0
  <2>1. pc[t] \in Enqueuing
    BY <1>2 DEF Enqueuing, Private
  <2>2. t \in Producers /\ sent[t] >= 1
    BY <2>1, DataParts
  <2>3. sent[t] \in Nat
    BY ConstantAssumption DEF Core, TypeOK
  <2> QED BY <2>2, <2>3
<1>5. data'[n] = Datum(t, sent[t]) /\ \A m \in Nodes : m # n => data'[m] = data[m]
  BY <1>1, <1>2, <1>3
<1>6. ASSUME NEW p \in Producers, OnlyProducer(p)'
      PROVE  InOrder(p, kind, holder, place, top)'
  <2>1. p = t
    BY <1>2, <1>4, <1>6 DEF OnlyProducer
  <2>2. OnlyProducer(p)
    BY <1>2, <1>6 DEF OnlyProducer
  <2>3. InOrder(p, kind, holder, place, top)
    BY <2>2 DEF FifoOK
  <2>4. \A m \in Nodes : kind[m] = "list" => data'[m] = data[m]
    BY <1>3, <1>5
  <2> QED BY <1>2, <1>5, <2>1, <2>3, <2>4 DEF InOrder, Private, Built, Datum
<1> QED BY <1>6 DEF FifoOK, OnlyProducer, InOrder, Datum

LEMMA FreeFifo ==
  ASSUME NEW kind, NEW holder, NEW place, NEW top, NEW deep, NEW rank, NEW clock,
         Core(kind, holder, place, top, deep, rank, clock), FifoOK(kind, holder, place, top),
         NEW t \in Threads, DqFree(t), NEW old, old = cHead[t].node,
         NEW kind2, kind2 = [kind EXCEPT ![old] = "free"]
  PROVE  FifoOK(kind2, holder, place, top)'
<1>1. /\ pc \in [Threads -> Statements] /\ node \in [Threads -> NodeOrNull]
      /\ kind \in [Nodes -> {"list", "held", "free", "new"}]
  BY DEF Core, TypeOK, GhostOK
<1>2. /\ pc[t] = "dqFree" /\ pc'[t] = "idle"
      /\ \A u \in Threads : u # t => pc'[u] = pc[u] /\ node'[u] = node[u]
      /\ UNCHANGED <<head, got, sent, data>>
  BY <1>1 DEF DqFree, Return, Goto, queue, history
<1>3. \A u \in Threads : /\ pc'[u] \in Built <=> pc[u] \in Built
                         /\ pc'[u] \in Private <=> pc[u] \in Private
                         /\ pc'[u] \in Private => node'[u] = node[u]
                         /\ pc'[u] \in Built => pc'[u] \in Private
  BY <1>2 DEF Private, Built
<1>4. \A m \in Nodes : /\ kind2[m] = "list" => kind[m] = "list"
                       /\ kind2[m] = "held" => kind[m] = "held"
  BY <1>1
<1>5. ASSUME NEW p \in Producers, OnlyProducer(p)'
      PROVE  InOrder(p, kind2, holder, place, top)'
  <2>1. OnlyProducer(p) /\ p \in Threads
    BY <1>2, <1>5 DEF OnlyProducer, Threads
  <2>2. InOrder(p, kind, holder, place, top)
    BY <2>1 DEF FifoOK
  <2> QED BY <1>2, <1>3, <1>4, <2>1, <2>2 DEF InOrder, Datum
<1> QED BY <1>5 DEF FifoOK, OnlyProducer, InOrder, Datum

LEMMA MoveFifo ==
  ASSUME NEW kind, NEW holder, NEW place, NEW top, NEW deep, NEW rank, NEW clock,
         Core(kind, holder, place, top, deep, rank, clock), NoWrap,
         FifoOK(kind, holder, place, top), DataOK(kind, holder),
         NEW t \in Threads, DqMoveHead(t), NEW old, old = head.node,
         NEW n, n = next[old],
         NEW kind2, kind2 = [kind EXCEPT ![old] = "held"],
         NEW holder2, holder2 = [holder EXCEPT ![old] = t]
  PROVE  FifoOK(kind2, holder2, place, top)'
<1>1. /\ pc \in [Threads -> Statements] /\ old \in Nodes /\ head.stamp \in Nat
      /\ kind \in [Nodes -> {"list", "held", "free", "new"}]
      /\ holder \in [Nodes -> Threads \union {Null}]
      /\ kind[old] = "list" /\ place[old] = head.stamp /\ got \in Seq(Data)
      /\ data \in [Nodes -> Data]
  BY DEF Core, TypeOK, GhostOK, ListOK
<1>2. /\ pc[t] = "dqCas" /\ pc'[t] = "dqFree"
      /\ \A u \in Threads : u # t => pc'[u] = pc[u]
      /\ node' = node /\ sent' = sent /\ data' = data
      /\ got' = Append(got, cData[t])
  BY <1>1 DEF DqMoveHead, Goto
<1>3. /\ n \in Nodes /\ kind[n] = "list" /\ n # old /\ head'.node = n
      /\ place[n] = head.stamp + 1 /\ cData[t] = data[n]
  BY <1>1, MoveFacts DEF Word
<1>4. /\ kind2[old] = "held" /\ holder2[old] = t
      /\ \A m \in Nodes : m # old => kind2[m] = kind[m] /\ holder2[m] = holder[m]
  BY <1>1
<1>5. head.stamp = Len(got)
  BY DataParts
<1>6. /\ Len(got) \in Nat /\ Len(got') = Len(got) + 1
      /\ \A i \in 1 .. Len(got) : got'[i] = got[i]
      /\ got'[Len(got) + 1] = data[n]
  BY <1>1, <1>2, <1>3, AppendProperties, LenProperties
<1>7. \A u \in Threads : /\ pc'[u] \in Built <=> pc[u] \in Built
                         /\ pc'[u] \in Private <=> pc[u] \in Private
                         /\ pc'[u] \in Private => u # t
                         /\ pc'[u] \in Built => pc'[u] \in Private
  BY <1>2 DEF Private, Built
<1>8. ASSUME NEW p \in Producers, OnlyProducer(p)'
      PROVE  InOrder(p, kind2, holder2, place, top)'
  <2>1. OnlyProducer(p) /\ p \in Threads
    BY <1>2, <1>8 DEF OnlyProducer, Threads
  <2>2. InOrder(p, kind, holder, place, top)
    BY <2>1 DEF FifoOK
  <2>3. \A m \in Nodes : kind2[m] = "list" /\ m # head'.node => data'[m] = Datum(p, place[m])
    BY <1>2, <1>3, <1>4, <2>2 DEF InOrder
  <2>4. \A i \in 1 .. Len(got') : got'[i] = Datum(p, i)
    <3>1. data[n] = Datum(p, Len(got) + 1)
      BY <1>3, <1>5, <2>2 DEF InOrder
    <3>2. \A i \in 1 .. Len(got') : i \in 1 .. Len(got) \/ i = Len(got) + 1
      BY <1>6
    <3> QED BY <1>6, <2>2, <3>1, <3>2 DEF InOrder
  <2>5. pc'[p] \in Private =>
          top = sent'[p] - 1
          /\ \A m \in Nodes : kind2[m] = "held" /\ holder2[m] = p => m = node'[p]
    BY <1>2, <1>4, <1>7, <2>1, <2>2 DEF InOrder
  <2>6. /\ pc'[p] \in Built => data'[node'[p]] = Datum(p, sent'[p])
        /\ pc'[p] \notin Private => top = sent'[p]
    BY <1>2, <1>7, <2>1, <2>2 DEF InOrder
  <2> QED BY <2>3, <2>4, <2>5, <2>6 DEF InOrder, Datum
<1> QED BY <1>8 DEF FifoOK, OnlyProducer, InOrder, Datum

\* With one producer no node hangs behind an unlinked one.
LEMMA LinkAtEnd ==
  ASSUME NEW kind, NEW holder, NEW place, NEW top, NEW deep, NEW rank, NEW clock,
         Core(kind, holder, place, top, deep, rank, clock), DataOK(kind, holder),
         NEW t \in Threads, LinkNode(t), NEW p \in Producers, OnlyProducer(p)
  PROVE  p = t /\ kind[cTail[t].node] = "list"
<1>1. \A u \in Threads : pc[u] \in Private => u = p
  <2>1. \A u \in Threads : pc[u] \in Private => u \in Producers /\ sent[u] >= 1 /\ sent[u] \in Nat
    BY DataParts, ConstantAssumption DEF Enqueuing, Core, TypeOK
  <2> QED BY <2>1 DEF OnlyProducer
<1>2. pc[t] = "link"
  BY LinkQuiet
<1>3. p = t
  BY <1>1, <1>2 DEF Private
<1> QED BY <1>1, <1>3, LinkTarget DEF Built, Private

LEMMA LinkFifoList ==
  ASSUME NEW kind, NEW holder, NEW place, NEW top, NEW deep, NEW rank, NEW clock,
         Core(kind, holder, place, top, deep, rank, clock), DataOK(kind, holder),
         FifoOK(kind, holder, place, top),
         NEW t \in Threads, LinkNode(t), NEW n, n = node[t],
         NEW kind2, kind2 = [m \in Nodes |-> IF Held(kind, holder, m, t) THEN "list" ELSE kind[m]],
         NEW place2,
         place2 = [m \in Nodes |-> IF Held(kind, holder, m, t) THEN top + 1 + place[m] ELSE place[m]],
         NEW top2, top2 = top + 1 + deep[t]
  PROVE  FifoOK(kind2, holder, place2, top2)'
<1>1. /\ pc[t] = "link" /\ pc'[t] = "size"
      /\ UNCHANGED <<head, node, data, sent, got>>
      /\ n \in Nodes /\ kind[n] = "held" /\ holder[n] = t /\ place[n] = 0
  <2>1. pc[t] = "link" /\ pc'[t] = "size" /\ UNCHANGED <<head, node, data>>
    BY LinkQuiet
  <2>2. n \in Nodes /\ kind[n] = "held" /\ holder[n] = t /\ place[n] = 0
    BY LinkTarget
  <2>3. UNCHANGED <<sent, got>>
    BY DEF LinkNode, history
  <2> QED BY <2>1, <2>2, <2>3
<1>2. /\ top \in Nat /\ deep[t] \in Nat
      /\ \A k \in 0 .. deep[t] : \E m \in Nodes : kind[m] = "held" /\ holder[m] = t /\ place[m] = k
      /\ \A q \in Threads : sent[q] \in Nat
  <2>1. /\ TypeOK /\ GhostOK(kind, holder, place, top, deep, rank, clock)
        /\ BehindOK(kind, holder, place, deep) /\ MaxEnqueue \in Nat
    BY ConstantAssumption DEF Core
  <2>2. top \in Nat /\ deep[t] \in Nat
    BY <2>1 DEF GhostOK
  <2>3. \A k \in 0 .. deep[t] : \E m \in Nodes : kind[m] = "held" /\ holder[m] = t /\ place[m] = k
    BY <1>1, <2>1 DEF BehindOK, Built, Held
  <2>4. \A q \in Threads : sent[q] \in Nat
    BY <2>1 DEF TypeOK
  <2> QED BY <2>2, <2>3, <2>4
<1>3. \A m \in Nodes :
        /\ kind[m] = "held" /\ holder[m] = t => kind2[m] = "list" /\ place2[m] = top + 1 + place[m]
        /\ ~(kind[m] = "held" /\ holder[m] = t) => kind2[m] = kind[m] /\ place2[m] = place[m]
  BY DEF Held
<1>4. ASSUME NEW p \in Producers, OnlyProducer(p)'
      PROVE  InOrder(p, kind2, holder, place2, top2)'
  <2>1. OnlyProducer(p)
    BY <1>1, <1>4 DEF OnlyProducer
  <2>2. InOrder(p, kind, holder, place, top)
    BY <2>1 DEF FifoOK
  <2>3. p = t
    BY <2>1, LinkAtEnd
  <2>4. /\ top = sent[t] - 1
        /\ \A m \in Nodes : kind[m] = "held" /\ holder[m] = t => m = n
        /\ data[n] = Datum(t, sent[t])
    BY <1>1, <2>2, <2>3 DEF InOrder, Private, Built
  <2>5. deep[t] = 0
    <3>1. deep[t] \in 0 .. deep[t]
      BY <1>2
    <3>2. PICK m \in Nodes : kind[m] = "held" /\ holder[m] = t /\ place[m] = deep[t]
      BY <1>2, <3>1
    <3> QED BY <1>1, <2>4, <3>2
  <2>6. top2 = sent[t] /\ top + 1 + place[n] = sent[t]
    BY <1>1, <1>2, <2>4, <2>5
  <2>7. \A m \in Nodes : kind2[m] = "list" /\ m # head.node => data[m] = Datum(t, place2[m])
    <3>1. data[n] = Datum(t, place2[n])
      BY <1>1, <1>3, <2>4, <2>6
    <3> QED BY <1>3, <2>2, <2>3, <2>4, <3>1 DEF InOrder
  <2> QED BY <1>1, <2>2, <2>3, <2>6, <2>7 DEF InOrder, Private, Built, Datum
<1> QED BY <1>4 DEF FifoOK, OnlyProducer, InOrder, Datum

LEMMA LinkFifoHeld ==
  ASSUME NEW kind, NEW holder, NEW place, NEW top, NEW deep, NEW rank, NEW clock,
         Core(kind, holder, place, top, deep, rank, clock), DataOK(kind, holder),
         NEW t \in Threads, LinkNode(t), kind[cTail[t].node] # "list",
         NEW holder2, NEW place2
  PROVE  FifoOK(kind, holder2, place2, top)'
<1>1. sent' = sent
  BY DEF LinkNode, history
<1>2. \A p \in Producers : ~OnlyProducer(p)'
  BY <1>1, LinkAtEnd DEF OnlyProducer
<1> QED BY <1>2 DEF FifoOK, OnlyProducer

-----------------------------------------------------------------------------
(* The invariant *)

All(kind, holder, place, top, deep, rank, clock) ==
  /\ Core(kind, holder, place, top, deep, rank, clock)
  /\ DataOK(kind, holder)
  /\ SizeOK(kind, holder)
  /\ FifoOK(kind, holder, place, top)

IInv ==
  \E kind, holder, place, top, deep, rank, clock :
    All(kind, holder, place, top, deep, rank, clock)

LEMMA InitAll ==
  ASSUME Init
  PROVE  IInv
<1> DEFINE dummy == CHOOSE n \in Nodes : TRUE
           kind == [n \in Nodes |-> IF n = head.node THEN "list" ELSE "new"]
           holder == [n \in Nodes |-> Null]
           place == [n \in Nodes |-> 0]
           deep == [t \in Threads |-> 0]
           rank == [t \in Threads |-> 0]
<1>1. /\ head = Word(0, dummy) /\ tail = Word(0, dummy) /\ heap = {dummy}
      /\ next = [n \in Nodes |-> Null] /\ data = [n \in Nodes |-> NoData]
      /\ size = 0 /\ free = <<>> /\ pc = [t \in Threads |-> "idle"]
      /\ node = [t \in Threads |-> Null] /\ cHead = [t \in Threads |-> NoWord]
      /\ cTail = [t \in Threads |-> NoWord] /\ cNext = [t \in Threads |-> Null]
      /\ cData = [t \in Threads |-> NoData] /\ sent = [t \in Threads |-> 0] /\ got = <<>>
  BY DEF Init
<1>2. dummy \in Nodes /\ Null \notin Nodes /\ MaxEnqueue \in Nat
  BY ConstantAssumption
<1> HIDE DEF dummy
<1>3. /\ head.node = dummy /\ head.stamp = 0 /\ tail.node = dummy /\ tail.stamp = 0
      /\ head \in [stamp : Nat, node : Nodes] /\ tail \in [stamp : Nat, node : Nodes]
  BY <1>1, <1>2 DEF Word
<1>4. TypeOK
  <2>1. NoWord \in [stamp : Nat, node : NodeOrNull] /\ NoData \in Data /\ Null \in NodeOrNull
    BY DEF NoWord, Word, NodeOrNull, Data
  <2>2. free \in Seq(Nodes) /\ got \in Seq(Data)
    BY <1>1
  <2>3. 0 \in 0 .. MaxEnqueue
    BY <1>2
  <2> QED BY <1>1, <1>2, <1>3, <2>1, <2>2, <2>3 DEF TypeOK, Statements
<1>5. GhostOK(kind, holder, place, 0, deep, rank, 1)
  BY DEF GhostOK
<1>6. DOMAIN free = {} /\ DOMAIN got = {} /\ Range(free) = {} /\ Range(got) = {} /\ Len(got) = 0
  <2>1. DOMAIN free = {} /\ DOMAIN got = {} /\ Len(got) = 0
    BY <1>1
  <2> QED BY <2>1 DEF Range
<1>7. IsInjective(free) /\ IsInjective(got)
  BY <1>6 DEF IsInjective
<1>8. \A n \in Nodes : kind[n] = IF n = dummy THEN "list" ELSE "new"
  BY <1>3
<1>9. (\A n \in Nodes : place[n] = 0) /\ kind \in [Nodes -> {"list", "held", "free", "new"}]
  BY DEF GhostOK
<1> HIDE DEF kind, place, holder, deep, rank
<1>10. KindOK(kind)
  BY <1>1, <1>6, <1>7, <1>8 DEF KindOK
<1>11. ListOK(kind, place, 0)
  BY <1>1, <1>2, <1>3, <1>8, <1>9 DEF ListOK
<1>12. \A t \in Threads : pc[t] = "idle"
  BY <1>1
<1>13. OwnersOK(kind, holder, place, deep) /\ BehindOK(kind, holder, place, deep)
  BY <1>8, <1>12 DEF OwnersOK, BehindOK, Private, Built, Held
<1>14. (\A t \in Threads : CopiesOK(t)) /\ RankOK(kind, holder, rank, 1)
  BY <1>12 DEF CopiesOK, TailRead, HeadRead, RankOK, rank
<1>15. Core(kind, holder, place, 0, deep, rank, 1)
  BY <1>4, <1>5, <1>10, <1>11, <1>13, <1>14 DEF Core
<1>16. \A n \in Nodes : ~Live(kind, holder, n)
  BY <1>3, <1>8 DEF Live
<1>17. Sent = {}
  <2>1. \A p \in Producers : sent[p] = 0
    BY <1>1 DEF Threads
  <2>2. \A d \in Producers \X (1 .. MaxEnqueue) : ~(d[2] <= sent[d[1]])
    BY <1>2, <2>1
  <2> QED BY <2>2 DEF Sent
<1>18. DataOK(kind, holder)
  BY <1>3, <1>6, <1>7, <1>12, <1>16, <1>17 DEF DataOK, Enqueuing, Private
<1>19. SizeOK(kind, holder)
  <2>1. Counting = {} /\ Linked(kind, holder) = {}
    BY <1>3, <1>8, <1>12 DEF Counting, Counted, Linked
  <2> QED BY <1>1, <2>1, FS_EmptySet DEF SizeOK
<1>20. FifoOK(kind, holder, place, 0)
  <2>1. \A p \in Producers : pc[p] = "idle" /\ sent[p] = 0
    BY <1>1 DEF Threads
  <2> QED BY <1>3, <1>6, <1>8, <2>1 DEF FifoOK, InOrder, Private, Built
<1>21. All(kind, holder, place, 0, deep, rank, 1)
  BY <1>15, <1>18, <1>19, <1>20 DEF All
<1> QED BY <1>21 DEF IInv

LEMMA StutterAll ==
  ASSUME IInv, UNCHANGED vars
  PROVE  IInv'
<1>1. UNCHANGED <<head, tail, next, data, size, free, heap, pc, node, cHead, cTail, cNext,
                  cData, sent, got>>
  BY DEF vars, queue, pool, locals, history
<1>2. PICK kind, holder, place, top, deep, rank, clock :
        All(kind, holder, place, top, deep, rank, clock)
  BY DEF IInv
<1>3. Core(kind, holder, place, top, deep, rank, clock)'
  BY <1>1, <1>2 DEF All, Core, TypeOK, KindOK, ListOK, OwnersOK, BehindOK, CopiesOK, Copy,
                    RankOK, GhostOK, Held
<1>4. DataOK(kind, holder)' /\ SizeOK(kind, holder)'
  BY <1>1, <1>2 DEF All, DataOK, Live, Sent, SizeOK, Counting, Linked, Datum
<1>5. FifoOK(kind, holder, place, top)'
  BY <1>1, <1>2 DEF All, FifoOK, OnlyProducer, InOrder, Datum
<1>6. All(kind, holder, place, top, deep, rank, clock)'
  BY <1>3, <1>4, <1>5 DEF All
<1> QED BY <1>6 DEF IInv

LEMMA StepAll ==
  ASSUME IInv, NoWrap, NEW t \in Threads, Alloc(t) \/ Reserve(t) \/ Step(t)
  PROVE  IInv'
<1>1. PICK kind, holder, place, top, deep, rank, clock :
        All(kind, holder, place, top, deep, rank, clock)
  BY DEF IInv
<1>2. /\ Core(kind, holder, place, top, deep, rank, clock) /\ DataOK(kind, holder)
      /\ SizeOK(kind, holder) /\ FifoOK(kind, holder, place, top)
  BY <1>1 DEF All
<1>3. CASE Calm(t)
  <2>1. /\ \E to \in Statements : CalmStep(t, to)
        /\ Core(kind, holder, place, top, deep, rank, clock)'
    BY <1>2, <1>3, CalmKeeps
  <2>2. PICK to \in Statements : CalmStep(t, to)
    BY <2>1
  <2>3. DataOK(kind, holder)'
    BY <1>2, <2>2, CalmData
  <2>4. SizeOK(kind, holder)'
    BY <1>2, <1>3, <2>2, CalmSize
  <2>5. FifoOK(kind, holder, place, top)'
    BY <1>2, <2>2, CalmFifo
  <2>6. All(kind, holder, place, top, deep, rank, clock)'
    BY <2>1, <2>3, <2>4, <2>5 DEF All
  <2> QED BY <2>6 DEF IInv
<1>4. CASE Alloc(t)
  <2>1. PICK n \in Nodes :
          /\ kind[n] \in {"free", "new"}
          /\ node' = [node EXCEPT ![t] = n]
          /\ heap' = heap \union {n}
          /\ free' \in Seq(Nodes) /\ IsInjective(free')
          /\ Range(free') = Range(free) \ {n}
    BY <1>2, <1>4, AllocTakes DEF Core, GhostOK
  <2> DEFINE kind2 == [kind EXCEPT ![n] = "held"]
             holder2 == [holder EXCEPT ![n] = t]
             place2 == [place EXCEPT ![n] = 0]
             deep2 == [deep EXCEPT ![t] = 0]
             rank2 == [rank EXCEPT ![t] = clock]
  <2>2. Core(kind2, holder2, place2, top, deep2, rank2, clock + 1)'
    BY <1>2, <1>4, <2>1, AllocCore
  <2>3. TypeOK'
    BY <2>2 DEF Core
  <2>4. DataOK(kind2, holder2)'
    BY <1>2, <1>4, <2>1, <2>3, AllocData
  <2>5. SizeOK(kind2, holder2)'
    BY <1>2, <1>4, <2>1, AllocSize
  <2>6. FifoOK(kind2, holder2, place2, top)'
    BY <1>2, <1>4, <2>1, AllocFifo
  <2> HIDE DEF kind2, holder2, place2, deep2, rank2
  <2>7. All(kind2, holder2, place2, top, deep2, rank2, clock + 1)'
    BY <2>2, <2>4, <2>5, <2>6 DEF All
  <2> QED BY <2>7 DEF IInv
<1>5. CASE Construct(t)
  <2>1. Core(kind, holder, place, top, deep, rank, clock)'
    BY <1>2, <1>5, ConstructCore
  <2>2. DataOK(kind, holder)'
    BY <1>2, <1>5, ConstructData
  <2>3. SizeOK(kind, holder)'
    BY <1>2, <1>5, ConstructSize
  <2>4. FifoOK(kind, holder, place, top)'
    BY <1>2, <1>5, ConstructFifo
  <2>5. All(kind, holder, place, top, deep, rank, clock)'
    BY <2>1, <2>2, <2>3, <2>4 DEF All
  <2> QED BY <2>5 DEF IInv
<1>6. CASE LinkNode(t) /\ kind[cTail[t].node] = "list"
  <2> DEFINE kind2 == [m \in Nodes |-> IF Held(kind, holder, m, t) THEN "list" ELSE kind[m]]
             place2 == [m \in Nodes |-> IF Held(kind, holder, m, t)
                                          THEN top + 1 + place[m] ELSE place[m]]
             top2 == top + 1 + deep[t]
  <2>1. Core(kind2, holder, place2, top2, deep, rank, clock)'
    BY <1>2, <1>6, LinkCoreList
  <2>2. DataOK(kind2, holder)'
    BY <1>2, <1>6, LinkDataList
  <2>3. SizeOK(kind2, holder)'
    BY <1>2, <1>6, LinkSizeList
  <2>4. FifoOK(kind2, holder, place2, top2)'
    BY <1>2, <1>6, LinkFifoList
  <2> HIDE DEF kind2, place2, top2
  <2>5. All(kind2, holder, place2, top2, deep, rank, clock)'
    BY <2>1, <2>2, <2>3, <2>4 DEF All
  <2> QED BY <2>5 DEF IInv
<1>7. CASE LinkNode(t) /\ kind[cTail[t].node] # "list"
  <2>1. PICK h : h = holder[cTail[t].node]
    OBVIOUS
  <2> DEFINE holder2 == [m \in Nodes |-> IF Held(kind, holder, m, t) THEN h ELSE holder[m]]
             place2 == [m \in Nodes |-> IF Held(kind, holder, m, t)
                                          THEN deep[h] + 1 + place[m] ELSE place[m]]
             deep2 == [deep EXCEPT ![h] = deep[h] + 1 + deep[t]]
  <2>2. Core(kind, holder2, place2, top, deep2, rank, clock)'
    BY <1>2, <1>7, <2>1, LinkCoreHeld
  <2>3. DataOK(kind, holder2)'
    BY <1>2, <1>7, <2>1, LinkDataHeld
  <2>4. SizeOK(kind, holder2)'
    BY <1>2, <1>7, <2>1, LinkSizeHeld
  <2>5. FifoOK(kind, holder2, place2, top)'
    BY <1>2, <1>7, LinkFifoHeld
  <2> HIDE DEF holder2, place2, deep2
  <2>6. All(kind, holder2, place2, top, deep2, rank, clock)'
    BY <2>2, <2>3, <2>4, <2>5 DEF All
  <2> QED BY <2>6 DEF IInv
<1>8. CASE DqMoveHead(t)
  <2>1. PICK old : old = head.node
    OBVIOUS
  <2> DEFINE kind2 == [kind EXCEPT ![old] = "held"]
             holder2 == [holder EXCEPT ![old] = t]
  <2>2. Core(kind2, holder2, place, top, deep, rank, clock)'
    BY <1>2, <1>8, <2>1, MoveCore
  <2>3. DataOK(kind2, holder2)'
    BY <1>2, <1>8, <2>1, MoveData
  <2>4. SizeOK(kind2, holder2)'
    BY <1>2, <1>8, <2>1, MoveSize
  <2>5. FifoOK(kind2, holder2, place, top)'
    BY <1>2, <1>8, <2>1, MoveFifo
  <2> HIDE DEF kind2, holder2
  <2>6. All(kind2, holder2, place, top, deep, rank, clock)'
    BY <2>2, <2>3, <2>4, <2>5 DEF All
  <2> QED BY <2>6 DEF IInv
<1>9. CASE DqFree(t)
  <2>1. PICK old : old = cHead[t].node
    OBVIOUS
  <2> DEFINE kind2 == [kind EXCEPT ![old] = "free"]
  <2>2. Core(kind2, holder, place, top, deep, rank, clock)'
    BY <1>2, <1>9, <2>1, FreeCore
  <2>3. DataOK(kind2, holder)'
    BY <1>2, <1>9, <2>1, FreeData
  <2>4. SizeOK(kind2, holder)'
    BY <1>2, <1>9, <2>1, FreeSize
  <2>5. FifoOK(kind2, holder, place, top)'
    BY <1>2, <1>9, <2>1, FreeFifo
  <2> HIDE DEF kind2
  <2>6. All(kind2, holder, place, top, deep, rank, clock)'
    BY <2>2, <2>3, <2>4, <2>5 DEF All
  <2> QED BY <2>6 DEF IInv
<1> QED BY <1>3, <1>4, <1>5, <1>6, <1>7, <1>8, <1>9 DEF Step, EnqueueStep, DequeueStep, Calm

LEMMA InvariantHolds == Spec /\ []NoWrap => []IInv
<1>1. Init => IInv
  BY InitAll
<1>2. IInv /\ NoWrap /\ [Next]_vars => IInv'
  BY StepAll, StutterAll DEF Next
<1> QED BY <1>1, <1>2, PTL DEF Spec

-----------------------------------------------------------------------------
(* The list that Chain walks is the one the invariant speaks of *)

WalkStep(walk, k) ==
  IF k = 0
    THEN <<head.node>>
    ELSE LET last == next[Last(walk[k - 1])] IN
           IF last = Null THEN walk[k - 1] ELSE Append(walk[k - 1], last)

Walk == CHOOSE walk : walk = [k \in 0 .. Cardinality(Nodes) |-> WalkStep(walk, k)]

\* A set of naturals has a least one.
LEMMA LeastOf ==
  ASSUME NEW B, B \subseteq Nat, B # {}
  PROVE  \E k \in B : \A j \in B : k <= j
<1> DEFINE T == {0 .. k : k \in B}
           R == StrictSubsetOrdering(Nat)
<1>1. IsWellFoundedOn(R, FiniteSubsetsOf(Nat))
  BY FS_StrictSubsetOrderingWellFounded
<1>2. T \subseteq FiniteSubsetsOf(Nat)
  <2>1. \A k \in Nat : 0 .. k \subseteq Nat /\ IsFiniteSet(0 .. k)
    BY FS_Interval
  <2>2. ASSUME NEW S \in T PROVE S \in SUBSET Nat /\ IsFiniteSet(S)
    BY <2>1
  <2> QED BY <2>2 DEF FiniteSubsetsOf
<1>3. T # {}
  OBVIOUS
<1> HIDE DEF R
<1>4. PICK S \in T : \A U \in T : ~(<<U, S>> \in R)
  <2> HIDE DEF T
  <2> QED BY <1>1, <1>2, <1>3, WFMin
<1>5. PICK k \in B : S = 0 .. k
  OBVIOUS
<1>6. ASSUME NEW j \in B, ~(k <= j) PROVE FALSE
  <2>1. j \in Nat /\ k \in Nat /\ j < k
    BY <1>6
  <2>2. 0 .. j \in T
    OBVIOUS
  <2>3. 0 .. j \subseteq 0 .. k /\ 0 .. j \subseteq Nat /\ 0 .. k \subseteq Nat /\ 0 .. j # 0 .. k
    <3>1. k \in 0 .. k /\ k \notin 0 .. j
      BY <2>1
    <3>2. 0 .. j \subseteq 0 .. k /\ 0 .. j \subseteq Nat /\ 0 .. k \subseteq Nat
      BY <2>1
    <3> QED BY <3>1, <3>2
  <2>4. <<0 .. j, 0 .. k>> \in R
    BY <2>3 DEF R, StrictSubsetOrdering
  <2> QED BY <1>4, <1>5, <2>2, <2>4
<1> QED BY <1>6

LEMMA ChainWalks == Chain = Walk[Cardinality(Nodes)]
BY DEF Chain, Walk, WalkStep

\* A function that takes the same steps is the walk.
LEMMA WalkIs ==
  ASSUME Cardinality(Nodes) \in Nat,
         NEW W, W = [k \in 0 .. Cardinality(Nodes) |-> WalkStep(W, k)]
  PROVE  Walk = W
<1> DEFINE C == Cardinality(Nodes)
<1>1. Walk = [k \in 0 .. C |-> WalkStep(Walk, k)]
  BY Zenon DEF Walk
<1> DEFINE B == {k \in 0 .. C : Walk[k] # W[k]}
<1>2. B = {}
  <2>1. SUFFICES ASSUME B # {} PROVE FALSE
    OBVIOUS
  <2>2. B \subseteq Nat
    OBVIOUS
  <2>7. PICK k \in B : \A j \in B : k <= j
    <3> HIDE DEF B
    <3> QED BY <2>1, <2>2, LeastOf
  <2>3. k \in 0 .. C /\ Walk[k] = WalkStep(Walk, k) /\ W[k] = WalkStep(W, k) /\ Walk[k] # W[k]
    BY <1>1
  <2>4. CASE k = 0
    BY <2>3, <2>4 DEF WalkStep
  <2>5. CASE k # 0
    <3>1. k - 1 \in 0 .. C /\ ~(k <= k - 1)
      BY <2>3, <2>5
    <3>2. Walk[k - 1] = W[k - 1]
      BY <2>7, <3>1
    <3> QED BY <2>3, <2>5, <3>2 DEF WalkStep
  <2> QED BY <2>4, <2>5
<1>3. DOMAIN Walk = 0 .. C /\ DOMAIN W = 0 .. C
  BY <1>1
<1>4. \A k \in 0 .. C : Walk[k] = W[k]
  BY <1>2
<1> HIDE DEF C
<1> QED BY <1>1, <1>3, <1>4 DEF C

\* The first j + 1 nodes of a list f.
Upto(f, j) == [i \in 1 .. j + 1 |-> f[i - 1]]

LEMMA UptoGrows ==
  ASSUME NEW L \in Nat, NEW f \in [0 .. L -> Nodes], NEW j \in 0 .. L
  PROVE  /\ Upto(f, j) \in Seq(Nodes) /\ Len(Upto(f, j)) = j + 1 /\ Last(Upto(f, j)) = f[j]
         /\ j < L => Append(Upto(f, j), f[j + 1]) = Upto(f, j + 1)
<1>1. \A i \in 1 .. j + 1 : i - 1 \in 0 .. L
  OBVIOUS
<1>2. Upto(f, j) \in [1 .. j + 1 -> Nodes] /\ j + 1 \in Nat
  BY <1>1 DEF Upto
<1>3. Upto(f, j) \in Seq(Nodes) /\ Len(Upto(f, j)) = j + 1
  <2> DEFINE s == Upto(f, j)
  <2>1. s \in [1 .. j + 1 -> Nodes] /\ j + 1 \in Nat
    BY <1>2
  <2> HIDE DEF s
  <2>2. s \in Seq(Nodes) /\ Len(s) = j + 1
    BY <2>1, SeqDef, LenProperties
  <2> QED BY <2>2 DEF s
<1>4. Upto(f, j)[j + 1] = f[j]
  <2>1. j + 1 \in 1 .. j + 1 /\ (j + 1) - 1 = j
    OBVIOUS
  <2> QED BY <2>1 DEF Upto
<1>5. Last(Upto(f, j)) = f[j]
  BY <1>3, <1>4 DEF Last
<1>6. ASSUME j < L PROVE Append(Upto(f, j), f[j + 1]) = Upto(f, j + 1)
  <2> DEFINE s == Upto(f, j)
             r == Append(s, f[j + 1])
             q == Upto(f, j + 1)
  <2>1. j + 1 \in 0 .. L /\ f[j + 1] \in Nodes
    BY <1>6
  <2>2. s \in Seq(Nodes) /\ Len(s) = j + 1
    BY <1>3
  <2> HIDE DEF s
  <2>3. /\ r \in Seq(Nodes) /\ Len(r) = Len(s) + 1
        /\ \A i \in 1 .. Len(s) : r[i] = s[i]
        /\ r[Len(s) + 1] = f[j + 1]
    BY <2>1, <2>2, AppendProperties
  <2> HIDE DEF r
  <2>4. q = [i \in 1 .. (j + 1) + 1 |-> f[i - 1]]
    BY DEF Upto
  <2>5. \A i \in 1 .. j + 1 : s[i] = f[i - 1]
    BY DEF s, Upto
  <2>6. DOMAIN r = 1 .. (j + 1) + 1 /\ r = [i \in 1 .. (j + 1) + 1 |-> r[i]]
    BY <2>2, <2>3, SeqDef, LenProperties
  <2>7. \A i \in 1 .. (j + 1) + 1 : r[i] = f[i - 1]
    <3> TAKE i \in 1 .. (j + 1) + 1
    <3>1. CASE i = (j + 1) + 1
      <4>1. i - 1 = j + 1
        BY <3>1
      <4> QED BY <2>2, <2>3, <3>1, <4>1
    <3>2. CASE i # (j + 1) + 1
      <4>1. i \in 1 .. j + 1
        BY <3>2
      <4> QED BY <2>2, <2>3, <2>5, <4>1
    <3> QED BY <3>1, <3>2
  <2> HIDE DEF q
  <2>8. r = q
    BY <2>4, <2>6, <2>7
  <2> QED BY <2>8 DEF r, q, s
<1> QED BY <1>3, <1>5, <1>6

\* A list of distinct nodes from the head's to the one with no next is the
\* Chain.
LEMMA ChainFollows ==
  ASSUME NEW L \in Nat, NEW f \in [0 .. L -> Nodes],
         \A i, j \in 0 .. L : f[i] = f[j] => i = j,
         f[0] = head.node, next[f[L]] = Null,
         \A i \in 0 .. L : i < L => next[f[i]] = f[i + 1]
  PROVE  Chain = Upto(f, L)
<1> DEFINE C == Cardinality(Nodes)
           Cut(k) == IF k <= L THEN k ELSE L
           W == [k \in 0 .. C |-> Upto(f, Cut(k))]
<1>1. C \in Nat /\ IsFiniteSet(Nodes) /\ Null \notin Nodes
  BY ConstantAssumption, FS_CardinalityType
<1>2. L <= C
  <2>1. f \in Injection(0 .. L, Nodes)
    BY DEF Injection, IsInjective
  <2>2. Cardinality(0 .. L) <= C
    BY <1>1, <2>1, FS_Injection
  <2>3. Cardinality(0 .. L) = L + 1
    <3>1. Cardinality(0 .. L) = IF 0 > L THEN 0 ELSE L - 0 + 1
      BY FS_Interval
    <3> QED BY <3>1
  <2> HIDE DEF C
  <2> QED BY <1>1, <2>2, <2>3
<1>3. \A k \in 0 .. C : W[k] = WalkStep(W, k)
  <2> HIDE DEF C
  <2> TAKE k \in 0 .. C
  <2>1. CASE k = 0
    <3>1. W[0] = Upto(f, 0) /\ 0 \in 0 .. L
      BY <1>1
    <3>2. Upto(f, 0) = <<f[0]>>
      <4>1. Upto(f, 0) = [i \in 1 .. 1 |-> f[i - 1]] /\ (\A i \in 1 .. 1 : i - 1 = 0)
        BY DEF Upto
      <4>2. Upto(f, 0) = [i \in 1 .. 1 |-> f[0]]
        BY <4>1
      <4> QED BY <4>2
    <3> QED BY <2>1, <3>1, <3>2 DEF WalkStep
  <2>2. CASE k # 0
    <3>1. k - 1 \in 0 .. C /\ k \in Nat /\ k > 0
      BY <1>1, <2>2
    <3>2. PICK j \in 0 .. L : j = Cut(k - 1)
      BY <3>1
    <3>3. W[k - 1] = Upto(f, j) /\ Last(W[k - 1]) = f[j]
      BY <3>1, <3>2, UptoGrows
    <3>4. W[k] = Upto(f, Cut(k))
      OBVIOUS
    <3>5. CASE k <= L
      <4>1. j = k - 1 /\ Cut(k) = k /\ j < L /\ j + 1 = k /\ k \in 0 .. L
        BY <3>1, <3>2, <3>5
      <4> HIDE DEF W, Cut
      <4>2. next[f[j]] = f[k] /\ f[k] \in Nodes
        BY <4>1
      <4>3. Append(Upto(f, j), f[k]) = Upto(f, k)
        BY <4>1, UptoGrows
      <4> QED BY <1>1, <2>2, <3>3, <3>4, <4>1, <4>2, <4>3 DEF WalkStep
    <3>6. CASE ~(k <= L)
      <4>1. j = L /\ Cut(k) = L
        BY <3>1, <3>2, <3>6
      <4> HIDE DEF W, Cut
      <4> QED BY <2>2, <3>3, <3>4, <4>1 DEF WalkStep
    <3> QED BY <3>5, <3>6
  <2> QED BY <2>1, <2>2
<1>4. W = [k \in 0 .. C |-> WalkStep(W, k)]
  <2>1. W = [k \in 0 .. C |-> W[k]]
    OBVIOUS
  <2> HIDE DEF W, C
  <2> QED BY <1>3, <2>1
<1>5. W[C] = Upto(f, L)
  <2>1. C \in 0 .. C /\ Cut(C) = L
    <3> HIDE DEF C
    <3> QED BY <1>1, <1>2
  <2> HIDE DEF C, Cut
  <2> QED BY <2>1
<1> HIDE DEF W
<1>6. Walk = W
  BY <1>1, <1>4, WalkIs
<1> QED BY <1>5, <1>6, ChainWalks

\* The chain of a list with a node at every place from the head's to top.
LEMMA ChainIs ==
  ASSUME NEW kind, NEW holder, NEW place, NEW top, NEW deep, NEW rank, NEW clock,
         Core(kind, holder, place, top, deep, rank, clock)
  PROVE  /\ top \in Nat /\ head.stamp \in Nat /\ head.stamp <= top
         /\ Len(Chain) = top - head.stamp + 1
         /\ \A i \in 1 .. top - head.stamp + 1 :
              Chain[i] \in Nodes /\ kind[Chain[i]] = "list"
              /\ place[Chain[i]] = head.stamp + i - 1
         /\ DOMAIN Chain = 1 .. top - head.stamp + 1
         /\ Range(Chain) = {n \in Nodes : kind[n] = "list"}
<1>1. PICK h : h = head.stamp
  OBVIOUS
<1>2. /\ h \in Nat /\ top \in Nat /\ head.node \in Nodes /\ place \in [Nodes -> Nat]
      /\ next \in [Nodes -> NodeOrNull] /\ Null \notin Nodes
  BY <1>1, ConstantAssumption DEF Core, TypeOK, GhostOK
<1>3. /\ kind[head.node] = "list" /\ place[head.node] = h
      /\ \A n \in Nodes : kind[n] = "list" =>
           /\ h <= place[n] /\ place[n] <= top
           /\ next[n] = Null <=> place[n] = top
           /\ next[n] # Null => kind[next[n]] = "list" /\ place[next[n]] = place[n] + 1
      /\ \A m, n \in Nodes :
           kind[m] = "list" /\ kind[n] = "list" /\ place[m] = place[n] => m = n
      /\ \A k \in h .. top : \E n \in Nodes : kind[n] = "list" /\ place[n] = k
  BY <1>1 DEF Core, ListOK
<1>4. h <= top
  BY <1>2, <1>3
<1> DEFINE L == top - h
           f == [i \in 0 .. L |-> CHOOSE n \in Nodes : kind[n] = "list" /\ place[n] = h + i]
<1>5. L \in Nat
  BY <1>2, <1>4
<1>6. \A i \in 0 .. L : f[i] \in Nodes /\ kind[f[i]] = "list" /\ place[f[i]] = h + i
  <2> TAKE i \in 0 .. L
  <2>1. h + i \in h .. top
    BY <1>2, <1>4
  <2>2. \E n \in Nodes : kind[n] = "list" /\ place[n] = h + i
    BY <1>3, <2>1
  <2> QED BY <2>2
<1>7. f \in [0 .. L -> Nodes]
  BY <1>6
<1> HIDE DEF f
<1>8. \A i, j \in 0 .. L : f[i] = f[j] => i = j
  BY <1>2, <1>5, <1>6
<1>9. f[0] = head.node
  <2>1. 0 \in 0 .. L /\ h + 0 = h
    BY <1>2, <1>5
  <2> QED BY <1>2, <1>3, <1>6, <2>1
<1>10. next[f[L]] = Null
  <2>1. L \in 0 .. L /\ h + L = top
    BY <1>2, <1>5
  <2> QED BY <1>3, <1>6, <2>1
<1>11. \A i \in 0 .. L : i < L => next[f[i]] = f[i + 1]
  <2> TAKE i \in 0 .. L
  <2> HAVE i < L
  <2>1. i + 1 \in 0 .. L /\ h + i # top /\ h + (i + 1) = h + i + 1
    BY <1>2, <1>5
  <2>2. next[f[i]] \in Nodes /\ kind[next[f[i]]] = "list" /\ place[next[f[i]]] = h + i + 1
    BY <1>2, <1>3, <1>6, <2>1 DEF NodeOrNull
  <2> QED BY <1>3, <1>6, <2>1, <2>2
<1>12. Chain = Upto(f, L)
  BY <1>5, <1>7, <1>8, <1>9, <1>10, <1>11, ChainFollows
<1>13. Len(Chain) = L + 1 /\ Chain = [i \in 1 .. L + 1 |-> f[i - 1]]
  <2>1. L \in 0 .. L
    BY <1>5
  <2> HIDE DEF L
  <2> QED BY <1>5, <1>7, <1>12, <2>1, UptoGrows DEF Upto
<1>14. \A i \in 1 .. L + 1 : Chain[i] \in Nodes /\ kind[Chain[i]] = "list"
                             /\ place[Chain[i]] = h + i - 1
  <2> TAKE i \in 1 .. L + 1
  <2>1. i - 1 \in 0 .. L /\ h + (i - 1) = h + i - 1
    BY <1>2, <1>5
  <2>2. Chain[i] = f[i - 1]
    BY <1>13
  <2> QED BY <1>6, <2>1, <2>2
<1>15. \A n : n \in Range(Chain) <=> n \in Nodes /\ kind[n] = "list"
  <2>1. ASSUME NEW n \in Nodes, kind[n] = "list" PROVE n \in Range(Chain)
    <3>1. PICK i \in 1 .. L + 1 : place[n] = h + i - 1
      <4>1. place[n] - h + 1 \in 1 .. L + 1 /\ h + (place[n] - h + 1) - 1 = place[n]
        BY <1>2, <1>3, <2>1
      <4> QED BY <4>1
    <3>2. Chain[i] = n
      BY <1>3, <1>14, <2>1, <3>1
    <3> QED BY <1>13, <3>2 DEF Range
  <2>2. ASSUME NEW n \in Range(Chain) PROVE n \in Nodes /\ kind[n] = "list"
    BY <1>13, <1>14 DEF Range
  <2> QED BY <2>1, <2>2
<1>16. Range(Chain) = {n \in Nodes : kind[n] = "list"}
  BY <1>15
<1> QED BY <1>1, <1>2, <1>4, <1>13, <1>14, <1>16

-----------------------------------------------------------------------------
(* The data that wait *)

LEMMA WaitingIs ==
  ASSUME NEW kind, NEW holder, NEW place, NEW top, NEW deep, NEW rank, NEW clock,
         Core(kind, holder, place, top, deep, rank, clock)
  PROVE  /\ Len(Waiting) \in Nat /\ Len(Waiting) = top - head.stamp
         /\ DOMAIN Waiting = 1 .. top - head.stamp
         /\ Waiting \in Seq(Data)
         /\ \A i \in 1 .. top - head.stamp :
              \E n \in Nodes : /\ kind[n] = "list" /\ n # head.node
                               /\ place[n] = head.stamp + i /\ Waiting[i] = data[n]
         /\ \A n \in Nodes : kind[n] = "list" /\ n # head.node => data[n] \in Range(Waiting)
<1>1. PICK h, L : h = head.stamp /\ L = top - h
  OBVIOUS
<1>11. /\ top \in Nat /\ head.stamp \in Nat /\ head.stamp <= top
       /\ Len(Chain) = top - head.stamp + 1
       /\ \A i \in 1 .. top - head.stamp + 1 :
            Chain[i] \in Nodes /\ kind[Chain[i]] = "list"
            /\ place[Chain[i]] = head.stamp + i - 1
  BY ChainIs
<1>2. /\ h \in Nat /\ top \in Nat /\ L \in Nat /\ place \in [Nodes -> Nat]
      /\ data \in [Nodes -> Data] /\ head.node \in Nodes
  BY <1>1, <1>11 DEF Core, TypeOK, GhostOK
<1>3. /\ Len(Chain) - 1 = L
      /\ \A i \in 1 .. L + 1 : /\ Chain[i] \in Nodes /\ kind[Chain[i]] = "list"
                               /\ place[Chain[i]] = h + i - 1
  <2>1. Len(Chain) = L + 1
    BY <1>1, <1>11
  <2>2. Len(Chain) - 1 = L
    BY <1>2, <2>1
  <2> QED BY <1>1, <1>11, <2>2
<1>4. Waiting = [i \in 1 .. L |-> data[Chain[i + 1]]]
  BY <1>3 DEF Waiting
<1>5. \A i \in 1 .. L : /\ Chain[i + 1] \in Nodes /\ kind[Chain[i + 1]] = "list"
                        /\ place[Chain[i + 1]] = h + i /\ Waiting[i] = data[Chain[i + 1]]
  <2> TAKE i \in 1 .. L
  <2>1. i + 1 \in 1 .. L + 1 /\ h + (i + 1) - 1 = h + i
    BY <1>2
  <2> QED BY <1>3, <1>4, <2>1
<1>6. Waiting \in [1 .. L -> Data]
  BY <1>2, <1>4, <1>5
<1>7. Waiting \in Seq(Data) /\ Len(Waiting) = L
  <2> DEFINE w == Waiting
  <2> HIDE DEF w
  <2>1. w \in Seq(Data) /\ Len(w) = L
    <3>1. w \in [1 .. L -> Data]
      BY <1>6 DEF w
    <3> QED BY <1>2, <3>1, SeqDef, LenProperties
  <2> QED BY <2>1 DEF w
<1>8. /\ place[head.node] = h
      /\ \A n \in Nodes : kind[n] = "list" => h <= place[n] /\ place[n] <= top
      /\ \A m, n \in Nodes :
           kind[m] = "list" /\ kind[n] = "list" /\ place[m] = place[n] => m = n
      /\ kind[head.node] = "list"
  BY <1>1 DEF Core, ListOK
<1>9. \A i \in 1 .. L : Chain[i + 1] # head.node
  <2> TAKE i \in 1 .. L
  <2>1. h + i # h
    BY <1>2
  <2> QED BY <1>5, <1>8, <2>1
<1>10. ASSUME NEW n \in Nodes, kind[n] = "list", n # head.node
       PROVE  data[n] \in Range(Waiting)
  <2>1. PICK i \in 1 .. L : place[n] = h + i
    <3>1. place[n] - h \in 1 .. L /\ place[n] = h + (place[n] - h)
      BY <1>1, <1>2, <1>8, <1>10
    <3> QED BY <3>1
  <2>2. Chain[i + 1] = n
    BY <1>5, <1>8, <1>10, <2>1
  <2>3. Waiting[i] = data[n] /\ i \in DOMAIN Waiting
    BY <1>4, <1>5, <2>2
  <2> QED BY <2>3 DEF Range
<1> QED BY <1>1, <1>2, <1>4, <1>5, <1>7, <1>9, <1>10

\* The nodes of the list behind the dummy are as many as the data that wait.
LEMMA WaitingCount ==
  ASSUME NEW kind, NEW holder, NEW place, NEW top, NEW deep, NEW rank, NEW clock,
         Core(kind, holder, place, top, deep, rank, clock)
  PROVE  Cardinality({n \in Nodes : kind[n] = "list" /\ n # head.node}) = Len(Waiting)
<1>1. PICK h, L : h = head.stamp /\ L = top - h
  OBVIOUS
<1>13. top \in Nat /\ head.stamp \in Nat /\ head.stamp <= top
  BY ChainIs
<1>2. h \in Nat /\ top \in Nat /\ L \in Nat /\ place \in [Nodes -> Nat] /\ head.node \in Nodes
  BY <1>1, <1>13 DEF Core, TypeOK, GhostOK
<1>3. /\ place[head.node] = h /\ kind[head.node] = "list"
      /\ \A n \in Nodes : kind[n] = "list" => h <= place[n] /\ place[n] <= top
      /\ \A m, n \in Nodes :
           kind[m] = "list" /\ kind[n] = "list" /\ place[m] = place[n] => m = n
      /\ \A k \in h .. top : \E n \in Nodes : kind[n] = "list" /\ place[n] = k
  BY <1>1 DEF Core, ListOK
<1> DEFINE S == {n \in Nodes : kind[n] = "list" /\ n # head.node}
           g == [n \in S |-> place[n] - h]
<1>4. \A n \in S : place[n] - h \in 1 .. L
  BY <1>1, <1>2, <1>3
<1>5. g \in [S -> 1 .. L]
  BY <1>4
<1>6. \A m, n \in S : g[m] = g[n] => m = n
  BY <1>2, <1>3
<1>7. \A k \in 1 .. L : \E n \in S : g[n] = k
  <2> TAKE k \in 1 .. L
  <2>1. h + k \in h .. top /\ h + k # h
    BY <1>1, <1>2
  <2>2. PICK n \in Nodes : kind[n] = "list" /\ place[n] = h + k
    BY <1>3, <2>1
  <2>3. n \in S /\ place[n] - h = k
    BY <1>2, <1>3, <2>1, <2>2
  <2> QED BY <2>3
<1> HIDE DEF g, S
<1>8. g \in Bijection(S, 1 .. L)
  BY <1>5, <1>6, <1>7 DEF Bijection, Injection, Surjection, IsInjective
<1>9. IsFiniteSet(S)
  BY ConstantAssumption, FS_Subset DEF S
<1>10. Cardinality(S) = Cardinality(1 .. L)
  BY <1>8, <1>9, FS_Bijection DEF ExistsBijection
<1>11. Cardinality(1 .. L) = L
  <2>1. Cardinality(1 .. L) = IF 1 > L THEN 0 ELSE L - 1 + 1
    BY <1>2, FS_Interval
  <2> QED BY <1>2, <2>1
<1>12. Len(Waiting) = L
  BY <1>1, WaitingIs
<1> QED BY <1>10, <1>11, <1>12 DEF S

-----------------------------------------------------------------------------
(* The properties *)

\* The head never passes the tail, whose node is in the list, and a thread
\* never follows a null next (LFQueue.h:110).
LEMMA InvTail ==
  ASSUME NEW kind, NEW holder, NEW place, NEW top, NEW deep, NEW rank, NEW clock,
         All(kind, holder, place, top, deep, rank, clock)
  PROVE  TailAhead
<1>1. Core(kind, holder, place, top, deep, rank, clock)
  BY DEF All
<1>2. Range(Chain) = {n \in Nodes : kind[n] = "list"}
  BY <1>1, ChainIs
<1>3. tail.node \in Nodes /\ kind[tail.node] = "list" /\ head.stamp <= tail.stamp
  BY <1>1 DEF Core, TypeOK, ListOK
<1>4. \A t \in Threads :
        pc[t] \in {"help", "dqSwing", "dqData", "dqCas"} => cNext[t] \in Nodes
  BY <1>1 DEF Core, CopiesOK
<1> QED BY <1>2, <1>3, <1>4 DEF TailAhead

LEMMA InvApart ==
  ASSUME NEW kind, NEW holder, NEW place, NEW top, NEW deep, NEW rank, NEW clock,
         All(kind, holder, place, top, deep, rank, clock)
  PROVE  NodesApart
<1>1. Core(kind, holder, place, top, deep, rank, clock)
  BY DEF All
<1>2. \A n : n \in Range(Chain) => n \in Nodes /\ kind[n] = "list"
  BY <1>1, ChainIs
<1>3. IsInjective(free) /\ (\A n \in Nodes : n \in Range(free) => kind[n] = "free")
  BY <1>1 DEF Core, KindOK
<1>4. \A t \in Threads : pc[t] \in Private =>
        node[t] \in Nodes /\ kind[node[t]] = "held" /\ holder[node[t]] = t
  BY <1>1 DEF Core, OwnersOK, Held
<1>5. Range(Chain) \intersect Range(free) = {}
  BY <1>2, <1>3
<1> DEFINE private == {t \in Threads : pc[t] \in {"construct", "tail", "tailNext",
                                                  "link", "help"}}
<1>6. \A t \in private : node[t] \notin Range(Chain) \union Range(free)
  BY <1>2, <1>3, <1>4 DEF Private
<1>7. \A t, u \in private : t # u => node[t] # node[u]
  BY <1>4 DEF Private
<1> QED BY <1>3, <1>5, <1>6, <1>7 DEF NodesApart

\* What waits is what the live nodes of the list carry.
LEMMA InvOnce ==
  ASSUME NEW kind, NEW holder, NEW place, NEW top, NEW deep, NEW rank, NEW clock,
         All(kind, holder, place, top, deep, rank, clock)
  PROVE  DequeuedOnce
<1>1. /\ Core(kind, holder, place, top, deep, rank, clock)
      /\ DataOK(kind, holder) /\ SizeOK(kind, holder)
  BY DEF All
<1>2. /\ \A n \in Nodes : Live(kind, holder, n) => data[n] \in Sent /\ data[n] \notin Range(got)
      /\ IsInjective(got) /\ Range(got) \subseteq Sent
      /\ \A d \in Sent :
           \/ d \in Range(got)
           \/ \E n \in Nodes : Live(kind, holder, n) /\ data[n] = d
           \/ \E u \in Threads : pc[u] = "construct" /\ d = Datum(u, sent[u])
  BY <1>1, DataParts
<1>3. /\ \A w \in Range(Waiting) :
           \E n \in Nodes : kind[n] = "list" /\ n # head.node /\ w = data[n]
      /\ \A n \in Nodes : kind[n] = "list" /\ n # head.node => data[n] \in Range(Waiting)
  <2>1. /\ DOMAIN Waiting = 1 .. top - head.stamp
        /\ \A i \in 1 .. top - head.stamp :
             \E n \in Nodes : /\ kind[n] = "list" /\ n # head.node
                              /\ place[n] = head.stamp + i /\ Waiting[i] = data[n]
        /\ \A n \in Nodes : kind[n] = "list" /\ n # head.node => data[n] \in Range(Waiting)
    BY <1>1, WaitingIs
  <2> QED BY <2>1 DEF Range
<1>4. \A w \in Range(Waiting) : w \in Sent /\ w \notin Range(got)
  BY <1>2, <1>3 DEF Live
<1>5. ASSUME \A t \in Threads : pc[t] = "idle"
      PROVE  Sent = Range(got) \union Range(Waiting) /\ size = Len(Waiting)
  <2>1. \A n \in Nodes : kind[n] # "held"
    BY <1>1, <1>5 DEF Core, OwnersOK, Private
  <2>2. \A d \in Sent : d \in Range(got) \/ d \in Range(Waiting)
    BY <1>2, <1>3, <1>5, <2>1 DEF Live
  <2>3. Sent = Range(got) \union Range(Waiting)
    BY <1>2, <1>4, <2>2
  <2>4. Counting = {}
    BY <1>5 DEF Counting, Counted
  <2>5. Linked(kind, holder) = {n \in Nodes : kind[n] = "list" /\ n # head.node}
    BY <2>1 DEF Linked
  <2>6. Cardinality(Linked(kind, holder)) = Len(Waiting)
    BY <1>1, <2>5, WaitingCount
  <2>7. Cardinality(Counting) = 0
    BY <2>4, FS_EmptySet
  <2>8. size \in Int /\ size + 0 = Len(Waiting)
    BY <1>1, <2>6, <2>7 DEF SizeOK, Core, TypeOK
  <2> QED BY <2>3, <2>8
<1> QED BY <1>2, <1>4, <1>5 DEF DequeuedOnce

\* All that has left the queue and all that waits in it, in order.
AllData == got \o Waiting

LEMMA AllDataIs ==
  ASSUME NEW kind, NEW holder, NEW place, NEW top, NEW deep, NEW rank, NEW clock,
         Core(kind, holder, place, top, deep, rank, clock), DataOK(kind, holder)
  PROVE  /\ Len(got) \in Nat /\ top \in Nat /\ Len(got) <= top
         /\ AllData \in Seq(Data) /\ DOMAIN AllData = 1 .. top
         /\ \A i \in 1 .. Len(got) : AllData[i] = got[i]
         /\ \A i \in 1 .. top : i > Len(got) =>
              \E n \in Nodes : /\ kind[n] = "list" /\ n # head.node
                               /\ place[n] = i /\ AllData[i] = data[n]
         /\ \A i \in 1 .. top : AllData[i] \in Sent
<1>2. /\ \A n \in Nodes : Live(kind, holder, n) => data[n] \in Sent
      /\ Range(got) \subseteq Sent /\ head.stamp = Len(got)
  BY DataParts
<1>3. /\ Len(Waiting) \in Nat /\ Len(Waiting) = top - head.stamp /\ Waiting \in Seq(Data)
      /\ \A i \in 1 .. top - head.stamp :
           \E n \in Nodes : /\ kind[n] = "list" /\ n # head.node
                            /\ place[n] = head.stamp + i /\ Waiting[i] = data[n]
  BY WaitingIs
<1>4. got \in Seq(Data) /\ sent \in [Threads -> 0 .. MaxEnqueue] /\ MaxEnqueue \in Nat
  BY ConstantAssumption DEF Core, TypeOK
<1> DEFINE all == AllData
           A == Len(got)
           B == Len(Waiting)
<1>5. /\ A \in Nat /\ B \in Nat /\ DOMAIN got = 1 .. A
      /\ all \in Seq(Data) /\ DOMAIN all = 1 .. A + B
      /\ \A i \in 1 .. A : all[i] = got[i]
      /\ \A i \in 1 .. A + B : i > A => all[i] = Waiting[i - A]
  <2>1. /\ all \in Seq(Data) /\ Len(all) = A + B
        /\ \A i \in 1 .. A + B : all[i] = IF i <= A THEN got[i] ELSE Waiting[i - A]
    BY <1>3, <1>4, ConcatProperties DEF AllData
  <2>2. A \in Nat /\ B \in Nat /\ DOMAIN got = 1 .. A
    BY <1>3, <1>4, LenProperties
  <2>3. DOMAIN all = 1 .. A + B
    <3> HIDE DEF all, A, B
    <3> QED BY <2>1, LenProperties
  <2> HIDE DEF all, A, B
  <2> QED BY <2>1, <2>2, <2>3
<1>6. \A i \in 1 .. A + B : i > A =>
        \E n \in Nodes : /\ kind[n] = "list" /\ n # head.node
                         /\ place[n] = i /\ all[i] = data[n]
  <2> HIDE DEF all
  <2> TAKE i \in 1 .. A + B
  <2> HAVE i > A
  <2>1. i - A \in 1 .. B
    BY <1>5
  <2>2. PICK n \in Nodes : /\ kind[n] = "list" /\ n # head.node
                           /\ place[n] = head.stamp + (i - A) /\ Waiting[i - A] = data[n]
    BY <1>3, <2>1
  <2>3. head.stamp + (i - A) = i
    BY <1>2, <1>5
  <2> QED BY <1>5, <2>2, <2>3
<1>7. \A i \in 1 .. A + B : all[i] \in Sent
  <2> HIDE DEF all
  <2> TAKE i \in 1 .. A + B
  <2>1. CASE i > A
    BY <1>2, <1>6, <2>1 DEF Live
  <2>2. CASE ~(i > A)
    <3>1. i \in 1 .. A
      BY <1>5, <2>2
    <3>2. got[i] \in Range(got)
      BY <1>5, <3>1 DEF Range
    <3> QED BY <1>2, <1>5, <3>1, <3>2
  <2> QED BY <2>1, <2>2
<1>8. top \in Nat /\ A + B = top
  <2>1. top \in Nat /\ head.stamp = A
    BY <1>2 DEF Core, GhostOK
  <2> HIDE DEF all
  <2> QED BY <1>3, <1>5, <2>1
<1> HIDE DEF B
<1> QED BY <1>5, <1>6, <1>7, <1>8

LEMMA InvFifo ==
  ASSUME NEW kind, NEW holder, NEW place, NEW top, NEW deep, NEW rank, NEW clock,
         All(kind, holder, place, top, deep, rank, clock)
  PROVE  FifoOfOne
<1>1. /\ Core(kind, holder, place, top, deep, rank, clock)
      /\ DataOK(kind, holder) /\ FifoOK(kind, holder, place, top)
  BY DEF All
<1>4. sent \in [Threads -> 0 .. MaxEnqueue] /\ MaxEnqueue \in Nat
  BY <1>1, ConstantAssumption DEF Core, TypeOK
<1> DEFINE all == AllData
           A == Len(got)
<1>5. /\ A \in Nat /\ top \in Nat /\ A <= top /\ DOMAIN all = 1 .. top
      /\ \A i \in 1 .. A : all[i] = got[i]
      /\ \A i \in 1 .. top : i > A =>
           \E n \in Nodes : /\ kind[n] = "list" /\ n # head.node
                            /\ place[n] = i /\ all[i] = data[n]
      /\ \A i \in 1 .. top : all[i] \in Sent
  BY <1>1, AllDataIs
<1> HIDE DEF all, A
<1>8. ASSUME OneProducer, NEW i \in 1 .. top
      PROVE  all[i][2] = Cardinality({j \in 1 .. i : all[j][1] = all[i][1]})
  <2>1. PICK p \in Producers, k \in 1 .. MaxEnqueue : all[i] = <<p, k>> /\ k <= sent[p]
    BY <1>5 DEF Sent
  <2>2. sent[p] > 0
    <3>1. sent[p] \in Nat /\ k \in Nat /\ k >= 1
      BY <1>4, <2>1 DEF Threads
    <3> QED BY <2>1, <3>1
  <2>3. InOrder(p, kind, holder, place, top)
    BY <1>1, <1>8, <2>2 DEF OneProducer, OnlyProducer, FifoOK
  <2>4. /\ \A n \in Nodes : kind[n] = "list" /\ n # head.node => data[n] = Datum(p, place[n])
        /\ \A j \in 1 .. A : got[j] = Datum(p, j)
    BY <2>3 DEF InOrder, A
  <2>5. \A j \in 1 .. top : all[j] = <<p, j>>
    <3> TAKE j \in 1 .. top
    <3>1. CASE j > A
      BY <1>5, <2>4, <3>1 DEF Datum
    <3>2. CASE ~(j > A)
      <4>1. j \in 1 .. A
        BY <1>5, <3>2
      <4> QED BY <1>5, <2>4, <4>1 DEF Datum
    <3> QED BY <3>1, <3>2
  <2>6. \A j \in 1 .. i : all[j] = <<p, j>>
    <3>1. \A j \in 1 .. i : j \in 1 .. top
      BY <1>5
    <3> QED BY <2>5, <3>1
  <2>7. all[i][2] = i /\ all[i][1] = p /\ (\A j \in 1 .. i : all[j][1] = p)
    BY <2>5, <2>6
  <2>8. {j \in 1 .. i : all[j][1] = all[i][1]} = 1 .. i
    BY <2>7
  <2>9. Cardinality(1 .. i) = i
    <3>1. i \in Nat /\ i >= 1
      BY <1>5
    <3>2. Cardinality(1 .. i) = IF 1 > i THEN 0 ELSE i - 1 + 1
      BY <3>1, FS_Interval
    <3> QED BY <3>1, <3>2
  <2> QED BY <2>7, <2>8, <2>9
<1> QED BY <1>5, <1>8 DEF FifoOfOne, ProducerOrder, AllData, all

\* Only the decrement that comes out below zero sends a Dequeue home, and size
\* counts every linked node that no thread is about to count or take.
LEMMA EmptyStep ==
  ASSUME IInv, [Next]_vars, NEW t \in Consumers, pc[t] = "idle", pc'[t] = "unreserve"
  PROVE  Len(Waiting) <= Cardinality(Reserved)
                         + Cardinality({u \in Threads : pc[u] \in {"size", "unreserve"}})
<1>1. PICK kind, holder, place, top, deep, rank, clock :
        All(kind, holder, place, top, deep, rank, clock)
  BY DEF IInv
<1>2. Core(kind, holder, place, top, deep, rank, clock) /\ SizeOK(kind, holder)
  BY <1>1 DEF All
<1>3. pc \in [Threads -> Statements] /\ size \in Int /\ head.node \in Nodes
  BY <1>2 DEF Core, TypeOK
<1>4. size <= 0
  <2>1. PICK u \in Threads : Alloc(u) \/ Reserve(u) \/ Step(u)
    BY DEF Next, vars, locals
  <2>2. u = t
    <3>1. u # t => pc'[t] = pc[t]
      BY <1>3, <2>1 DEF Alloc, Reserve, Step, EnqueueStep, DequeueStep, Construct, ReadTail,
         ReadTailNext, LinkNode, LinkFails, HelpTail, CountEnqueue, EnqueueReturn, Unreserve,
         DqReadHead, DqReadTail, DqTailNextNull, DqTailNext, DqSwingTail, DqNextNull, DqNext,
         DqData, DqMoveHead, DqCasFails, DqFree, Goto, Again, Return, Threads
    <3> QED BY <3>1
  <2>3. Reserve(t)
    BY <1>3, <2>1, <2>2 DEF Alloc, Reserve, Step, EnqueueStep, DequeueStep, Construct, ReadTail,
       ReadTailNext, LinkNode, LinkFails, HelpTail, CountEnqueue, EnqueueReturn, Unreserve,
       DqReadHead, DqReadTail, DqTailNextNull, DqTailNext, DqSwingTail, DqNextNull, DqNext,
       DqData, DqMoveHead, DqCasFails, DqFree, Goto, Again, Return, Threads
  <2> QED BY <1>3, <2>3 DEF Reserve, Goto, Threads
<1> DEFINE S == {n \in Nodes : kind[n] = "list" /\ n # head.node}
           R == Reserved
           U == {u \in Threads : pc[u] \in {"size", "unreserve"}}
<1>5. Len(Waiting) = Cardinality(S)
  BY <1>2, WaitingCount
<1>6. Cardinality(S) <= Cardinality(Linked(kind, holder))
  <2>1. S \subseteq Linked(kind, holder)
    BY DEF Linked
  <2> HIDE DEF S
  <2> QED BY <2>1, SetsFinite, FS_Subset
<1>7. Cardinality(Counting) = Cardinality(R) + Cardinality(U)
  <2>1. R \subseteq Threads /\ U \subseteq Threads /\ R \intersect U = {}
    BY DEF Reserved
  <2>2. Counting = R \union U
    BY DEF Counting, Counted, Reserved
  <2> HIDE DEF R, U
  <2>3. IsFiniteSet(R) /\ IsFiniteSet(U) /\ Cardinality({}) = 0
    BY <2>1, SetsFinite, FS_Subset, FS_EmptySet
  <2>4. Cardinality(R) \in Nat /\ Cardinality(U) \in Nat
    BY <2>3, FS_CardinalityType
  <2>5. Cardinality(R \union U) = Cardinality(R) + Cardinality(U) - 0
    BY <2>1, <2>3, FS_Union
  <2> QED BY <2>2, <2>4, <2>5
<1>8. /\ Cardinality(Counting) \in Nat /\ Cardinality(Linked(kind, holder)) \in Nat
      /\ size + Cardinality(Counting) = Cardinality(Linked(kind, holder))
  BY <1>2, SetsFinite DEF SizeOK
<1>9. Cardinality(S) \in Nat
  BY <1>5, <1>2, WaitingIs
<1> HIDE DEF S, R, U
<1>10. Cardinality(S) <= Cardinality(R) + Cardinality(U)
  <2>1. Cardinality(Linked(kind, holder)) <= Cardinality(Counting)
    BY <1>3, <1>4, <1>8
  <2>2. Cardinality(S) <= Cardinality(Counting)
    BY <1>6, <1>8, <1>9, <2>1
  <2> QED BY <1>7, <2>2
<1> QED BY <1>5, <1>10 DEF R, U

LEMMA InvAll == IInv => TailAhead /\ NodesApart /\ DequeuedOnce /\ FifoOfOne
BY InvTail, InvApart, InvOnce, InvFifo DEF IInv

\* So few calls of Enqueue that the tail cannot move StampMod - 1 times.
FewCalls == Cardinality(Producers) * MaxEnqueue + 1 < StampMod

\* The tail has moved once at most for every datum sent.
LEMMA InvNoWrap ==
  ASSUME IInv, FewCalls
  PROVE  NoWrap
<1>1. PICK kind, holder, place, top, deep, rank, clock :
        All(kind, holder, place, top, deep, rank, clock)
  BY DEF IInv
<1>2. Core(kind, holder, place, top, deep, rank, clock) /\ DataOK(kind, holder)
  BY <1>1 DEF All
<1> DEFINE A == Len(got)
           f == AllData
           S == Producers \X (1 .. MaxEnqueue)
<1>3. /\ A \in Nat /\ top \in Nat /\ A <= top /\ DOMAIN f = 1 .. top
      /\ \A i \in 1 .. A : f[i] = got[i]
      /\ \A i \in 1 .. top : i > A =>
           \E n \in Nodes : /\ kind[n] = "list" /\ n # head.node
                            /\ place[n] = i /\ f[i] = data[n]
      /\ \A i \in 1 .. top : f[i] \in Sent
  BY <1>2, AllDataIs
<1>4. /\ \A n \in Nodes : Live(kind, holder, n) => data[n] \notin Range(got)
      /\ \A m, n \in Nodes :
           Live(kind, holder, m) /\ Live(kind, holder, n) /\ data[m] = data[n] => m = n
      /\ IsInjective(got)
  BY <1>2, DataParts
<1>5. DOMAIN got = 1 .. A
  BY <1>2, LenProperties DEF Core, TypeOK
<1>6. f \in [1 .. top -> S]
  <2>1. f = [i \in 1 .. top |-> f[i]]
    <3>1. f \in Seq(Data)
      BY <1>2, AllDataIs
    <3>2. f = [i \in DOMAIN f |-> f[i]]
      <4> HIDE DEF f
      <4> QED BY <3>1, LenProperties
    <3> QED BY <1>3, <3>2
  <2>2. \A i \in 1 .. top : f[i] \in S
    BY <1>3 DEF Sent
  <2> HIDE DEF f, S
  <2> QED BY <2>1, <2>2
<1> HIDE DEF A, f
<1>7. ASSUME NEW i \in 1 .. top, NEW j \in 1 .. top, f[i] = f[j] PROVE i = j
  <2>1. \A k \in 1 .. top : ~(k > A) => k \in 1 .. A /\ f[k] = got[k] /\ got[k] \in Range(got)
    <3> TAKE k \in 1 .. top
    <3> HAVE ~(k > A)
    <3>1. k \in 1 .. A
      BY <1>3
    <3> QED BY <1>3, <1>5, <3>1 DEF Range
  <2>2. \A k \in 1 .. top : k > A =>
          \E n \in Nodes : Live(kind, holder, n) /\ place[n] = k /\ f[k] = data[n]
    BY <1>3 DEF Live
  <2>3. CASE ~(i > A) /\ ~(j > A)
    BY <1>4, <1>5, <1>7, <2>1, <2>3 DEF IsInjective
  <2>4. CASE i > A /\ j > A
    BY <1>4, <1>7, <2>2, <2>4
  <2>5. CASE i > A /\ ~(j > A)
    BY <1>4, <1>7, <2>1, <2>2, <2>5
  <2>6. CASE ~(i > A) /\ j > A
    BY <1>4, <1>7, <2>1, <2>2, <2>6
  <2> QED BY <2>3, <2>4, <2>5, <2>6
<1>8. IsFiniteSet(S) /\ Cardinality(S) = Cardinality(Producers) * MaxEnqueue
  <2>1. MaxEnqueue \in Nat /\ IsFiniteSet(Producers)
    BY ConstantAssumption
  <2>2. Cardinality(1 .. MaxEnqueue) = IF 1 > MaxEnqueue THEN 0 ELSE MaxEnqueue - 1 + 1
    BY <2>1, FS_Interval
  <2>3. Cardinality(1 .. MaxEnqueue) = MaxEnqueue /\ IsFiniteSet(1 .. MaxEnqueue)
    BY <2>1, <2>2, FS_Interval
  <2> QED BY <2>1, <2>3, FS_Product
<1> HIDE DEF S
<1>9. top <= Cardinality(S)
  <2>1. f \in Injection(1 .. top, S)
    BY <1>6, <1>7 DEF Injection, IsInjective
  <2>2. Cardinality(1 .. top) = IF 1 > top THEN 0 ELSE top - 1 + 1
    BY <1>3, FS_Interval
  <2>3. Cardinality(1 .. top) = top
    BY <1>3, <2>2
  <2> QED BY <1>8, <2>1, <2>3, FS_Injection
<1>10. tail.stamp \in Nat /\ tail.stamp <= top
  BY <1>2 DEF Core, TypeOK, ListOK
<1>11. Cardinality(S) + 1 < StampMod /\ Cardinality(S) \in Nat /\ StampMod \in Nat
  BY <1>8, ConstantAssumption, FS_CardinalityType DEF FewCalls
<1> QED BY <1>3, <1>9, <1>10, <1>11 DEF NoWrap

\* The hypothesis of the theorems below holds of every system that makes fewer
\* calls than there are stamps.
THEOREM StampFits ==
  ASSUME FewCalls
  PROVE  Spec => []NoWrap
<1>1. Init => IInv
  BY InitAll
<1>2. IInv => NoWrap
  BY InvNoWrap
<1>3. IInv /\ NoWrap /\ [Next]_vars => IInv'
  BY StepAll, StutterAll DEF Next
<1> QED BY <1>1, <1>2, <1>3, PTL DEF Spec

\* The head never passes the tail, the tail's node is never one that Dequeue
\* has freed, and no null is followed, until the tail's stamp comes round.
THEOREM TailAlwaysAhead == Spec /\ []NoWrap => []TailAhead
BY InvariantHolds, InvAll, PTL

\* A node is in the list, or in the free list once, or in the hands of one
\* Enqueue, until the tail's stamp comes round.
THEOREM NodesAlwaysApart == Spec /\ []NoWrap => []NodesApart
BY InvariantHolds, InvAll, PTL

\* No datum leaves twice, none is lost, and size is the number that waits when
\* no call is under way, until the tail's stamp comes round.
THEOREM AlwaysDequeuedOnce == Spec /\ []NoWrap => []DequeuedOnce
BY InvariantHolds, InvAll, PTL

\* With one producer the queue is first in, first out, until the tail's stamp
\* comes round.
THEOREM OneProducerFifo == Spec /\ []NoWrap => []FifoOfOne
BY InvariantHolds, InvAll, PTL

\* Dequeue says empty only if every datum that waits is spoken for, is not
\* counted yet, or another Dequeue is about to say empty too, until the tail's
\* stamp comes round.
THEOREM EmptyAlwaysSpokenFor == Spec /\ []NoWrap => EmptyIsSpokenFor
<1> DEFINE Spoken ==
      \A t \in Consumers :
        pc[t] = "idle" /\ pc'[t] = "unreserve" =>
          Len(Waiting) <= Cardinality(Reserved)
                          + Cardinality({u \in Threads : pc[u] \in {"size", "unreserve"}})
<1>1. IInv /\ [Next]_vars => Spoken
  BY EmptyStep
<1>2. EmptyIsSpokenFor <=> [][Spoken]_vars
  BY PTL DEF EmptyIsSpokenFor
<1> HIDE DEF Spoken
<1>3. Spec /\ []NoWrap => [][Spoken]_vars
  BY <1>1, InvariantHolds, PTL DEF Spec
<1> QED BY <1>2, <1>3

=============================================================================
