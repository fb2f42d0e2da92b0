------------------------ MODULE LockFreeStackProofs ------------------------
(***************************************************************************)
(* Theorems about LockFreeStack, for any set of threads, any number of     *)
(* nodes and any number of calls.  The stamps protect a list only while    *)
(* fewer than StampMod of them (2^17 in the code) have been drawn from its *)
(* counter, so NoWrap is the premise of every safety property.             *)
(***************************************************************************)
EXTENDS LockFreeStack, SequenceTheorems, TLAPS

(***************************************************************************)
(* Lemmas about sequences: what a push and a pop do to the elements.       *)
(***************************************************************************)

\* Append keeps every element and adds one: what an insert does to the
\* history of a list.
LEMMA AppendFacts ==
  ASSUME NEW S, NEW s \in Seq(S), NEW e \in S
  PROVE  /\ Append(s, e) \in Seq(S)
         /\ Append(s, e) # <<>>
         /\ Len(s) \in Nat
         /\ DOMAIN s = 1 .. Len(s)
         /\ DOMAIN Append(s, e) = 1 .. (Len(s) + 1)
         /\ Len(Append(s, e)) = Len(s) + 1
         /\ \A i \in 1 .. Len(s) : Append(s, e)[i] = s[i]
         /\ Append(s, e)[Len(s) + 1] = e
<1>1. Append(s, e) \in Seq(S)
  BY AppendProperties
<1>2. DOMAIN Append(s, e) = 1 .. Len(Append(s, e))
  BY <1>1, LenProperties
<1>3. Len(s) \in Nat /\ DOMAIN s = 1 .. Len(s)
  BY LenProperties
<1>4. QED
  BY <1>1, <1>2, <1>3, AppendProperties

\* Dropping the last element keeps the others: what a remove does.
LEMMA FrontFacts ==
  ASSUME NEW S, NEW s \in Seq(S)
  PROVE  LET f == SubSeq(s, 1, Len(s) - 1) IN
         /\ f \in Seq(S)
         /\ Len(s) \in Nat
         /\ DOMAIN s = 1 .. Len(s)
         /\ Len(s) > 0 => Len(f) = Len(s) - 1
         /\ DOMAIN f = 1 .. Len(f)
         /\ \A i \in 1 .. (Len(s) - 1) : f[i] = s[i]
<1> DEFINE f == SubSeq(s, 1, Len(s) - 1)
<1>1. Len(s) \in Nat /\ DOMAIN s = 1 .. Len(s)
  BY LenProperties
<1>2. \A i \in 1 .. (Len(s) - 1) : s[i] \in S
  BY <1>1, ElementOfSeq
<1>3. /\ f \in Seq(S)
      /\ Len(f) = IF 1 <= Len(s) - 1 THEN (Len(s) - 1) - 1 + 1 ELSE 0
      /\ \A i \in 1 .. ((Len(s) - 1) - 1 + 1) : f[i] = s[1 + i - 1]
  BY <1>1, <1>2, SubSeqProperties
<1>4. DOMAIN f = 1 .. Len(f)
  BY <1>3, LenProperties
<1>5. \A i \in 1 .. (Len(s) - 1) : f[i] = s[i]
  BY <1>1, <1>3
<1>6. Len(s) > 0 => Len(f) = Len(s) - 1
  BY <1>1, <1>3
<1> QED
  BY <1>1, <1>3, <1>4, <1>5, <1>6

(***************************************************************************)
(* Types.                                                                  *)
(***************************************************************************)

TypeInv == TypeOK /\ LocalsOK

\* ListOf names one of the two lists.
LEMMA ListOfType == \A o : ListOf(o) \in Lists
  BY DEF ListOf, Lists

\* Every step of the code keeps its variables in their types, and a thread
\* that reads a node's field has a node to read.
LEMMA TypeInvStep == TypeInv /\ [Next]_vars => TypeInv'
<1> SUFFICES ASSUME TypeInv, [Next]_vars
             PROVE  TypeInv'
  OBVIOUS
<1> USE ConstantAssumption, ListOfType
    DEF TypeInv, TypeOK, LocalsOK, Holds, Words, Word, NoWord, Inserts, Removes
<1>1. ASSUME NEW t \in Threads, NEW v \in Values, CallPush(t, v)
      PROVE  TypeInv'
  BY <1>1 DEF CallPush, Enter, shared
<1>2. ASSUME NEW t \in Threads, CallPop(t)
      PROVE  TypeInv'
  BY <1>2 DEF CallPop, Enter, shared
<1>3. ASSUME NEW t \in Threads, Draw(t)
      PROVE  TypeInv'
  BY <1>3 DEF Draw
<1>4. ASSUME NEW t \in Threads, LinkTop(t)
      PROVE  TypeInv'
  BY <1>4 DEF LinkTop
<1>5. ASSUME NEW t \in Threads, ReadTop(t)
      PROVE  TypeInv'
  BY <1>5 DEF ReadTop, shared
<1>6. ASSUME NEW t \in Threads, NewNode(t)
      PROVE  TypeInv'
  BY <1>6 DEF NewNode
<1>7. ASSUME NEW t \in Threads, PopEmpty(t)
      PROVE  TypeInv'
  BY <1>7 DEF PopEmpty, Return, shared
<1>8. ASSUME NEW t \in Threads, ReadNext(t)
      PROVE  TypeInv'
  BY <1>8 DEF ReadNext, shared
<1>9. ASSUME NEW t \in Threads, InsertNode(t)
      PROVE  TypeInv'
  BY <1>9, AppendFacts DEF InsertNode
<1>10. ASSUME NEW t \in Threads, RemoveNode(t)
      PROVE  TypeInv'
  BY <1>10, FrontFacts DEF RemoveNode
<1>11. ASSUME NEW t \in Threads, Retry(t)
      PROVE  TypeInv'
  BY <1>11 DEF Retry, shared
<1>12. ASSUME NEW t \in Threads, CountAlloc(t)
      PROVE  TypeInv'
  <2>1. link' \in [Lists -> [Nodes -> Nodes \union {Null}]]
    BY <1>12 DEF CountAlloc, Lists
  <2>2. data' \in [Nodes -> Values \union {NoValue}]
    BY <1>12 DEF CountAlloc
  <2>3. use_count' \in Int
    BY <1>12 DEF CountAlloc
  <2>4. UNCHANGED <<unique, top, node_count, heap, val, list, node>>
    BY <1>12 DEF CountAlloc, Enter
  <2>5. /\ op' \in [Threads -> {"None"} \union Inserts \union Removes]
        /\ pc' \in [Threads -> {"idle", "draw", "read", "next", "cas", "count"}]
        /\ stamp' \in [Threads -> 0 .. StampMod - 1]
        /\ copy' \in [Threads -> Words]
        /\ next' \in [Threads -> Nodes \union {Null}]
    BY <1>12 DEF CountAlloc, Enter
  <2>6. LocalsOK'
    BY <1>12 DEF CountAlloc, Enter
  <2> QED
    BY <2>1, <2>2, <2>3, <2>4, <2>5, <2>6
<1>13. ASSUME NEW t \in Threads, CountPush(t)
      PROVE  TypeInv'
  BY <1>13 DEF CountPush, Return
<1>14. ASSUME NEW t \in Threads, CountPop(t)
      PROVE  TypeInv'
  BY <1>14 DEF CountPop, Enter
<1>15. ASSUME NEW t \in Threads, CountFree(t)
      PROVE  TypeInv'
  BY <1>15 DEF CountFree, Return
<1>16. CASE UNCHANGED vars
  BY <1>16 DEF vars, shared, locals
<1> QED
  BY <1>1, <1>2, <1>3, <1>4, <1>5, <1>6, <1>7, <1>8, <1>9, <1>10, <1>11,
     <1>12, <1>13, <1>14, <1>15, <1>16
     DEF Next, Step, Finished

(***************************************************************************)
(* The inductive step.                                                     *)
(***************************************************************************)

\* A counter never goes back: a list that has not run out of stamps now had
\* not run out before.
LEMMA UniqueMonotonic ==
  ASSUME TypeInv, [Next]_vars, NoWrap'
  PROVE  NoWrap
<1> USE DEF NoWrap
<1>1. ASSUME NEW t \in Threads, Draw(t)
      PROVE  NoWrap
  <2> SUFFICES ASSUME NEW l \in Lists
               PROVE  unique[l] < StampMod
    OBVIOUS
  <2>1. unique'[l] = unique[l] \/ unique'[l] = unique[l] + 1
    BY <1>1, ListOfType DEF Draw, TypeInv, TypeOK
  <2>2. unique[l] \in Nat /\ unique'[l] < StampMod /\ StampMod \in Nat
    BY ConstantAssumption DEF TypeInv, TypeOK
  <2> QED
    BY <2>1, <2>2
<1>2. ASSUME unique' = unique
      PROVE  NoWrap
  BY <1>2
<1>3. (\E t \in Threads : Draw(t)) \/ unique' = unique
  BY DEF Next, Step, Finished, CallPush, CallPop, LinkTop, ReadTop, NewNode,
         PopEmpty, ReadNext, InsertNode, RemoveNode, Retry, CountAlloc,
         CountPush, CountPop, CountFree, vars, shared
<1> QED
  BY <1>1, <1>2, <1>3

\* A step that leaves the lists and their pointers alone keeps the chains.
LEMMA LinkedFrame ==
  ASSUME Linked, UNCHANGED <<top, link, list>>
  PROVE  Linked'
BY DEF Linked

\* A step that moves no node keeps every node in its place.
LEMMA OnePlaceFrame ==
  ASSUME OnePlace, UNCHANGED <<list, node, heap>>
  PROVE  OnePlace'
BY DEF OnePlace, OnePlaceOnLists, HeldOffLists, OneHolder, NoneLost

\* A step that takes a thread out of its retry loop, or keeps it out, and
\* leaves the shared words alone disturbs no pending stamp and no pointer
\* read earlier.
LEMMA LeaveLoop ==
  ASSUME Intact, NEW t \in Threads,
         UNCHANGED <<unique, top, link>>,
         pc'[t] \notin {"read", "next", "cas"},
         \A u \in Threads \ {t} :
           /\ op'[u] = op[u] /\ pc'[u] = pc[u] /\ node'[u] = node[u]
           /\ stamp'[u] = stamp[u] /\ copy'[u] = copy[u] /\ next'[u] = next[u]
  PROVE  LinkedToCopy' /\ StampsFresh' /\ NoStaleNext'
<1> USE DEF Intact
<1>1. LinkedToCopy'
  BY DEF LinkedToCopy
<1>2. StampsFresh'
  BY DEF StampsFresh, Pending, HasCopy
<1>3. NoStaleNext'
  BY DEF NoStaleNext, HeadUnchanged
<1> QED
  BY <1>1, <1>2, <1>3

\* The last element of a sequence that is not empty is one of its elements.
LEMMA LastInDomain ==
  ASSUME NEW S, NEW s \in Seq(S), s # <<>>
  PROVE  Len(s) \in DOMAIN s
BY EmptySeq, LenProperties

\* The heart of the proof: no step of Push, Pop, Alloc or Free breaks a
\* chain, duplicates or loses a node, reuses a pending stamp, or leaves a
\* stale pointer behind that a compare-exchange would still accept.
LEMMA IntactStep ==
  ASSUME IInv, [Next]_vars, NoWrap'
  PROVE  Intact'
<1>0. TypeInv /\ TypeInv' /\ NoWrap /\ Intact
  BY TypeInvStep, UniqueMonotonic DEF IInv, TypeInv
<1>1. ASSUME NEW t \in Threads, NEW v \in Values, CallPush(t, v)
      PROVE  Intact'
  <2>1. Linked' /\ OnePlace'
    BY <1>0, <1>1, LinkedFrame, OnePlaceFrame
       DEF Intact, CallPush, Enter, shared
  <2>2. LinkedToCopy' /\ StampsFresh' /\ NoStaleNext'
    BY <1>0, <1>1, LeaveLoop
       DEF CallPush, Enter, shared, TypeInv, TypeOK
  <2> QED
    BY <2>1, <2>2 DEF Intact
<1>2. ASSUME NEW t \in Threads, CallPop(t)
      PROVE  Intact'
  <2>1. Linked' /\ OnePlace'
    BY <1>0, <1>2, LinkedFrame, OnePlaceFrame
       DEF Intact, CallPop, Enter, shared
  <2>2. LinkedToCopy' /\ StampsFresh' /\ NoStaleNext'
    BY <1>0, <1>2, LeaveLoop
       DEF CallPop, Enter, shared, TypeInv, TypeOK
  <2> QED
    BY <2>1, <2>2 DEF Intact
<1>3. ASSUME NEW t \in Threads, Draw(t)
      PROVE  Intact'
  <2>1. Linked' /\ OnePlace'
    BY <1>0, <1>3, LinkedFrame, OnePlaceFrame DEF Intact, Draw
  <2>2. LinkedToCopy'
    BY <1>0, <1>3 DEF Intact, Draw, LinkedToCopy, TypeInv, TypeOK
  <2>3. NoStaleNext'
    BY <1>0, <1>3 DEF Intact, Draw, NoStaleNext, HeadUnchanged, TypeInv, TypeOK
  <2>4. StampsFresh'
    <3> DEFINE l == ListOf(op[t])
    <3>1. l \in Lists /\ unique[l] \in Nat /\ unique' = [unique EXCEPT ![l] = @ + 1]
      BY <1>0, <1>3, ListOfType DEF Draw, TypeInv, TypeOK
    <3>2. unique'[l] = unique[l] + 1 /\ unique'[l] < StampMod
      BY <1>0, <3>1 DEF NoWrap, TypeInv, TypeOK
    <3>3. stamp'[t] = unique[l] + 1
      <4>1. stamp'[t] = (unique[l] + 1) % StampMod
        BY <1>0, <1>3 DEF Draw, TypeInv, TypeOK
      <4> QED
        BY <4>1, <3>1, <3>2, ConstantAssumption
    <3>4. /\ UNCHANGED <<top, op, copy>>
          /\ pc' = [pc EXCEPT ![t] = "read"] /\ pc[t] = "draw"
          /\ \A u \in Threads \ {t} : stamp'[u] = stamp[u]
      BY <1>0, <1>3 DEF Draw, TypeInv, TypeOK
    <3>5. \A m \in Lists, u \in Threads :
             /\ HasCopy(u, m)' <=> HasCopy(u, m)
             /\ u # t => (Pending(u, m)' <=> Pending(u, m))
             /\ Pending(t, m)' <=> m = l
      BY <1>0, <3>4 DEF Pending, HasCopy, TypeInv, TypeOK
    <3>6. \A m \in Lists : unique[m] \in Nat /\ top[m].stamp \in Nat
      BY <1>0, ConstantAssumption DEF TypeInv, TypeOK, Words
    <3>7. \A u \in Threads : stamp[u] \in Nat /\ copy[u].stamp \in Nat
      BY <1>0, ConstantAssumption DEF TypeInv, TypeOK, Words
    <3>8. \A m \in Lists \ {l} : unique'[m] = unique[m]
      BY <1>0, <3>1 DEF TypeInv, TypeOK
    <3> HIDE DEF l
    <3> SUFFICES ASSUME NEW m \in Lists
                 PROVE  StampsFresh!(m)'
      BY DEF StampsFresh
    <3>9. CASE m = l
      BY <1>0, <3>1, <3>2, <3>3, <3>4, <3>5, <3>6, <3>7, <3>9
         DEF Intact, StampsFresh
    <3>10. CASE m # l
      BY <1>0, <3>4, <3>5, <3>8, <3>10 DEF Intact, StampsFresh
    <3> QED
      BY <3>9, <3>10
  <2> QED
    BY <2>1, <2>2, <2>3, <2>4 DEF Intact
<1>4. ASSUME NEW t \in Threads, LinkTop(t)
      PROVE  Intact'
  <2> DEFINE l == ListOf(op[t])
  <2>1. /\ l \in Lists
        /\ node[t] \in Nodes
        /\ op[t] \in Inserts
        /\ pc[t] = "read" /\ pc' = [pc EXCEPT ![t] = "cas"]
        /\ copy' = [copy EXCEPT ![t] = top[l]]
        /\ UNCHANGED <<unique, top, op, node, stamp, next, list, heap>>
    BY <1>0, <1>4, ListOfType
       DEF LinkTop, TypeInv, TypeOK, LocalsOK, Holds, Inserts
  <2>2. link'[l][node[t]] = top[l].node
    BY <1>0, <1>4, <2>1 DEF LinkTop, TypeInv, TypeOK
  <2>3. \A m \in Lists, n \in Nodes :
          m # l \/ n # node[t] => link'[m][n] = link[m][n]
    BY <1>0, <1>4, <2>1 DEF LinkTop, TypeInv, TypeOK
  <2>4. \A m \in Lists : \A i \in DOMAIN list[m] :
          list[m][i] \in Nodes /\ list[m][i] # node[t]
    BY <1>0, <2>1, ElementOfSeq, LenProperties
       DEF Intact, OnePlace, HeldOffLists, TypeInv, TypeOK
  <2> HIDE DEF l
  <2>5. Linked'
    <3> SUFFICES ASSUME NEW m \in Lists
                 PROVE  /\ top[m].node = IF list[m] = <<>> THEN Null
                                         ELSE list[m][Len(list[m])]
                        /\ \A i \in DOMAIN list[m] :
                             link'[m][list[m][i]] =
                               IF i = 1 THEN Null ELSE list[m][i - 1]
      BY <2>1 DEF Linked
    <3>1. \A i \in DOMAIN list[m] : link'[m][list[m][i]] = link[m][list[m][i]]
      BY <2>3, <2>4
    <3> QED
      BY <1>0, <3>1 DEF Intact, Linked
  <2>6. OnePlace'
    BY <1>0, <2>1, OnePlaceFrame DEF Intact
  <2>7. LinkedToCopy'
    <3> SUFFICES ASSUME NEW u \in Threads, pc'[u] = "cas", op[u] \in Inserts
                 PROVE  link'[ListOf(op[u])][node[u]] = copy'[u].node
      BY <2>1 DEF LinkedToCopy
    <3>1. CASE u = t
      BY <1>0, <2>1, <2>2, <3>1 DEF l, TypeInv, TypeOK
    <3>2. CASE u # t
      <4>1. pc[u] = "cas" /\ copy'[u] = copy[u]
        BY <1>0, <2>1, <3>2 DEF TypeInv, TypeOK
      <4>2. node[u] \in Nodes
        BY <1>0, <4>1 DEF TypeInv, TypeOK, LocalsOK, Holds
      <4>3. node[u] # node[t]
        BY <1>0, <2>1, <3>2, <4>2, ConstantAssumption
           DEF Intact, OnePlace, OneHolder
      <4> QED
        BY <1>0, <2>3, <4>1, <4>2, <4>3, ListOfType
           DEF Intact, LinkedToCopy
    <3> QED
      BY <3>1, <3>2
  <2>8. StampsFresh'
    BY <1>0, <2>1
       DEF Intact, StampsFresh, Pending, HasCopy, TypeInv, TypeOK, l
  <2>9. NoStaleNext'
    <3> SUFFICES ASSUME NEW u \in Threads, pc'[u] = "cas", op[u] \in Removes,
                        copy'[u] = top[ListOf(op[u])]
                 PROVE  next[u] = link'[ListOf(op[u])][copy'[u].node]
      BY <2>1 DEF NoStaleNext, HeadUnchanged
    <3> DEFINE m == ListOf(op[u])
    <3>1. u # t
      BY <2>1 DEF Inserts, Removes
    <3>2. pc[u] = "cas" /\ copy'[u] = copy[u] /\ m \in Lists
      BY <1>0, <2>1, <3>1, ListOfType DEF TypeInv, TypeOK
    <3>3. copy[u].node \in Nodes
      BY <1>0, <3>2 DEF TypeInv, TypeOK, LocalsOK, Words
    <3>4. \E i \in DOMAIN list[m] : copy[u].node = list[m][i]
      <4>1. copy[u].node = top[m].node /\ copy[u].node # Null
        BY <3>2, <3>3, ConstantAssumption
      <4>2. list[m] # <<>> /\ copy[u].node = list[m][Len(list[m])]
        BY <1>0, <3>2, <4>1 DEF Intact, Linked
      <4>3. Len(list[m]) \in DOMAIN list[m]
        BY <1>0, <3>2, <4>2, LastInDomain DEF TypeInv, TypeOK
      <4> QED
        BY <4>2, <4>3
    <3>5. copy[u].node # node[t]
      BY <2>4, <3>2, <3>4
    <3> QED
      BY <1>0, <2>3, <3>2, <3>3, <3>5 DEF Intact, NoStaleNext, HeadUnchanged
  <2> QED
    BY <2>5, <2>6, <2>7, <2>8, <2>9 DEF Intact
<1>5. ASSUME NEW t \in Threads, ReadTop(t)
      PROVE  Intact'
  <2>1. Linked' /\ OnePlace'
    BY <1>0, <1>5, LinkedFrame, OnePlaceFrame DEF Intact, ReadTop, shared
  <2>2. LinkedToCopy'
    BY <1>0, <1>5
       DEF Intact, ReadTop, shared, LinkedToCopy, TypeInv, TypeOK
  <2>3. NoStaleNext'
    BY <1>0, <1>5
       DEF Intact, ReadTop, shared, NoStaleNext, HeadUnchanged, TypeInv, TypeOK
  <2>4. StampsFresh'
    BY <1>0, <1>5, ListOfType
       DEF Intact, ReadTop, shared, StampsFresh, Pending, HasCopy, TypeInv, TypeOK
  <2> QED
    BY <2>1, <2>2, <2>3, <2>4 DEF Intact
<1>6. ASSUME NEW t \in Threads, NewNode(t)
      PROVE  Intact'
  <2>1. PICK n \in Nodes \ heap : /\ heap' = heap \union {n}
                                  /\ node' = [node EXCEPT ![t] = n]
    BY <1>0, <1>6 DEF NewNode, TypeInv, TypeOK
  <2>2. node[t] = Null
    BY <1>0, <1>6 DEF NewNode, TypeInv, LocalsOK, Holds, Inserts
  <2>3. Linked'
    BY <1>0, <1>6, LinkedFrame DEF Intact, NewNode
  <2>4. \A m \in Lists : \A i \in DOMAIN list[m] : list[m][i] \in heap
    BY <1>0, ElementOfSeq, LenProperties
       DEF Intact, OnePlace, NoneLost, TypeInv, TypeOK
  <2>5. \A u \in Threads : node[u] # n
    BY <1>0, <2>1 DEF Intact, OnePlace, NoneLost
  <2>6. list' = list
    BY <1>6 DEF NewNode
  <2>7. OnePlace'
    <3>1. OnePlaceOnLists'
      BY <1>0, <2>6 DEF Intact, OnePlace, OnePlaceOnLists
    <3>2. HeldOffLists'
      BY <1>0, <2>1, <2>4, <2>6
         DEF Intact, OnePlace, HeldOffLists, TypeInv, TypeOK
    <3>3. OneHolder'
      BY <1>0, <2>1, <2>5 DEF Intact, OnePlace, OneHolder, TypeInv, TypeOK
    <3>4. NoneLost'
      <4>1. \A x \in Nodes : (\E u \in Threads : node'[u] = x)
                               <=> x = n \/ \E u \in Threads : node[u] = x
        BY <1>0, <2>1, <2>2, ConstantAssumption DEF TypeInv, TypeOK
      <4> QED
        BY <1>0, <2>1, <2>6, <4>1 DEF Intact, OnePlace, NoneLost
    <3> QED
      BY <3>1, <3>2, <3>3, <3>4 DEF OnePlace
  <2>8. LinkedToCopy' /\ StampsFresh' /\ NoStaleNext'
    BY <1>0, <1>6, LeaveLoop DEF NewNode, TypeInv, TypeOK
  <2> QED
    BY <2>3, <2>7, <2>8 DEF Intact
<1>7. ASSUME NEW t \in Threads, PopEmpty(t)
      PROVE  Intact'
  <2>1. node' = node
    BY <1>0, <1>7
       DEF PopEmpty, Return, TypeInv, TypeOK, LocalsOK, Holds, Inserts
  <2>2. Linked' /\ OnePlace'
    BY <1>0, <1>7, <2>1, LinkedFrame, OnePlaceFrame DEF Intact, PopEmpty, shared
  <2>3. LinkedToCopy' /\ StampsFresh' /\ NoStaleNext'
    BY <1>0, <1>7, LeaveLoop
       DEF PopEmpty, Return, shared, TypeInv, TypeOK
  <2> QED
    BY <2>2, <2>3 DEF Intact
<1>8. ASSUME NEW t \in Threads, ReadNext(t)
      PROVE  Intact'
  <2>1. Linked' /\ OnePlace'
    BY <1>0, <1>8, LinkedFrame, OnePlaceFrame DEF Intact, ReadNext, shared
  <2>2. LinkedToCopy'
    BY <1>0, <1>8
       DEF Intact, ReadNext, shared, LinkedToCopy, TypeInv, TypeOK, LocalsOK,
           Inserts, Removes
  <2>3. NoStaleNext'
    BY <1>0, <1>8
       DEF Intact, ReadNext, shared, NoStaleNext, HeadUnchanged, TypeInv, TypeOK
  <2>4. StampsFresh'
    BY <1>0, <1>8
       DEF Intact, ReadNext, shared, StampsFresh, Pending, HasCopy, TypeInv, TypeOK
  <2> QED
    BY <2>1, <2>2, <2>3, <2>4 DEF Intact
<1>9. ASSUME NEW t \in Threads, InsertNode(t)
      PROVE  Intact'
  <2> DEFINE l == ListOf(op[t])
             n == node[t]
  <2>1. /\ l \in Lists /\ n \in Nodes
        /\ pc[t] = "cas" /\ op[t] \in Inserts /\ pc' = [pc EXCEPT ![t] = "count"]
        /\ copy[t] = top[l]
        /\ top' = [top EXCEPT ![l] = Word(stamp[t], n)]
        /\ node' = [node EXCEPT ![t] = Null]
        /\ UNCHANGED <<unique, link, heap, op, stamp, copy, next>>
    BY <1>0, <1>9, ListOfType
       DEF InsertNode, HeadUnchanged, TypeInv, TypeOK, LocalsOK, Holds, Inserts
  <2>2. link[l][n] = top[l].node
    BY <1>0, <2>1 DEF Intact, LinkedToCopy
  <2>3. /\ list'[l] = Append(list[l], n)
        /\ \A m \in Lists : m # l => list'[m] = list[m]
    BY <1>0, <1>9, <2>1 DEF InsertNode, TypeInv, TypeOK
  <2>4. /\ top'[l].stamp = stamp[t] /\ top'[l].node = n
        /\ \A m \in Lists : m # l => top'[m] = top[m]
    BY <1>0, <2>1 DEF Word, TypeInv, TypeOK
  <2>5. list[l] \in Seq(Nodes)
    BY <1>0, <2>1 DEF TypeInv, TypeOK
  <2>6. /\ Len(list[l]) \in Nat
        /\ DOMAIN list[l] = 1 .. Len(list[l])
        /\ DOMAIN list'[l] = 1 .. (Len(list[l]) + 1)
        /\ Len(list'[l]) = Len(list[l]) + 1
        /\ list'[l] # <<>>
        /\ list'[l][Len(list[l]) + 1] = n
        /\ \A i \in 1 .. Len(list[l]) : list'[l][i] = list[l][i]
    <3>1. list[l] \in Seq(Nodes) /\ n \in Nodes /\ list'[l] = Append(list[l], n)
      BY <2>1, <2>3, <2>5
    <3> HIDE DEF l, n
    <3> QED
      BY <3>1, AppendFacts
  <2>7. \A m \in Lists : \A i \in DOMAIN list[m] : list[m][i] # n
    BY <1>0 DEF Intact, OnePlace, HeldOffLists
  <2>8. \A u \in Threads : u # t => node[u] # n
    BY <1>0, <2>1, ConstantAssumption DEF Intact, OnePlace, OneHolder
  <2>9. /\ node'[t] = Null
        /\ \A u \in Threads : u # t => node'[u] = node[u] /\ pc'[u] = pc[u]
        /\ pc'[t] = "count"
    BY <1>0, <2>1 DEF TypeInv, TypeOK
  <2>10. \A u \in Threads, m \in Lists :
           /\ Pending(u, m)' => u # t /\ Pending(u, m)
           /\ HasCopy(u, m)' => u # t /\ HasCopy(u, m)
    BY <2>1, <2>9 DEF Pending, HasCopy
  <2>11. Pending(t, l)
    BY <2>1 DEF Pending
  <2> HIDE DEF l, n
  <2>12. Linked'
    <3> SUFFICES ASSUME NEW m \in Lists
                 PROVE  /\ top'[m].node = IF list'[m] = <<>> THEN Null
                                          ELSE list'[m][Len(list'[m])]
                        /\ \A i \in DOMAIN list'[m] :
                             link[m][list'[m][i]] =
                               IF i = 1 THEN Null ELSE list'[m][i - 1]
      BY <2>1 DEF Linked
    <3>1. CASE m # l
      <4>1. list'[m] = list[m] /\ top'[m] = top[m]
        BY <2>3, <2>4, <3>1
      <4>2. Linked!(m)
        BY <1>0 DEF Intact, Linked
      <4> QED
        BY <4>1, <4>2
    <3>2. CASE m = l
      <4>1. top'[m].node = IF list'[m] = <<>> THEN Null
                           ELSE list'[m][Len(list'[m])]
        BY <2>4, <2>6, <3>2
      <4> SUFFICES ASSUME NEW i \in 1 .. (Len(list[l]) + 1)
                   PROVE  link[l][list'[l][i]] =
                            IF i = 1 THEN Null ELSE list'[l][i - 1]
        BY <2>6, <3>2, <4>1
      <4>2. CASE i = Len(list[l]) + 1
        <5>1. list[l] = <<>> <=> Len(list[l]) = 0
          BY <2>5, EmptySeq
        <5>2. top[l].node = IF list[l] = <<>> THEN Null
                            ELSE list[l][Len(list[l])]
          BY <1>0, <2>1 DEF Intact, Linked
        <5> QED
          BY <2>2, <2>6, <4>2, <5>1, <5>2
      <4>3. CASE i # Len(list[l]) + 1
        <5>1. i \in 1 .. Len(list[l])
          BY <2>6, <4>3
        <5>2. link[l][list[l][i]] = IF i = 1 THEN Null ELSE list[l][i - 1]
          BY <1>0, <2>1, <2>6, <5>1 DEF Intact, Linked
        <5>3. i # 1 => i - 1 \in 1 .. Len(list[l])
          BY <2>6, <5>1
        <5> QED
          BY <2>6, <5>1, <5>2, <5>3
      <4> QED
        BY <4>2, <4>3
    <3> QED
      BY <3>1, <3>2
  <2>13. OnePlace'
    <3>1. \A m \in Lists : \A i \in DOMAIN list'[m] :
            \/ i \in DOMAIN list[m] /\ list'[m][i] = list[m][i]
            \/ m = l /\ i = Len(list[l]) + 1 /\ list'[m][i] = n
      BY <2>3, <2>6
    <3>2. \A m \in Lists : \A i \in DOMAIN list[m] :
            i \in DOMAIN list'[m] /\ list'[m][i] = list[m][i]
      BY <2>3, <2>6
    <3>3. OnePlaceOnLists'
      BY <1>0, <2>7, <3>1 DEF Intact, OnePlace, OnePlaceOnLists
    <3>4. HeldOffLists'
      <4>1. \A m \in Lists : \A i \in DOMAIN list'[m] : list'[m][i] # Null
        BY <1>0, <2>1, <3>1, ElementOfSeq, LenProperties, ConstantAssumption
           DEF TypeInv, TypeOK
      <4> QED
        BY <1>0, <2>8, <2>9, <3>1, <4>1 DEF Intact, OnePlace, HeldOffLists
    <3>5. OneHolder'
      BY <1>0, <2>9 DEF Intact, OnePlace, OneHolder
    <3>6. NoneLost'
      <4> SUFFICES ASSUME NEW x \in Nodes
                   PROVE  x \in heap <=>
                            \/ \E u \in Threads : node'[u] = x
                            \/ \E m \in Lists :
                                 \E i \in DOMAIN list'[m] : list'[m][i] = x
        BY <2>1 DEF NoneLost
      <4>1. x \in heap <=>
              \/ \E u \in Threads : node[u] = x
              \/ \E m \in Lists : \E i \in DOMAIN list[m] : list[m][i] = x
        BY <1>0 DEF Intact, OnePlace, NoneLost
      <4>2. CASE x = n
        BY <2>1, <2>6, <4>1, <4>2 DEF n
      <4>3. CASE x # n
        <5>1. (\E u \in Threads : node'[u] = x) <=> (\E u \in Threads : node[u] = x)
          BY <2>9, <4>3, ConstantAssumption DEF n
        <5> QED
          BY <3>1, <3>2, <4>1, <4>3, <5>1
      <4> QED
        BY <4>2, <4>3
    <3> QED
      BY <3>3, <3>4, <3>5, <3>6 DEF OnePlace
  <2>14. LinkedToCopy'
    BY <1>0, <2>1, <2>9 DEF Intact, LinkedToCopy
  <2>15. StampsFresh'
    BY <1>0, <2>1, <2>4, <2>10, <2>11 DEF Intact, StampsFresh
  <2>16. NoStaleNext'
    <3> SUFFICES ASSUME NEW u \in Threads, pc'[u] = "cas", op[u] \in Removes,
                        copy[u] = top'[ListOf(op[u])]
                 PROVE  next[u] = link[ListOf(op[u])][copy[u].node]
      BY <2>1 DEF NoStaleNext, HeadUnchanged
    <3>1. u # t /\ pc[u] = "cas"
      BY <2>9
    <3>2. HasCopy(u, ListOf(op[u]))
      BY <3>1 DEF HasCopy
    <3>3. ListOf(op[u]) # l
      BY <1>0, <2>1, <2>4, <2>11, <3>2 DEF Intact, StampsFresh
    <3> QED
      BY <1>0, <2>4, <3>1, <3>3, ListOfType DEF Intact, NoStaleNext, HeadUnchanged
  <2> QED
    BY <2>12, <2>13, <2>14, <2>15, <2>16 DEF Intact
<1>10. ASSUME NEW t \in Threads, RemoveNode(t)
       PROVE  Intact'
  <2> DEFINE l == ListOf(op[t])
             n == copy[t].node
  <2>1. /\ l \in Lists /\ n \in Nodes
        /\ pc[t] = "cas" /\ op[t] \in Removes /\ pc' = [pc EXCEPT ![t] = "count"]
        /\ copy[t] = top[l]
        /\ top' = [top EXCEPT ![l] = Word(stamp[t], next[t])]
        /\ node' = [node EXCEPT ![t] = n] /\ node[t] = Null
        /\ UNCHANGED <<unique, link, heap, op, stamp, copy, next>>
    BY <1>0, <1>10, ListOfType
       DEF RemoveNode, HeadUnchanged, TypeInv, TypeOK, LocalsOK, Holds,
           Inserts, Removes, Words
  <2>2. next[t] = link[l][n]
    BY <1>0, <2>1 DEF Intact, NoStaleNext, HeadUnchanged
  <2>3. /\ list'[l] = SubSeq(list[l], 1, Len(list[l]) - 1)
        /\ \A m \in Lists : m # l => list'[m] = list[m]
    BY <1>0, <1>10, <2>1 DEF RemoveNode, TypeInv, TypeOK
  <2>4. /\ top'[l].stamp = stamp[t] /\ top'[l].node = next[t]
        /\ \A m \in Lists : m # l => top'[m] = top[m]
    BY <1>0, <2>1 DEF Word, TypeInv, TypeOK
  <2>5. list[l] \in Seq(Nodes) /\ list[l] # <<>> /\ n = list[l][Len(list[l])]
    BY <1>0, <2>1, ConstantAssumption DEF Intact, Linked, TypeInv, TypeOK
  <2>6. /\ Len(list[l]) \in Nat /\ Len(list[l]) > 0
        /\ DOMAIN list[l] = 1 .. Len(list[l])
        /\ Len(list'[l]) = Len(list[l]) - 1
        /\ DOMAIN list'[l] = 1 .. (Len(list[l]) - 1)
        /\ list'[l] \in Seq(Nodes)
        /\ \A i \in 1 .. (Len(list[l]) - 1) : list'[l][i] = list[l][i]
    <3>1. Len(list[l]) \in Nat \ {0}
      BY <2>5, EmptySeq
    <3> QED
      BY <2>3, <2>5, <3>1, FrontFacts
  <2>7. \A m \in Lists : \A i \in DOMAIN list[m] :
          list[m][i] = n => m = l /\ i = Len(list[l])
    <3>1. Len(list[l]) \in DOMAIN list[l]
      BY <2>6
    <3> QED
      BY <1>0, <2>1, <2>5, <3>1 DEF Intact, OnePlace, OnePlaceOnLists
  <2>8. \A u \in Threads : node[u] # n
    <3>1. Len(list[l]) \in DOMAIN list[l]
      BY <2>6
    <3> QED
      BY <1>0, <2>1, <2>5, <3>1 DEF Intact, OnePlace, HeldOffLists
  <2>9. /\ node'[t] = n
        /\ \A u \in Threads : u # t => node'[u] = node[u] /\ pc'[u] = pc[u]
        /\ pc'[t] = "count"
    BY <1>0, <2>1 DEF TypeInv, TypeOK
  <2>10. \A u \in Threads, m \in Lists :
           /\ Pending(u, m)' => u # t /\ Pending(u, m)
           /\ HasCopy(u, m)' => u # t /\ HasCopy(u, m)
    BY <2>1, <2>9 DEF Pending, HasCopy
  <2>11. Pending(t, l)
    BY <2>1 DEF Pending
  <2> HIDE DEF l, n
  <2>12. Linked'
    <3> SUFFICES ASSUME NEW m \in Lists
                 PROVE  /\ top'[m].node = IF list'[m] = <<>> THEN Null
                                          ELSE list'[m][Len(list'[m])]
                        /\ \A i \in DOMAIN list'[m] :
                             link[m][list'[m][i]] =
                               IF i = 1 THEN Null ELSE list'[m][i - 1]
      BY <2>1 DEF Linked
    <3>1. CASE m # l
      <4>1. list'[m] = list[m] /\ top'[m] = top[m]
        BY <2>3, <2>4, <3>1
      <4>2. Linked!(m)
        BY <1>0 DEF Intact, Linked
      <4> QED
        BY <4>1, <4>2
    <3>2. CASE m = l
      <4>1. \A i \in 1 .. Len(list[l]) :
              link[l][list[l][i]] = IF i = 1 THEN Null ELSE list[l][i - 1]
        BY <1>0, <2>1, <2>6 DEF Intact, Linked
      <4>2. next[t] = IF Len(list[l]) = 1 THEN Null
                      ELSE list[l][Len(list[l]) - 1]
        <5>1. Len(list[l]) \in 1 .. Len(list[l])
          BY <2>6
        <5> QED
          BY <2>2, <2>5, <4>1, <5>1
      <4>3. list'[l] = <<>> <=> Len(list'[l]) = 0
        BY <2>6, EmptySeq
      <4>4. top'[m].node = IF list'[m] = <<>> THEN Null
                           ELSE list'[m][Len(list'[m])]
        BY <2>4, <2>6, <3>2, <4>2, <4>3
      <4>5. ASSUME NEW i \in DOMAIN list'[m]
            PROVE  link[m][list'[m][i]] = IF i = 1 THEN Null ELSE list'[m][i - 1]
        <5>1. i \in 1 .. (Len(list[l]) - 1) /\ i \in 1 .. Len(list[l])
          BY <2>6, <3>2
        <5>2. i # 1 => i - 1 \in 1 .. (Len(list[l]) - 1)
          BY <2>6, <5>1
        <5> QED
          BY <2>6, <3>2, <4>1, <5>1, <5>2
      <4> QED
        BY <4>4, <4>5
    <3> QED
      BY <3>1, <3>2
  <2>13. OnePlace'
    <3>1. \A m \in Lists : \A i \in DOMAIN list'[m] :
            i \in DOMAIN list[m] /\ list'[m][i] = list[m][i] /\ list[m][i] # n
      BY <2>3, <2>6, <2>7
    <3>2. \A m \in Lists : \A i \in DOMAIN list[m] :
            \/ list[m][i] = n
            \/ i \in DOMAIN list'[m] /\ list'[m][i] = list[m][i]
      BY <2>3, <2>5, <2>6
    <3>3. OnePlaceOnLists'
      BY <1>0, <3>1 DEF Intact, OnePlace, OnePlaceOnLists
    <3>4. HeldOffLists'
      BY <1>0, <2>9, <3>1 DEF Intact, OnePlace, HeldOffLists
    <3>5. OneHolder'
      BY <1>0, <2>8, <2>9 DEF Intact, OnePlace, OneHolder
    <3>6. NoneLost'
      <4> SUFFICES ASSUME NEW x \in Nodes
                   PROVE  x \in heap <=>
                            \/ \E u \in Threads : node'[u] = x
                            \/ \E m \in Lists :
                                 \E i \in DOMAIN list'[m] : list'[m][i] = x
        BY <2>1 DEF NoneLost
      <4>1. x \in heap <=>
              \/ \E u \in Threads : node[u] = x
              \/ \E m \in Lists : \E i \in DOMAIN list[m] : list[m][i] = x
        BY <1>0 DEF Intact, OnePlace, NoneLost
      <4>2. CASE x = n
        <5>1. Len(list[l]) \in DOMAIN list[l]
          BY <2>6
        <5> QED
          BY <2>1, <2>5, <2>9, <4>1, <4>2, <5>1
      <4>3. CASE x # n
        <5>1. (\E u \in Threads : node'[u] = x) <=> (\E u \in Threads : node[u] = x)
          BY <2>1, <2>9, <4>3, ConstantAssumption
        <5> QED
          BY <3>1, <3>2, <4>1, <4>3, <5>1
      <4> QED
        BY <4>2, <4>3
    <3> QED
      BY <3>3, <3>4, <3>5, <3>6 DEF OnePlace
  <2>14. LinkedToCopy'
    BY <1>0, <2>1, <2>9 DEF Intact, LinkedToCopy
  <2>15. StampsFresh'
    BY <1>0, <2>1, <2>4, <2>10, <2>11 DEF Intact, StampsFresh
  <2>16. NoStaleNext'
    <3> SUFFICES ASSUME NEW u \in Threads, pc'[u] = "cas", op[u] \in Removes,
                        copy[u] = top'[ListOf(op[u])]
                 PROVE  next[u] = link[ListOf(op[u])][copy[u].node]
      BY <2>1 DEF NoStaleNext, HeadUnchanged
    <3>1. u # t /\ pc[u] = "cas"
      BY <2>9
    <3>2. HasCopy(u, ListOf(op[u]))
      BY <3>1 DEF HasCopy
    <3>3. ListOf(op[u]) # l
      BY <1>0, <2>1, <2>4, <2>11, <3>2 DEF Intact, StampsFresh
    <3> QED
      BY <1>0, <2>4, <3>1, <3>3, ListOfType DEF Intact, NoStaleNext, HeadUnchanged
  <2> QED
    BY <2>12, <2>13, <2>14, <2>15, <2>16 DEF Intact
<1>11. ASSUME NEW t \in Threads, Retry(t)
       PROVE  Intact'
  <2>1. Linked' /\ OnePlace'
    BY <1>0, <1>11, LinkedFrame, OnePlaceFrame DEF Intact, Retry, shared
  <2>2. LinkedToCopy'
    BY <1>0, <1>11
       DEF Intact, Retry, shared, LinkedToCopy, TypeInv, TypeOK
  <2>3. NoStaleNext'
    BY <1>0, <1>11
       DEF Intact, Retry, shared, NoStaleNext, HeadUnchanged, TypeInv, TypeOK
  <2>4. StampsFresh'
    BY <1>0, <1>11
       DEF Intact, Retry, shared, StampsFresh, Pending, HasCopy, TypeInv, TypeOK
  <2> QED
    BY <2>1, <2>2, <2>3, <2>4 DEF Intact
<1>12. ASSUME NEW t \in Threads, CountAlloc(t)
       PROVE  Intact'
  <2>1. /\ node[t] \in Nodes
        /\ pc[t] = "count" /\ pc' = [pc EXCEPT ![t] = "draw"]
        /\ op[t] = "Alloc" /\ op' = [op EXCEPT ![t] = "Push"]
        /\ stamp' = [stamp EXCEPT ![t] = 0]
        /\ copy' = [copy EXCEPT ![t] = NoWord]
        /\ next' = [next EXCEPT ![t] = Null]
        /\ UNCHANGED <<unique, top, node, list, heap>>
    BY <1>0, <1>12
       DEF CountAlloc, Enter, TypeInv, TypeOK, LocalsOK, Holds, Removes
  <2>2. \A m \in Lists, x \in Nodes :
          x # node[t] => link'[m][x] = link[m][x]
    BY <1>0, <1>12, <2>1 DEF CountAlloc, TypeInv, TypeOK
  <2>3. \A m \in Lists : \A i \in DOMAIN list[m] :
          list[m][i] \in Nodes /\ list[m][i] # node[t]
    BY <1>0, <2>1, ElementOfSeq, LenProperties
       DEF Intact, OnePlace, HeldOffLists, TypeInv, TypeOK
  <2>4. \A u \in Threads \ {t} :
          /\ op'[u] = op[u] /\ pc'[u] = pc[u] /\ stamp'[u] = stamp[u]
          /\ copy'[u] = copy[u] /\ next'[u] = next[u]
    BY <1>0, <2>1 DEF TypeInv, TypeOK
  <2>5. pc'[t] = "draw"
    BY <1>0, <2>1 DEF TypeInv, TypeOK
  <2>6. Linked'
    <3> SUFFICES ASSUME NEW m \in Lists
                 PROVE  /\ top[m].node = IF list[m] = <<>> THEN Null
                                         ELSE list[m][Len(list[m])]
                        /\ \A i \in DOMAIN list[m] :
                             link'[m][list[m][i]] =
                               IF i = 1 THEN Null ELSE list[m][i - 1]
      BY <2>1 DEF Linked
    <3>1. \A i \in DOMAIN list[m] : link'[m][list[m][i]] = link[m][list[m][i]]
      BY <2>2, <2>3
    <3> QED
      BY <1>0, <3>1 DEF Intact, Linked
  <2>7. OnePlace'
    BY <1>0, <2>1, OnePlaceFrame DEF Intact
  <2>8. LinkedToCopy'
    <3> SUFFICES ASSUME NEW u \in Threads, pc'[u] = "cas", op'[u] \in Inserts
                 PROVE  link'[ListOf(op'[u])][node[u]] = copy'[u].node
      BY <2>1 DEF LinkedToCopy
    <3>1. /\ u # t /\ pc[u] = "cas" /\ op[u] = op'[u] /\ op[u] \in Inserts
          /\ copy'[u] = copy[u]
      BY <2>4, <2>5
    <3>2. node[u] \in Nodes
      BY <1>0, <3>1 DEF TypeInv, TypeOK, LocalsOK, Holds
    <3>3. node[u] # node[t]
      BY <1>0, <2>1, <3>1, <3>2, ConstantAssumption
         DEF Intact, OnePlace, OneHolder
    <3> QED
      BY <1>0, <2>2, <3>1, <3>2, <3>3, ListOfType DEF Intact, LinkedToCopy
  <2>9. StampsFresh'
    <3>1. \A u \in Threads, m \in Lists :
            /\ Pending(u, m)' => u # t /\ Pending(u, m)
            /\ HasCopy(u, m)' => u # t /\ HasCopy(u, m)
      BY <2>4, <2>5 DEF Pending, HasCopy
    <3> QED
      BY <1>0, <2>1, <2>4, <3>1 DEF Intact, StampsFresh
  <2>10. NoStaleNext'
    <3> SUFFICES ASSUME NEW u \in Threads, pc'[u] = "cas", op'[u] \in Removes,
                        copy'[u] = top[ListOf(op'[u])]
                 PROVE  next'[u] = link'[ListOf(op'[u])][copy'[u].node]
      BY <2>1 DEF NoStaleNext, HeadUnchanged
    <3> DEFINE m == ListOf(op[u])
    <3>1. /\ u # t /\ pc[u] = "cas" /\ op'[u] = op[u] /\ op[u] \in Removes
          /\ copy'[u] = copy[u] /\ next'[u] = next[u] /\ m \in Lists
      BY <2>4, <2>5, ListOfType
    <3>2. copy[u].node \in Nodes
      BY <1>0, <3>1 DEF TypeInv, TypeOK, LocalsOK, Words
    <3>3. \E i \in DOMAIN list[m] : copy[u].node = list[m][i]
      <4>1. copy[u].node = top[m].node /\ copy[u].node # Null
        BY <3>1, <3>2, ConstantAssumption
      <4>2. list[m] # <<>> /\ copy[u].node = list[m][Len(list[m])]
        BY <1>0, <3>1, <4>1 DEF Intact, Linked
      <4>3. Len(list[m]) \in DOMAIN list[m]
        BY <1>0, <3>1, <4>2, LastInDomain DEF TypeInv, TypeOK
      <4> QED
        BY <4>2, <4>3
    <3>4. copy[u].node # node[t]
      BY <2>3, <3>1, <3>3
    <3> QED
      BY <1>0, <2>2, <3>1, <3>2, <3>4 DEF Intact, NoStaleNext, HeadUnchanged
  <2> QED
    BY <2>6, <2>7, <2>8, <2>9, <2>10 DEF Intact
<1>13. ASSUME NEW t \in Threads, CountPush(t)
       PROVE  Intact'
  <2>1. node' = node
    BY <1>0, <1>13
       DEF CountPush, Return, TypeInv, TypeOK, LocalsOK, Holds, Removes
  <2>2. Linked' /\ OnePlace'
    BY <1>0, <1>13, <2>1, LinkedFrame, OnePlaceFrame DEF Intact, CountPush
  <2>3. LinkedToCopy' /\ StampsFresh' /\ NoStaleNext'
    BY <1>0, <1>13, LeaveLoop DEF CountPush, Return, TypeInv, TypeOK
  <2> QED
    BY <2>2, <2>3 DEF Intact
<1>14. ASSUME NEW t \in Threads, CountPop(t)
       PROVE  Intact'
  <2>1. Linked' /\ OnePlace'
    BY <1>0, <1>14, LinkedFrame, OnePlaceFrame DEF Intact, CountPop, Enter
  <2>2. LinkedToCopy' /\ StampsFresh' /\ NoStaleNext'
    BY <1>0, <1>14, LeaveLoop DEF CountPop, Enter, TypeInv, TypeOK
  <2> QED
    BY <2>1, <2>2 DEF Intact
<1>15. ASSUME NEW t \in Threads, CountFree(t)
       PROVE  Intact'
  <2>1. node' = node
    BY <1>0, <1>15
       DEF CountFree, Return, TypeInv, TypeOK, LocalsOK, Holds, Removes
  <2>2. Linked' /\ OnePlace'
    BY <1>0, <1>15, <2>1, LinkedFrame, OnePlaceFrame DEF Intact, CountFree
  <2>3. LinkedToCopy' /\ StampsFresh' /\ NoStaleNext'
    BY <1>0, <1>15, LeaveLoop DEF CountFree, Return, TypeInv, TypeOK
  <2> QED
    BY <2>2, <2>3 DEF Intact
<1>16. CASE UNCHANGED vars
  <2>1. Linked' /\ OnePlace'
    BY <1>0, <1>16, LinkedFrame, OnePlaceFrame DEF Intact, vars, shared, locals
  <2>2. LinkedToCopy' /\ StampsFresh' /\ NoStaleNext'
    BY <1>0, <1>16
       DEF Intact, vars, shared, locals, LinkedToCopy, StampsFresh, Pending,
           HasCopy, NoStaleNext, HeadUnchanged
  <2> QED
    BY <2>1, <2>2 DEF Intact
<1> QED
  BY <1>1, <1>2, <1>3, <1>4, <1>5, <1>6, <1>7, <1>8, <1>9, <1>10, <1>11,
     <1>12, <1>13, <1>14, <1>15, <1>16
     DEF Next, Step, Finished

(***************************************************************************)
(* The theorems.                                                           *)
(***************************************************************************)

\* The state after the constructors satisfies the invariant.
LEMMA IInvInit == Init => IInv
<1> SUFFICES ASSUME Init
             PROVE  IInv
  OBVIOUS
<1> USE ConstantAssumption
<1>1. TypeOK
  BY EmptySeq DEF Init, TypeOK, Words, Word, NoWord, Lists
<1>2. LocalsOK
  BY DEF Init, LocalsOK, Holds, Inserts, Removes
<1>3. \A l \in Lists : DOMAIN list[l] = {}
  BY DEF Init
<1>4. Linked
  BY <1>3 DEF Init, Linked, NoWord, Word
<1>5. OnePlace
  BY <1>3 DEF Init, OnePlace, OnePlaceOnLists, HeldOffLists, OneHolder, NoneLost
<1>6. LinkedToCopy /\ NoStaleNext
  BY DEF Init, LinkedToCopy, NoStaleNext
<1>7. StampsFresh
  BY DEF Init, StampsFresh, Pending, HasCopy, NoWord, Word
<1> QED
  BY <1>1, <1>2, <1>4, <1>5, <1>6, <1>7 DEF IInv, Intact

\* The invariant holds in every reachable state.
THEOREM Invariance == Spec => []IInv
<1>1. IInv /\ [Next]_vars => IInv'
  <2> SUFFICES ASSUME IInv, [Next]_vars
               PROVE  IInv'
    OBVIOUS
  <2>1. TypeInv'
    BY TypeInvStep DEF IInv, TypeInv
  <2>2. NoWrap' => Intact'
    BY IntactStep
  <2> QED
    BY <2>1, <2>2 DEF IInv, TypeInv
<1> QED
  BY <1>1, IInvInit, PTL DEF Spec

\* Every variable keeps its type: in particular a thread that dereferences a
\* node pointer has one.
THEOREM TypeCorrect == Spec => []TypeOK
<1>1. IInv => TypeOK
  BY DEF IInv
<1> QED
  BY <1>1, Invariance, PTL

\* While the stamps last, the head word and next pointers of LockFreeStack
\* and of its ObjectPool spell exactly what the completed calls put there.
THEOREM ChainsIntactAlways == Spec => []ChainsIntact
<1>1. IInv => ChainsIntact
  BY DEF IInv, Intact, ChainsIntact
<1> QED
  BY <1>1, Invariance, PTL

\* While the stamps last, every node is in exactly one place: Alloc never
\* hands a node to two threads, and no node is lost.
THEOREM NodeOwnershipAlways == Spec => []NodeOwnership
<1>1. IInv => NodeOwnership
  BY DEF IInv, Intact, NodeOwnership
<1> QED
  BY <1>1, Invariance, PTL

\* While the stamps last, the ABA problem the stamps are there for does not
\* occur: a compare-exchange that succeeds installs the current successor.
THEOREM NoABAAlways == Spec => []NoABA
<1>1. IInv => NoABA
  BY DEF IInv, Intact, NoABA
<1> QED
  BY <1>1, Invariance, PTL

-----------------------------------------------------------------------------
(* LockFreeStack implements AtomicStack, for any set of threads, nodes and *)
(* values and any number of calls, as long as the stamps last.             *)

(***************************************************************************)
(* Lemmas about the data that the nodes of a list carry.                   *)
(***************************************************************************)

\* What a node can carry.
Data == Values \union {NoValue}

\* The data of a sequence of nodes, in their order.
Carried(s, d) == [i \in DOMAIN s |-> d[s[i]]]

\* They are as many as the nodes.
LEMMA CarriedFacts ==
  ASSUME NEW s \in Seq(Nodes), NEW d \in [Nodes -> Data]
  PROVE  /\ Carried(s, d) \in Seq(Data)
         /\ Len(s) \in Nat
         /\ Len(Carried(s, d)) = Len(s)
         /\ \A i \in 1 .. Len(s) : Carried(s, d)[i] = d[s[i]]
         /\ Carried(s, d) = <<>> <=> s = <<>>
<1> DEFINE c == Carried(s, d)
<1>1. Len(s) \in Nat /\ DOMAIN s = 1 .. Len(s)
  BY LenProperties
<1>2. \A i \in 1 .. Len(s) : s[i] \in Nodes
  BY <1>1, ElementOfSeq
<1>3. c \in [1 .. Len(s) -> Data] /\ \A i \in 1 .. Len(s) : c[i] = d[s[i]]
  BY <1>1, <1>2 DEF Carried
<1>4. c \in Seq(Data)
  BY <1>1, <1>3, SeqDef
<1>5. Len(c) \in Nat /\ DOMAIN c = 1 .. Len(c)
  BY <1>4, LenProperties
<1>6. Len(c) = Len(s)
  BY <1>1, <1>3, <1>5
<1>7. c = <<>> <=> s = <<>>
  BY <1>4, <1>6, EmptySeq
<1> QED
  BY <1>1, <1>3, <1>4, <1>6, <1>7

\* A node appended brings its datum.
LEMMA CarriedAppend ==
  ASSUME NEW s \in Seq(Nodes), NEW d \in [Nodes -> Data], NEW e \in Nodes
  PROVE  Carried(Append(s, e), d) = Append(Carried(s, d), d[e])
<1> DEFINE a == Append(s, e)
           c == Carried(s, d)
<1>1. /\ a \in Seq(Nodes) /\ Len(s) \in Nat /\ Len(a) = Len(s) + 1
      /\ \A i \in 1 .. Len(s) : a[i] = s[i]
      /\ a[Len(s) + 1] = e
  BY AppendFacts
<1> HIDE DEF a
<1>2. /\ c \in Seq(Data) /\ Len(c) = Len(s)
      /\ \A i \in 1 .. Len(s) : c[i] = d[s[i]]
  BY CarriedFacts
<1>3. /\ Carried(a, d) \in Seq(Data) /\ Len(Carried(a, d)) = Len(a)
      /\ \A i \in 1 .. Len(a) : Carried(a, d)[i] = d[a[i]]
  BY <1>1, CarriedFacts
<1>4. d[e] \in Data
  OBVIOUS
<1>5. /\ Append(c, d[e]) \in Seq(Data) /\ Len(Append(c, d[e])) = Len(s) + 1
      /\ \A i \in 1 .. Len(s) : Append(c, d[e])[i] = c[i]
      /\ Append(c, d[e])[Len(s) + 1] = d[e]
  BY <1>2, <1>4, AppendFacts
<1> HIDE DEF a, c
<1>6. \A i \in 1 .. Len(a) : Carried(a, d)[i] = Append(c, d[e])[i]
  <2> SUFFICES ASSUME NEW i \in 1 .. Len(a)
               PROVE  Carried(a, d)[i] = Append(c, d[e])[i]
    OBVIOUS
  <2>1. CASE i = Len(s) + 1
    BY <2>1, <1>1, <1>3, <1>5
  <2>2. CASE i # Len(s) + 1
    <3>1. i \in 1 .. Len(s)
      BY <2>2, <1>1
    <3> QED
      BY <3>1, <1>1, <1>2, <1>3, <1>5
  <2> QED
    BY <2>1, <2>2
<1>7. Carried(a, d) = Append(c, d[e])
  BY <1>1, <1>3, <1>5, <1>6, SeqEqual
<1> QED
  BY <1>7 DEF a, c

\* The last node dropped takes its datum away.
LEMMA CarriedFront ==
  ASSUME NEW s \in Seq(Nodes), NEW d \in [Nodes -> Data], s # <<>>
  PROVE  /\ Carried(SubSeq(s, 1, Len(s) - 1), d)
              = SubSeq(Carried(s, d), 1, Len(Carried(s, d)) - 1)
         /\ Carried(s, d)[Len(Carried(s, d))] = d[s[Len(s)]]
<1> DEFINE f == SubSeq(s, 1, Len(s) - 1)
           c == Carried(s, d)
           g == SubSeq(c, 1, Len(c) - 1)
<1>1. /\ c \in Seq(Data) /\ Len(c) = Len(s)
      /\ \A i \in 1 .. Len(s) : c[i] = d[s[i]]
  BY CarriedFacts
<1>2. Len(s) \in Nat /\ Len(s) > 0
  BY EmptySeq, LenProperties
<1>3. /\ f \in Seq(Nodes) /\ Len(f) = Len(s) - 1
      /\ \A i \in 1 .. (Len(s) - 1) : f[i] = s[i]
  BY <1>2, FrontFacts
<1> HIDE DEF f
<1>4. /\ Carried(f, d) \in Seq(Data) /\ Len(Carried(f, d)) = Len(f)
      /\ \A i \in 1 .. Len(f) : Carried(f, d)[i] = d[f[i]]
  BY <1>3, CarriedFacts
<1> HIDE DEF c
<1>5. /\ g \in Seq(Data) /\ Len(g) = Len(s) - 1
      /\ \A i \in 1 .. (Len(s) - 1) : g[i] = c[i]
  BY <1>1, <1>2, FrontFacts
<1> HIDE DEF g
<1>6. \A i \in 1 .. (Len(s) - 1) : Carried(f, d)[i] = g[i]
  <2> SUFFICES ASSUME NEW i \in 1 .. (Len(s) - 1)
               PROVE  Carried(f, d)[i] = g[i]
    OBVIOUS
  <2>1. i \in 1 .. Len(s)
    BY <1>2
  <2> QED
    BY <2>1, <1>1, <1>3, <1>4, <1>5
<1>7. Carried(f, d) = g
  BY <1>2, <1>3, <1>4, <1>5, <1>6, SeqEqual
<1>8. c[Len(c)] = d[s[Len(s)]]
  BY <1>1, <1>2
<1> QED
  BY <1>7, <1>8 DEF f, c, g

(***************************************************************************)
(* What the refinement needs beyond IInv: Push writes the datum before the *)
(* node can be reached, and nobody else writes to it.                      *)
(***************************************************************************)

DataOK ==
  \A t \in Threads : op[t] = "Push" /\ pc[t] # "count" => data[node[t]] = val[t]

Safe == IInv /\ NoWrap /\ DataOK

\* The only write to a node's datum is by the thread that has the node.
LEMMA DataStep ==
  ASSUME Safe, [Next]_vars
  PROVE  DataOK'
<1> USE DEF Safe, IInv, TypeOK, LocalsOK, DataOK
<1>1. ASSUME NEW t \in Threads, NEW v \in Values, CallPush(t, v)
      PROVE  DataOK'
  BY <1>1 DEF CallPush, Enter, shared
<1>2. ASSUME NEW t \in Threads, CallPop(t)
      PROVE  DataOK'
  BY <1>2 DEF CallPop, Enter, shared
<1>3. ASSUME NEW t \in Threads, Draw(t)
      PROVE  DataOK'
  BY <1>3 DEF Draw
<1>4. ASSUME NEW t \in Threads, LinkTop(t)
      PROVE  DataOK'
  BY <1>4 DEF LinkTop
<1>5. ASSUME NEW t \in Threads, ReadTop(t)
      PROVE  DataOK'
  BY <1>5 DEF ReadTop, shared
<1>6. ASSUME NEW t \in Threads, NewNode(t)
      PROVE  DataOK'
  BY <1>6 DEF NewNode
<1>7. ASSUME NEW t \in Threads, PopEmpty(t)
      PROVE  DataOK'
  BY <1>7 DEF PopEmpty, Return, shared
<1>8. ASSUME NEW t \in Threads, ReadNext(t)
      PROVE  DataOK'
  BY <1>8 DEF ReadNext, shared
<1>9. ASSUME NEW t \in Threads, InsertNode(t)
      PROVE  DataOK'
  BY <1>9 DEF InsertNode
<1>10. ASSUME NEW t \in Threads, RemoveNode(t)
       PROVE  DataOK'
  BY <1>10 DEF RemoveNode
<1>11. ASSUME NEW t \in Threads, Retry(t)
       PROVE  DataOK'
  BY <1>11 DEF Retry, shared
<1>12. ASSUME NEW t \in Threads, CountAlloc(t)
       PROVE  DataOK'
  <2>1. /\ node[t] \in Nodes /\ node' = node /\ val' = val
        /\ data' = [data EXCEPT ![node[t]] = val[t]]
        /\ \A u \in Threads \ {t} : op'[u] = op[u] /\ pc'[u] = pc[u]
    BY <1>12 DEF CountAlloc, Enter, Holds, Removes
  <2> SUFFICES ASSUME NEW u \in Threads, op'[u] = "Push", pc'[u] # "count"
               PROVE  data'[node[u]] = val[u]
    BY <2>1
  <2>2. CASE u = t
    BY <2>1, <2>2
  <2>3. CASE u # t
    <3>1. node[u] \in Nodes
      BY <2>1, <2>3 DEF Holds, Inserts
    <3>2. node[u] # node[t]
      BY <2>1, <2>3, <3>1, ConstantAssumption DEF Intact, OnePlace, OneHolder
    <3> QED
      BY <2>1, <2>3, <3>1, <3>2
  <2> QED
    BY <2>2, <2>3
<1>13. ASSUME NEW t \in Threads, CountPush(t)
       PROVE  DataOK'
  BY <1>13 DEF CountPush, Return
<1>14. ASSUME NEW t \in Threads, CountPop(t)
       PROVE  DataOK'
  BY <1>14 DEF CountPop, Enter
<1>15. ASSUME NEW t \in Threads, CountFree(t)
       PROVE  DataOK'
  BY <1>15 DEF CountFree, Return
<1>16. CASE UNCHANGED vars
  BY <1>16 DEF vars, shared, locals
<1> QED
  BY <1>1, <1>2, <1>3, <1>4, <1>5, <1>6, <1>7, <1>8, <1>9, <1>10, <1>11,
     <1>12, <1>13, <1>14, <1>15, <1>16
     DEF Next, Step, Finished

(***************************************************************************)
(* The refinement.                                                         *)
(***************************************************************************)

AbsStack == Carried(list["stack"], data)
AbsCall == [t \in Threads |-> CallOf(t)]

\* A step of thread t alone shows in the call of thread t alone.
LEMMA CallsFrame ==
  ASSUME NEW t \in Threads,
         \A u \in Threads \ {t} :
           /\ op'[u] = op[u] /\ pc'[u] = pc[u] /\ val'[u] = val[u]
           /\ op[u] = "Pop" /\ pc[u] = "count" =>
                data'[node'[u]] = data[node[u]]
  PROVE  /\ AbsCall' = [AbsCall EXCEPT ![t] = CallOf(t)']
         /\ AbsCall[t] = CallOf(t)
<1>1. ASSUME NEW u \in Threads, u # t
      PROVE  CallOf(u)' = CallOf(u)
  <2>1. /\ op'[u] = op[u] /\ pc'[u] = pc[u] /\ val'[u] = val[u]
        /\ op[u] = "Pop" /\ pc[u] = "count" => data'[node'[u]] = data[node[u]]
    BY <1>1
  <2>2. CASE op[u] = "Pop" /\ pc[u] = "count"
    BY <2>1, <2>2 DEF CallOf
  <2>3. CASE ~(op[u] = "Pop" /\ pc[u] = "count")
    BY <2>1, <2>3 DEF CallOf
  <2> QED
    BY <2>2, <2>3
<1> QED
  BY <1>1 DEF AbsCall

\* A step of thread t that neither changes its call nor the data on the
\* stack is none of the callers' business.
LEMMA Unseen ==
  ASSUME NEW t \in Threads,
         \A u \in Threads \ {t} :
           /\ op'[u] = op[u] /\ pc'[u] = pc[u] /\ val'[u] = val[u]
           /\ op[u] = "Pop" /\ pc[u] = "count" =>
                data'[node'[u]] = data[node[u]],
         CallOf(t)' = CallOf(t), AbsStack' = AbsStack
  PROVE  UNCHANGED Abs!vars
<1>1. AbsCall' = AbsCall
  BY CallsFrame DEF AbsCall
<1> QED
  BY <1>1 DEF Abs!vars, AbsStack, AbsCall, Carried

\* Each step of the code is a step of the atomic stack, or shows nothing of
\* it to the callers.
LEMMA RefineStep ==
  ASSUME Safe, [Next]_vars
  PROVE  [Abs!Next]_(Abs!vars)
<1>0. /\ op \in [Threads -> {"None"} \union Inserts \union Removes]
      /\ pc \in [Threads -> {"idle", "draw", "read", "next", "cas", "count"}]
      /\ val \in [Threads -> Data] /\ data \in [Nodes -> Data]
      /\ node \in [Threads -> Nodes \union {Null}]
      /\ list \in [Lists -> Seq(Nodes)] /\ list["stack"] \in Seq(Nodes)
      /\ LocalsOK /\ DataOK /\ Intact
  BY DEF Safe, IInv, TypeOK, Data, Lists
<1>a. /\ Abs!vars = <<AbsStack, AbsCall>>
      /\ \A t \in Threads, v \in Values :
           /\ AbsCall[t].kind = "idle"
           /\ AbsCall' = [AbsCall EXCEPT ![t] = [kind |-> "pushing", val |-> v]]
           /\ AbsStack' = AbsStack
           => Abs!InvokePush(t, v)
      /\ \A t \in Threads :
           /\ AbsCall[t].kind = "idle"
           /\ AbsCall' = [AbsCall EXCEPT ![t] =
                            [kind |-> "popping", val |-> NoValue]]
           /\ AbsStack' = AbsStack
           => Abs!InvokePop(t)
  BY DEF Abs!vars, Abs!InvokePush, Abs!InvokePop, Abs!Call,
         AbsStack, AbsCall, Carried
<1>b. \A t \in Threads :
        /\ AbsCall[t].kind = "pushing"
        /\ AbsStack' = Append(AbsStack, AbsCall[t].val)
        /\ AbsCall' = [AbsCall EXCEPT ![t] = [kind |-> "pushed", val |-> NoValue]]
        => Abs!DoPush(t)
  BY DEF Abs!DoPush, Abs!Call, AbsStack, AbsCall, Carried
<1>c. \A t \in Threads :
        /\ AbsCall[t].kind = "popping"
        /\ AbsStack # <<>>
        /\ AbsStack' = SubSeq(AbsStack, 1, Len(AbsStack) - 1)
        /\ AbsCall' = [AbsCall EXCEPT ![t] =
                         [kind |-> "popped", val |-> AbsStack[Len(AbsStack)]]]
        => Abs!DoPop(t)
  BY DEF Abs!DoPop, Abs!Call, AbsStack, AbsCall, Carried
<1>d. \A t \in Threads :
        /\ AbsCall' = [AbsCall EXCEPT ![t] = [kind |-> "idle", val |-> NoValue]]
        /\ AbsStack' = AbsStack
        => /\ AbsCall[t].kind = "popping" /\ AbsStack = <<>> => Abs!PopEmpty(t)
           /\ AbsCall[t].kind \in {"pushed", "popped"} => Abs!Return(t)
  BY DEF Abs!PopEmpty, Abs!Return, Abs!Call, AbsStack, AbsCall, Carried
<1>1. ASSUME NEW t \in Threads, NEW v \in Values, CallPush(t, v)
      PROVE  Abs!InvokePush(t, v)
  <2>1. /\ op[t] = "None" /\ op'[t] = "Alloc" /\ val'[t] = v
        /\ UNCHANGED <<data, node, list>>
        /\ \A u \in Threads \ {t} :
             op'[u] = op[u] /\ pc'[u] = pc[u] /\ val'[u] = val[u]
    BY <1>0, <1>1 DEF CallPush, Enter, shared, LocalsOK
  <2>2. /\ CallOf(t).kind = "idle"
        /\ CallOf(t)' = [kind |-> "pushing", val |-> v]
    BY <2>1 DEF CallOf
  <2>3. AbsStack' = AbsStack
    BY <2>1 DEF AbsStack
  <2> QED
    BY <2>1, <2>2, <2>3, CallsFrame, <1>a
<1>2. ASSUME NEW t \in Threads, CallPop(t)
      PROVE  Abs!InvokePop(t)
  <2>1. /\ op[t] = "None" /\ op'[t] = "Pop" /\ pc'[t] = "draw"
        /\ UNCHANGED <<data, node, list>>
        /\ \A u \in Threads \ {t} :
             op'[u] = op[u] /\ pc'[u] = pc[u] /\ val'[u] = val[u]
    BY <1>0, <1>2 DEF CallPop, Enter, shared, LocalsOK
  <2>2. /\ CallOf(t).kind = "idle"
        /\ CallOf(t)' = [kind |-> "popping", val |-> NoValue]
    BY <2>1 DEF CallOf
  <2>3. AbsStack' = AbsStack
    BY <2>1 DEF AbsStack
  <2> QED
    BY <2>1, <2>2, <2>3, CallsFrame, <1>a
<1>3. ASSUME NEW t \in Threads,
             Draw(t) \/ LinkTop(t) \/ ReadTop(t) \/ ReadNext(t) \/ Retry(t)
      PROVE  UNCHANGED Abs!vars
  <2>1. /\ pc[t] # "count" /\ pc'[t] # "count"
        /\ UNCHANGED <<op, val, data, node, list>>
        /\ \A u \in Threads \ {t} : pc'[u] = pc[u]
    BY <1>0, <1>3 DEF Draw, LinkTop, ReadTop, ReadNext, Retry, shared
  <2>2. CallOf(t)' = CallOf(t)
    BY <2>1 DEF CallOf
  <2>3. AbsStack' = AbsStack
    BY <2>1 DEF AbsStack
  <2> QED
    BY <2>1, <2>2, <2>3, Unseen
<1>4. ASSUME NEW t \in Threads, NewNode(t)
      PROVE  UNCHANGED Abs!vars
  <2>1. /\ op[t] = "Alloc"
        /\ UNCHANGED <<op, val, data, list>>
        /\ \A u \in Threads \ {t} : pc'[u] = pc[u] /\ node'[u] = node[u]
    BY <1>0, <1>4 DEF NewNode
  <2>2. CallOf(t)' = CallOf(t)
    BY <2>1 DEF CallOf
  <2>3. AbsStack' = AbsStack
    BY <2>1 DEF AbsStack
  <2> QED
    BY <2>1, <2>2, <2>3, Unseen
<1>5. ASSUME NEW t \in Threads, PopEmpty(t)
      PROVE  Abs!PopEmpty(t)
  <2>1. /\ op[t] = "Pop" /\ pc[t] = "read" /\ op'[t] = "None"
        /\ UNCHANGED <<data, list>> /\ top["stack"].node = Null
        /\ \A u \in Threads \ {t} :
             /\ op'[u] = op[u] /\ pc'[u] = pc[u] /\ val'[u] = val[u]
             /\ node'[u] = node[u]
    BY <1>0, <1>5 DEF PopEmpty, Return, shared
  <2>2. /\ CallOf(t).kind = "popping"
        /\ CallOf(t)' = [kind |-> "idle", val |-> NoValue]
    BY <2>1 DEF CallOf
  <2>3. list["stack"] = <<>>
    <3> SUFFICES ASSUME list["stack"] # <<>>
                 PROVE  FALSE
      OBVIOUS
    <3>1. top["stack"].node = list["stack"][Len(list["stack"])]
      BY <1>0 DEF Intact, Linked, Lists
    <3>2. Len(list["stack"]) \in DOMAIN list["stack"]
      BY <1>0, LastInDomain
    <3> QED
      BY <1>0, <2>1, <3>1, <3>2, ElementOfSeq, LenProperties, ConstantAssumption
  <2>4. AbsStack' = AbsStack /\ AbsStack = <<>>
    BY <1>0, <2>1, <2>3, CarriedFacts DEF AbsStack
  <2> QED
    BY <2>1, <2>2, <2>4, CallsFrame, <1>d
<1>6. ASSUME NEW t \in Threads, InsertNode(t), op[t] = "Push"
      PROVE  Abs!DoPush(t)
  <2>1. /\ pc[t] = "cas" /\ pc'[t] = "count" /\ UNCHANGED <<op, val, data>>
        /\ list'["stack"] = Append(list["stack"], node[t])
        /\ node[t] \in Nodes /\ data[node[t]] = val[t]
        /\ \A u \in Threads \ {t} : pc'[u] = pc[u] /\ node'[u] = node[u]
    BY <1>0, <1>6
       DEF InsertNode, ListOf, Lists, LocalsOK, Holds, Inserts, DataOK
  <2>2. /\ CallOf(t) = [kind |-> "pushing", val |-> val[t]]
        /\ CallOf(t)' = [kind |-> "pushed", val |-> NoValue]
    BY <1>6, <2>1 DEF CallOf
  <2>3. AbsStack' = Append(AbsStack, val[t])
    BY <1>0, <2>1, CarriedAppend DEF AbsStack
  <2> QED
    BY <2>1, <2>2, <2>3, CallsFrame, <1>b
<1>7. ASSUME NEW t \in Threads, InsertNode(t), op[t] # "Push"
      PROVE  UNCHANGED Abs!vars
  <2>1. /\ op[t] = "Free" /\ UNCHANGED <<op, val, data>>
        /\ list'["stack"] = list["stack"]
        /\ \A u \in Threads \ {t} : pc'[u] = pc[u] /\ node'[u] = node[u]
    BY <1>0, <1>7 DEF InsertNode, ListOf, Lists, Inserts
  <2>2. CallOf(t)' = CallOf(t)
    BY <2>1 DEF CallOf
  <2>3. AbsStack' = AbsStack
    BY <2>1 DEF AbsStack
  <2> QED
    BY <2>1, <2>2, <2>3, Unseen
<1>8. ASSUME NEW t \in Threads, RemoveNode(t), op[t] = "Pop"
      PROVE  Abs!DoPop(t)
  <2>1. /\ pc[t] = "cas" /\ pc'[t] = "count" /\ UNCHANGED <<op, val, data>>
        /\ list'["stack"] = SubSeq(list["stack"], 1, Len(list["stack"]) - 1)
        /\ copy[t] = top["stack"] /\ copy[t].node # Null
        /\ node'[t] = copy[t].node
        /\ \A u \in Threads \ {t} : pc'[u] = pc[u] /\ node'[u] = node[u]
    BY <1>0, <1>8
       DEF RemoveNode, HeadUnchanged, ListOf, Lists, LocalsOK, Removes
  <2>2. /\ CallOf(t) = [kind |-> "popping", val |-> NoValue]
        /\ CallOf(t)' = [kind |-> "popped", val |-> data[node'[t]]]
    BY <1>8, <2>1 DEF CallOf
  <2>3. /\ list["stack"] # <<>>
        /\ node'[t] = list["stack"][Len(list["stack"])]
    BY <1>0, <2>1 DEF Intact, Linked, Lists
  <2>4. /\ AbsStack # <<>>
        /\ AbsStack' = SubSeq(AbsStack, 1, Len(AbsStack) - 1)
        /\ data[node'[t]] = AbsStack[Len(AbsStack)]
    BY <1>0, <2>1, <2>3, CarriedFacts, CarriedFront DEF AbsStack
  <2> QED
    BY <2>1, <2>2, <2>4, CallsFrame, <1>c
<1>9. ASSUME NEW t \in Threads, RemoveNode(t), op[t] # "Pop"
      PROVE  UNCHANGED Abs!vars
  <2>1. /\ op[t] = "Alloc" /\ UNCHANGED <<op, val, data>>
        /\ list'["stack"] = list["stack"]
        /\ \A u \in Threads \ {t} : pc'[u] = pc[u] /\ node'[u] = node[u]
    BY <1>0, <1>9 DEF RemoveNode, ListOf, Lists, Removes
  <2>2. CallOf(t)' = CallOf(t)
    BY <2>1 DEF CallOf
  <2>3. AbsStack' = AbsStack
    BY <2>1 DEF AbsStack
  <2> QED
    BY <2>1, <2>2, <2>3, Unseen
<1>10. ASSUME NEW t \in Threads, CountAlloc(t)
       PROVE  UNCHANGED Abs!vars
  <2>1. /\ pc[t] = "count" /\ op[t] = "Alloc"
        /\ pc'[t] = "draw" /\ op'[t] = "Push"
        /\ UNCHANGED <<val, node, list>>
        /\ data' = [data EXCEPT ![node[t]] = val[t]]
        /\ node[t] \in Nodes
        /\ \A u \in Threads \ {t} : op'[u] = op[u] /\ pc'[u] = pc[u]
    BY <1>0, <1>10 DEF CountAlloc, Enter, LocalsOK, Holds, Removes
  <2>2. CallOf(t)' = CallOf(t)
    BY <2>1 DEF CallOf
  <2>3. \A i \in DOMAIN list["stack"] :
          data'[list["stack"][i]] = data[list["stack"][i]]
    BY <1>0, <2>1, ElementOfSeq, LenProperties
       DEF Intact, OnePlace, HeldOffLists, Lists
  <2>4. AbsStack' = AbsStack
    BY <2>1, <2>3 DEF AbsStack, Carried
  <2>5. ASSUME NEW u \in Threads \ {t}, op[u] = "Pop", pc[u] = "count"
        PROVE  data'[node'[u]] = data[node[u]]
    <3>1. node[u] \in Nodes
      BY <1>0, <2>5 DEF LocalsOK, Holds, Removes
    <3>2. node[u] # node[t]
      BY <1>0, <2>1, <3>1, ConstantAssumption DEF Intact, OnePlace, OneHolder
    <3> QED
      BY <1>0, <2>1, <3>1, <3>2
  <2> QED
    BY <2>1, <2>2, <2>4, <2>5, Unseen
<1>11. ASSUME NEW t \in Threads, CountPush(t) \/ CountFree(t)
       PROVE  Abs!Return(t)
  <2>1. /\ pc[t] = "count" /\ op[t] \in {"Push", "Free"} /\ op'[t] = "None"
        /\ UNCHANGED <<data, list>>
        /\ \A u \in Threads \ {t} :
             /\ op'[u] = op[u] /\ pc'[u] = pc[u] /\ val'[u] = val[u]
             /\ node'[u] = node[u]
    BY <1>0, <1>11 DEF CountPush, CountFree, Return
  <2>2. /\ CallOf(t).kind \in {"pushed", "popped"}
        /\ CallOf(t)' = [kind |-> "idle", val |-> NoValue]
    BY <2>1 DEF CallOf
  <2>3. AbsStack' = AbsStack
    BY <2>1 DEF AbsStack
  <2> QED
    BY <2>1, <2>2, <2>3, CallsFrame, <1>d
<1>12. ASSUME NEW t \in Threads, CountPop(t)
       PROVE  UNCHANGED Abs!vars
  <2>1. /\ pc[t] = "count" /\ op[t] = "Pop" /\ op'[t] = "Free"
        /\ val'[t] = data[node[t]] /\ UNCHANGED <<data, node, list>>
        /\ \A u \in Threads \ {t} :
             op'[u] = op[u] /\ pc'[u] = pc[u] /\ val'[u] = val[u]
    BY <1>0, <1>12 DEF CountPop, Enter
  <2>2. CallOf(t)' = CallOf(t)
    BY <2>1 DEF CallOf
  <2>3. AbsStack' = AbsStack
    BY <2>1 DEF AbsStack
  <2> QED
    BY <2>1, <2>2, <2>3, Unseen
<1>13. CASE UNCHANGED vars
  <2>1. AbsStack' = AbsStack /\ AbsCall' = AbsCall
    BY <1>13 DEF vars, shared, locals, AbsStack, AbsCall, CallOf
  <2> QED
    BY <2>1, <1>a DEF Abs!vars, AbsStack, AbsCall, Carried
<1>14. ASSUME NEW t \in Threads, Step(t)
       PROVE  Abs!Next \/ UNCHANGED Abs!vars
  <2>1. Abs!PopEmpty(t) \/ Abs!DoPush(t) \/ Abs!DoPop(t) \/ Abs!Return(t)
          => Abs!Next
    BY DEF Abs!Next
  <2>2. CASE InsertNode(t)
    BY <2>1, <2>2, <1>6, <1>7
  <2>3. CASE RemoveNode(t)
    BY <2>1, <2>3, <1>8, <1>9
  <2>4. CASE PopEmpty(t)
    BY <2>1, <2>4, <1>5
  <2>5. CASE CountPush(t) \/ CountFree(t)
    BY <2>1, <2>5, <1>11
  <2> QED
    BY <1>14, <2>2, <2>3, <2>4, <2>5, <1>3, <1>4, <1>10, <1>12 DEF Step
<1>15. ASSUME NEW t \in Threads, CallPop(t) \/ \E v \in Values : CallPush(t, v)
       PROVE  Abs!Next
  BY <1>15, <1>1, <1>2 DEF Abs!Next
<1> QED
  BY <1>13, <1>14, <1>15 DEF Next, Finished

\* The constructors give an empty stack that nobody is calling.
LEMMA RefineInit == Init => Abs!Init /\ DataOK
<1> SUFFICES ASSUME Init
             PROVE  Abs!Init /\ DataOK
  OBVIOUS
<1>1. list["stack"] = <<>> /\ op = [t \in Threads |-> "None"]
  BY DEF Init, Lists
<1>2. [i \in DOMAIN list["stack"] |-> data[list["stack"][i]]] = <<>>
  BY <1>1
<1>3. [t \in Threads |-> CallOf(t)]
        = [t \in Threads |-> [kind |-> "idle", val |-> NoValue]]
  BY <1>1 DEF CallOf
<1>4. DataOK
  BY <1>1 DEF DataOK
<1> QED
  BY <1>2, <1>3, <1>4 DEF Abs!Init, Abs!Call

\* While the stamps last, callers cannot tell the lock-free stack from an
\* atomic one: each Push and Pop takes effect at its successful
\* compare-exchange, in LIFO order, and Pop answers "empty" only when the
\* stack is.
THEOREM LinearizableWhileStampsLast == Spec /\ []NoWrap => Linearizable
<1>1. Safe /\ [Next]_vars => DataOK'
  BY DataStep
<1>2. Safe /\ [Next]_vars => [Abs!Next]_(Abs!vars)
  BY RefineStep
<1> QED
  BY <1>1, <1>2, RefineInit, Invariance, PTL
     DEF Spec, Linearizable, Abs!Spec, Safe

=============================================================================
