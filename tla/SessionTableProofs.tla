-------------------------- MODULE SessionTableProofs --------------------------
(* Until two threads meet in SessionTable, every slot has one holder and      *)
(* every session is found at its slot, for any workers, slots and accepts.    *)
EXTENDS SessionTable, FiniteSetTheorems, TLAPS

Popping == {"popLoad", "popStore"}
Pushing == {"pushLoad", "pushStore"}
\* Where a thread has a session that is in use; where nobody else may have it;
\* and where it reads a session that it has given back.
Open == {"register", "postRecv", "onRecv", "decrement", "free"}
Alone == {"register", "postRecv", "free"}
Late == {"null", "push"}
Releasing == {"free"} \cup Late \cup Pushing
Accepting == {"accept", "ended", "top", "alloc", "register", "postRecv"}
               \cup Popping \cup Releasing
Working == {"gqcs", "onRecv", "decrement"} \cup Releasing

Types ==
  /\ TypeOK
  /\ newId \in [index : Index, unique : 0..UniqueMod - 1]
  /\ pc \in [Threads -> Accepting \cup Working]
  /\ pc[Acceptor] \in Accepting
  /\ \A w \in Workers : pc[w] \in Working

\* One thread is on the stack, and what it has read there still holds.
StackOK ==
  /\ \A t, u \in InStack : t = u
  /\ pc[Acceptor] \in {"top"} \cup Popping => size > 0
  /\ pc[Acceptor] \in Popping => newId.index = top[size]
  /\ \A t \in Threads : pc[t] \in {"popStore", "pushStore"} => reg[t] = size
  /\ \A t \in Threads : pc[t] \in Pushing => size < SessionMax

\* Who works on a session that is in use, and who on one that is not.
Uses ==
  /\ \A t \in Threads : pc[t] \in Open => at[t] \in inUse
  /\ \A t \in Threads : pc[t] \in Late => at[t] \in Sessions \ inUse
  /\ \A p \in Sessions : calls[p] # {} => p \in inUse
  /\ \A t \in Threads : pc[t] \in Alone =>
       /\ calls[at[t]] = {}
       /\ \A u \in Threads \ {t} : ~(pc[u] \in Open /\ at[u] = at[t])
  /\ pc[Acceptor] = "register" => session_id[at[Acceptor]] = newId

\* The holders of slot i by their kinds, and that there is one in all.
Places(i) == {n \in Pushed : top[n] = i}
Users(i) == {p \in inUse : session_id[p].index = i}
Carriers(i) == {t \in Threads : Carries(t, i)}

OnePart(i) ==
  \/ /\ \E n \in Int : Places(i) = {n}
     /\ Users(i) = {} /\ Carriers(i) = {} /\ i \notin lost
  \/ /\ \E p \in Sessions : Users(i) = {p}
     /\ Places(i) = {} /\ Carriers(i) = {} /\ i \notin lost
  \/ /\ \E t \in Threads : Carriers(i) = {t}
     /\ Places(i) = {} /\ Users(i) = {} /\ i \notin lost
  \/ /\ i \in lost
     /\ Places(i) = {} /\ Users(i) = {} /\ Carriers(i) = {}

OneEach == \A i \in Index : OnePart(i)

\* A session is at its slot, and what is at a slot has that slot.
Found ==
  \A p \in inUse :
    \/ session_array[session_id[p].index] = p
    \/ pc[Acceptor] = "register" /\ at[Acceptor] = p

SlotsRight ==
  \A i \in Index :
    \/ session_array[i] = NULL
    \/ /\ session_array[i] \in inUse
       /\ session_id[session_array[i]].index = i
    \/ \E t \in Threads : /\ pc[t] = "null"
                          /\ session_array[i] = at[t]
                          /\ session_id[at[t]].index = i

Apart == Types /\ StackOK /\ Uses /\ OneEach /\ Found /\ SlotsRight

\* unique has not come round before as many accepts.
UniqueOK ==
  /\ accepts \in Nat /\ unique \in 0..UniqueMod - 1 /\ DOMAIN pc = Threads
  /\ accepts < UniqueMod - 1 => unique \in 1..accepts + 1
  /\ pc[Acceptor] = "top" /\ accepts < UniqueMod => unique \in 1..accepts
  /\ pc[Acceptor] \in Popping /\ accepts < UniqueMod => newId.unique # 0
  /\ lost \subseteq {0}
  /\ lost # {} => accepts >= UniqueMod

IInv == UniqueOK /\ (races = {} => Apart)

-----------------------------------------------------------------------------
(* The conditions as they are checked *)

\* One part is one holder.
LEMMA HolderIs ==
  ASSUME NEW i, OnePart(i)
  PROVE  Cardinality(Holders(i)) = 1
<1>1. \A h : h \in Holders(i) <=>
        \/ \E n \in Places(i) : h = <<"stack", n>>
        \/ \E p \in Users(i) : h = <<"session", p>>
        \/ \E t \in Carriers(i) : h = <<"thread", t>>
        \/ i \in lost /\ h = <<"lost", i>>
  BY DEF Holders, Places, Users, Carriers
<1>2. \E h : Holders(i) = {h}
  <2>1. CASE \E n \in Int : /\ Places(i) = {n} /\ Users(i) = {}
                            /\ Carriers(i) = {} /\ i \notin lost
    <3>1. PICK n : /\ Places(i) = {n} /\ Users(i) = {}
                   /\ Carriers(i) = {} /\ i \notin lost
      BY <2>1
    <3>2. Holders(i) = {<<"stack", n>>}
      BY <1>1, <3>1
    <3> QED BY <3>2
  <2>2. CASE \E p \in Sessions : /\ Users(i) = {p} /\ Places(i) = {}
                                 /\ Carriers(i) = {} /\ i \notin lost
    <3>1. PICK p : /\ Users(i) = {p} /\ Places(i) = {}
                   /\ Carriers(i) = {} /\ i \notin lost
      BY <2>2
    <3>2. Holders(i) = {<<"session", p>>}
      BY <1>1, <3>1
    <3> QED BY <3>2
  <2>3. CASE \E t \in Threads : /\ Carriers(i) = {t} /\ Places(i) = {}
                                /\ Users(i) = {} /\ i \notin lost
    <3>1. PICK t : /\ Carriers(i) = {t} /\ Places(i) = {}
                   /\ Users(i) = {} /\ i \notin lost
      BY <2>3
    <3>2. Holders(i) = {<<"thread", t>>}
      BY <1>1, <3>1
    <3> QED BY <3>2
  <2>4. CASE /\ i \in lost /\ Places(i) = {} /\ Users(i) = {}
             /\ Carriers(i) = {}
    <3>1. Holders(i) = {<<"lost", i>>}
      BY <1>1, <2>4
    <3> QED BY <3>1
  <2> QED BY <2>1, <2>2, <2>3, <2>4 DEF OnePart
<1> QED BY <1>2, FS_Singleton

\* The condition of OneHolder.
LEMMA SlotHeld ==
  ASSUME Apart
  PROVE  \A i \in Index : Cardinality(Holders(i)) = 1
BY HolderIs DEF Apart, OneEach

-----------------------------------------------------------------------------
(* What a step without a race means *)

\* The threads on the stack can be counted.
LEMMA InStackFinite == IsFiniteSet(InStack) /\ IsFiniteSet(InStack')
<1>1. IsFiniteSet(Threads)
  BY TableAssumption, FS_AddElement DEF Threads
<1>2. InStack \in SUBSET Threads /\ InStack' \in SUBSET Threads
  BY DEF InStack
<1> QED BY <1>1, <1>2, FS_Subset

\* Where a thread goes on and no race is noted, one thread is on the stack at
\* most, before the step and after it together.
LEMMA NoRace ==
  ASSUME NEW t, NEW from, NEW to, Goto(t, from, to), races' = {}
  PROVE  /\ races = {}
         /\ \A u, v \in InStack \cup (InStack') : u = v
<1> DEFINE on == InStack \cup (InStack')
<1>1. IsFiniteSet(on)
  BY InStackFinite, FS_Union
<1>2. races = {} /\ ~(Cardinality(on) > 1)
  BY DEF Goto
<1>3. \A u, v \in on : u = v
  <2> SUFFICES ASSUME NEW u \in on, NEW v \in on, u # v PROVE FALSE
    OBVIOUS
  <2>1. {u} \cup {v} \in SUBSET on
    OBVIOUS
  <2>2. IsFiniteSet({u}) /\ Cardinality({u}) = 1
    BY FS_Singleton
  <2>3. Cardinality({u} \cup {v}) = 2
    BY <2>2, FS_AddElement
  <2>4. Cardinality({u} \cup {v}) <= Cardinality(on)
    BY <1>1, <2>1, FS_Subset
  <2>5. Cardinality(on) \in Nat
    BY <1>1, FS_CardinalityType
  <2> HIDE DEF on
  <2> QED BY <1>2, <2>3, <2>4, <2>5
<1> QED BY <1>2, <1>3

\* The values a step reads and writes.
LEMMA Values ==
  ASSUME Apart
  PROVE  /\ size \in Nat /\ reg \in [Threads -> 0..SessionMax + MaxAccepts]
         /\ at \in [Threads -> Sessions \cup {NULL}]
         /\ session_array \in [Index -> Sessions \cup {NULL}]
         /\ inUse \subseteq Sessions /\ NULL \notin Sessions
         /\ DOMAIN session_id = Sessions
         /\ \A p \in Sessions : session_id[p].index \in Index
         /\ calls \in [Sessions -> SUBSET {"recv", "send"}]
         /\ newId.index \in Index
BY TableAssumption DEF Apart, Types, TypeOK

\* One thread goes on.
LEMMA Moves ==
  ASSUME Apart, NEW t \in Threads, NEW from, NEW to, Goto(t, from, to),
         IF t = Acceptor THEN to \in Accepting ELSE to \in Working,
         races' = {}
  PROVE  /\ pc' \in [Threads -> Accepting \cup Working]
         /\ pc'[Acceptor] \in Accepting
         /\ \A w \in Workers : pc'[w] \in Working
         /\ pc[t] = from /\ pc'[t] = to
         /\ \A u \in Threads \ {t} : pc'[u] = pc[u]
         /\ \A u, v \in InStack \cup (InStack') : u = v
<1>1. \A u, v \in InStack \cup (InStack') : u = v
  BY NoRace
<1> QED BY <1>1, TableAssumption DEF Apart, Types, Goto, Threads

-----------------------------------------------------------------------------
(* Slots that stay where they are *)

\* Nothing moves.
LEMMA SameParts ==
  ASSUME OneEach, UNCHANGED lost,
         \A i \in Index : /\ Places(i)' = Places(i) /\ Users(i)' = Users(i)
                          /\ Carriers(i)' = Carriers(i)
  PROVE  OneEach'
BY DEF OneEach, OnePart

\* One slot moves.
LEMMA PartMoves ==
  ASSUME OneEach, NEW i \in Index, OnePart(i)',
         \A j \in Index \ {i} :
           /\ Places(j)' = Places(j) /\ Users(j)' = Users(j)
           /\ Carriers(j)' = Carriers(j) /\ (j \in lost' <=> j \in lost)
  PROVE  OneEach'
BY DEF OneEach, OnePart

\* A step that touches neither the stack nor who is in use.
LEMMA QuietSlots ==
  ASSUME Types, OneEach,
         UNCHANGED <<top, size, inUse, session_id, newId, lost>>,
         \A t \in Threads :
           /\ pc[t] \in Popping <=> pc'[t] \in Popping
           /\ pc[t] = "alloc" <=> pc'[t] = "alloc"
           /\ pc[t] \in Late <=> pc'[t] \in Late
           /\ pc[t] \in Pushing <=> pc'[t] \in Pushing
           /\ pc[t] \in Late => at'[t] = at[t]
  PROVE  OneEach'
<1>1. Pushed' = Pushed
  BY DEF Pushed, Popping, Threads
<1>2. \A i \in Index : Places(i)' = Places(i) /\ Users(i)' = Users(i)
  BY <1>1 DEF Places, Users
<1>3. \A i, t : t \in Threads => (Carries(t, i)' <=> Carries(t, i))
  BY DEF Carries, Popping, Pushing, Late
<1>4. \A i \in Index : Carriers(i)' = Carriers(i)
  BY <1>3 DEF Carriers
<1> QED BY <1>2, <1>4, SameParts

\* Nobody comes to the stack, and it stays as it is.
LEMMA QuietStack ==
  ASSUME Apart, UNCHANGED <<top, size, newId, reg>>,
         \A u, v \in InStack' : u = v, Acceptor \in Threads,
         \A u \in Threads :
           pc'[u] \in {"top"} \cup Popping \cup Pushing => pc'[u] = pc[u]
  PROVE  StackOK'
BY DEF Apart, StackOK, Popping, Pushing

\* Nobody comes to have a session, and the sessions stay as they are.
LEMMA QuietUses ==
  ASSUME Apart, UNCHANGED <<inUse, session_id, calls>>, Acceptor \in Threads,
         \A u \in Threads :
           /\ pc'[u] \in Open => pc[u] \in Open
           /\ pc'[u] \in Alone => pc[u] \in Alone
           /\ pc'[u] \in Late => pc[u] \in Late
           /\ pc'[u] \in Open \cup Late => at'[u] = at[u],
         pc'[Acceptor] = "register" =>
           pc[Acceptor] = "register" /\ newId' = newId
  PROVE  Uses'
BY DEF Apart, Uses, Open, Alone

\* No slot is written, and who is to write one goes on to do so.
LEMMA QuietTable ==
  ASSUME Apart, UNCHANGED <<session_array, inUse, session_id>>,
         \A u \in Threads :
           /\ pc[u] = "null" => pc'[u] = "null" /\ at'[u] = at[u]
           /\ pc[u] = "register" => pc'[u] = "register" /\ at'[u] = at[u],
         Acceptor \in Threads
  PROVE  Found' /\ SlotsRight'
BY DEF Apart, Found, SlotsRight

-----------------------------------------------------------------------------
(* One holder excludes others *)

\* The kinds of holder exclude each other.
LEMMA Unshared ==
  ASSUME Apart, NEW i \in Index
  PROVE  /\ \A m, n \in Places(i) : m = n
         /\ \A p, q \in Users(i) : p = q
         /\ \A t, u \in Carriers(i) : t = u
         /\ Places(i) # {} => Users(i) = {} /\ Carriers(i) = {} /\ i \notin lost
         /\ Users(i) # {} => Places(i) = {} /\ Carriers(i) = {} /\ i \notin lost
         /\ Carriers(i) # {} => Places(i) = {} /\ Users(i) = {} /\ i \notin lost
BY DEF Apart, OneEach, OnePart

\* Two sessions in use have two slots, and none of them is on its way.
LEMMA OwnIndex ==
  ASSUME Apart, NEW p \in inUse
  PROVE  /\ session_id[p].index \in Index
         /\ \A q \in inUse : session_id[q].index = session_id[p].index => q = p
         /\ \A t \in Threads : ~Carries(t, session_id[p].index)
<1>1. session_id[p].index \in Index
  BY Values
<1>2. p \in Users(session_id[p].index)
  BY DEF Users
<1> QED BY <1>1, <1>2, Unshared DEF Users, Carriers

-----------------------------------------------------------------------------
(* The accept thread *)

\* A connection is begun with, or refused.
LEMMA AcceptedKeeps ==
  ASSUME Apart, Accepted, races' = {}
  PROVE  Apart'
<1> USE DEF Open, Alone, Late, Popping, Pushing, Releasing, Accepting, Working
<1>1. /\ Acceptor \in Threads
      /\ Goto(Acceptor, "accept", (IF size = 0 THEN "accept" ELSE "top"))
  BY DEF Accepted, Threads
<1>2. /\ pc' \in [Threads -> Accepting \cup Working]
      /\ pc'[Acceptor] \in Accepting /\ \A v \in Workers : pc'[v] \in Working
      /\ pc[Acceptor] = "accept"
      /\ pc'[Acceptor] = (IF size = 0 THEN "accept" ELSE "top")
      /\ \A u \in Threads \ {Acceptor} : pc'[u] = pc[u]
      /\ \A u, v \in InStack \cup (InStack') : u = v
  BY <1>1, Moves DEF Goto, Apart, Types
<1>3. Types'
  BY <1>1, <1>2, Values DEF Apart, Types, TypeOK, Accepted, tables, stack
<1>4. StackOK'
  BY <1>1, <1>2, Values DEF Apart, StackOK, InStack, Accepted, tables, stack
<1>5. Uses'
  BY <1>1, <1>2, QuietUses DEF Accepted, tables, stack
<1>6. OneEach'
  BY <1>1, <1>2, QuietSlots DEF Apart, Accepted, tables, stack
<1>7. Found' /\ SlotsRight'
  BY <1>1, <1>2, QuietTable DEF Accepted, tables, stack
<1> QED BY <1>3, <1>4, <1>5, <1>6, <1>7 DEF Apart

\* The accept thread ends.
LEMMA AcceptFailsKeeps ==
  ASSUME Apart, AcceptFails, races' = {}
  PROVE  Apart'
<1> USE DEF Open, Alone, Late, Popping, Pushing, Releasing, Accepting, Working
<1>1. Acceptor \in Threads /\ Goto(Acceptor, "accept", "ended")
  BY DEF AcceptFails, Threads
<1>2. /\ pc' \in [Threads -> Accepting \cup Working]
      /\ pc'[Acceptor] \in Accepting /\ \A v \in Workers : pc'[v] \in Working
      /\ pc[Acceptor] = "accept" /\ pc'[Acceptor] = "ended"
      /\ \A u \in Threads \ {Acceptor} : pc'[u] = pc[u]
      /\ \A u, v \in InStack \cup (InStack') : u = v
  BY <1>1, Moves DEF Goto, Apart, Types
<1>3. Types'
  BY <1>1, <1>2, Values DEF Apart, Types, TypeOK, AcceptFails, tables, stack
<1>4. StackOK'
  BY <1>1, <1>2, QuietStack DEF AcceptFails, tables, stack
<1>5. Uses'
  BY <1>1, <1>2, QuietUses DEF AcceptFails, tables, stack
<1>6. OneEach'
  BY <1>1, <1>2, QuietSlots DEF Apart, AcceptFails, tables, stack
<1>7. Found' /\ SlotsRight'
  BY <1>1, <1>2, QuietTable DEF AcceptFails, tables, stack
<1> QED BY <1>3, <1>4, <1>5, <1>6, <1>7 DEF Apart

\* The size the accept thread loads stays as it is.
LEMMA PopLoadKeeps ==
  ASSUME Apart, PopLoad, races' = {}
  PROVE  Apart'
<1> USE DEF Open, Alone, Late, Popping, Pushing, Releasing, Accepting, Working
<1>1. Acceptor \in Threads /\ Goto(Acceptor, "popLoad", "popStore")
  BY DEF PopLoad, Threads
<1>2. /\ pc' \in [Threads -> Accepting \cup Working]
      /\ pc'[Acceptor] \in Accepting /\ \A v \in Workers : pc'[v] \in Working
      /\ pc[Acceptor] = "popLoad" /\ pc'[Acceptor] = "popStore"
      /\ \A u \in Threads \ {Acceptor} : pc'[u] = pc[u]
      /\ \A u, v \in InStack \cup (InStack') : u = v
  BY <1>1, Moves DEF Goto, Apart, Types
<1>3. Types'
  BY <1>1, <1>2, Values DEF Apart, Types, TypeOK, PopLoad, tables, stack
<1>4. StackOK'
  BY <1>1, <1>2, Values DEF Apart, StackOK, InStack, PopLoad, tables, stack
<1>5. Uses'
  BY <1>1, <1>2, QuietUses DEF PopLoad, tables, stack
<1>6. OneEach'
  BY <1>1, <1>2, QuietSlots DEF Apart, PopLoad, tables, stack
<1>7. Found' /\ SlotsRight'
  BY <1>1, <1>2, QuietTable DEF PopLoad, tables, stack
<1> QED BY <1>3, <1>4, <1>5, <1>6, <1>7 DEF Apart

\* The session is written at its slot, where no other one is.
LEMMA RegisterKeeps ==
  ASSUME Apart, Register, races' = {}
  PROVE  Apart'
<1> USE DEF Open, Alone, Late, Popping, Pushing, Releasing, Accepting, Working
<1>1. Acceptor \in Threads /\ Goto(Acceptor, "register", "postRecv")
  BY DEF Register, Threads
<1>2. /\ pc' \in [Threads -> Accepting \cup Working]
      /\ pc'[Acceptor] \in Accepting /\ \A v \in Workers : pc'[v] \in Working
      /\ pc[Acceptor] = "register" /\ pc'[Acceptor] = "postRecv"
      /\ \A u \in Threads \ {Acceptor} : pc'[u] = pc[u]
      /\ \A u, v \in InStack \cup (InStack') : u = v
  BY <1>1, Moves DEF Goto, Apart, Types
<1>3. Types'
  BY <1>1, <1>2, Values DEF Apart, Types, TypeOK, Register, stack
<1>4. StackOK'
  BY <1>1, <1>2, QuietStack DEF Register, stack
<1>5. Uses'
  BY <1>1, <1>2, QuietUses DEF Register, stack
<1>6. OneEach'
  BY <1>1, <1>2, QuietSlots DEF Apart, Register, stack
<1>7. /\ at[Acceptor] \in inUse /\ session_id[at[Acceptor]] = newId
      /\ newId.index \in Index
  BY <1>1, <1>2, Values DEF Apart, Uses
<1>8. /\ session_array' = [session_array EXCEPT ![newId.index] = at[Acceptor]]
      /\ UNCHANGED <<inUse, session_id, at>>
  BY DEF Register
<1>9. Found'
  BY <1>1, <1>2, <1>7, <1>8, Values, OwnIndex DEF Apart, Found
<1>10. SlotsRight'
  BY <1>1, <1>2, <1>7, <1>8, Values DEF Apart, SlotsRight
<1> QED BY <1>3, <1>4, <1>5, <1>6, <1>9, <1>10 DEF Apart

\* Only the slot of the session given back is cleared.
LEMMA ClearSlotKeeps ==
  ASSUME Apart, NEW t \in Threads, ClearSlot(t), races' = {}
  PROVE  Apart'
<1> USE DEF Open, Alone, Late, Popping, Pushing, Releasing, Accepting, Working
<1>1. t \in Threads /\ Acceptor \in Threads /\ Goto(t, "null", "push")
  BY DEF ClearSlot, Threads
<1>2. /\ pc' \in [Threads -> Accepting \cup Working]
      /\ pc'[Acceptor] \in Accepting /\ \A v \in Workers : pc'[v] \in Working
      /\ pc[t] = "null" /\ pc'[t] = "push"
      /\ \A u \in Threads \ {t} : pc'[u] = pc[u]
      /\ \A u, v \in InStack \cup (InStack') : u = v
  BY <1>1, Moves DEF Goto, Apart, Types
<1>3. Types'
  BY <1>1, <1>2, Values DEF Apart, Types, TypeOK, ClearSlot, stack
<1>4. StackOK'
  BY <1>1, <1>2, QuietStack DEF ClearSlot, stack
<1>5. Uses'
  BY <1>1, <1>2, QuietUses DEF ClearSlot, stack
<1>6. OneEach'
  BY <1>1, <1>2, QuietSlots DEF Apart, ClearSlot, stack
<1>7. Found'
  <2>1. at[t] \in Sessions /\ Carries(t, session_id[at[t]].index)
    BY <1>1, <1>2 DEF Apart, Uses, Carries
  <2>2. \A p \in inUse : session_id[p].index # session_id[at[t]].index
    BY <1>1, <2>1, OwnIndex
  <2> QED BY <1>1, <1>2, <2>2, Values DEF Apart, Found, ClearSlot
<1>8. SlotsRight'
  BY <1>1, <1>2, Values DEF Apart, SlotsRight, ClearSlot, stack
<1> QED BY <1>3, <1>4, <1>5, <1>6, <1>7, <1>8 DEF Apart

\* The size that a releasing thread loads stays as it is.
LEMMA PushLoadKeeps ==
  ASSUME Apart, NEW t \in Threads, PushLoad(t), races' = {}
  PROVE  Apart'
<1> USE DEF Open, Alone, Late, Popping, Pushing, Releasing, Accepting, Working
<1>1. t \in Threads /\ Acceptor \in Threads /\ Goto(t, "pushLoad", "pushStore")
  BY DEF PushLoad, Threads
<1>2. /\ pc' \in [Threads -> Accepting \cup Working]
      /\ pc'[Acceptor] \in Accepting /\ \A v \in Workers : pc'[v] \in Working
      /\ pc[t] = "pushLoad" /\ pc'[t] = "pushStore"
      /\ \A u \in Threads \ {t} : pc'[u] = pc[u]
      /\ \A u, v \in InStack \cup (InStack') : u = v
  BY <1>1, Moves DEF Goto, Apart, Types
<1>3. Types'
  BY <1>1, <1>2, Values DEF Apart, Types, TypeOK, PushLoad, tables, stack
<1>4. StackOK'
  BY <1>1, <1>2, Values DEF Apart, StackOK, InStack, PushLoad, tables, stack
<1>5. Uses'
  BY <1>1, <1>2, QuietUses DEF PushLoad, tables, stack
<1>6. OneEach'
  BY <1>1, <1>2, QuietSlots DEF Apart, PushLoad, tables, stack
<1>7. Found' /\ SlotsRight'
  BY <1>1, <1>2, QuietTable DEF PushLoad, tables, stack
<1> QED BY <1>3, <1>4, <1>5, <1>6, <1>7 DEF Apart


\* There is room on the stack for a slot that is on its way to it: the places
\* hold slots that differ from it and from each other.
LEMMA Room ==
  ASSUME Apart, NEW t \in Threads, pc[t] = "push", pc[Acceptor] \notin Popping
  PROVE  size < SessionMax
<1> DEFINE i == session_id[at[t]].index
           f == [n \in 1..size |-> top[n]]
<1>1. i \in Index /\ t \in Carriers(i)
  BY Values DEF Apart, Uses, Late, Carriers, Carries
<1>2. Places(i) = {}
  BY <1>1, Unshared
<1>3. Pushed = 1..size /\ size \in Nat /\ size <= SessionMax + MaxAccepts
  BY TableAssumption DEF Pushed, Popping, Apart, Types, TypeOK
<1>4. \A n \in 1..size : top[n] \in Index /\ n \in Places(top[n])
  BY <1>3, TableAssumption DEF Places, Apart, Types, TypeOK
<1>5. \A n \in 1..size : f[n] \in Index \ {i}
  BY <1>2, <1>4
<1>6. \A m, n \in 1..size : f[m] = f[n] => m = n
  BY <1>4, Unshared
<1>7. f \in Injection(1..size, Index \ {i})
  <2> HIDE DEF i
  <2>1. f \in [1..size -> Index \ {i}]
    BY <1>5
  <2> QED BY <1>6, <2>1 DEF Injection, IsInjective
<1>8. /\ IsFiniteSet(Index) /\ Cardinality(Index) = SessionMax
      /\ Cardinality(1..size) = size
  <2>1. SessionMax \in Nat \ {0} /\ size \in Nat
    BY <1>3, TableAssumption
  <2>2. IsFiniteSet(0..SessionMax - 1) /\ Cardinality(0..SessionMax - 1) = SessionMax
    BY <2>1, FS_Interval, 0 \in Int, SessionMax - 1 \in Int
  <2>3. Cardinality(1..size) = size
    BY <2>1, FS_Interval, 1 \in Int, size \in Int
  <2> QED BY <2>2, <2>3 DEF Index
<1>9. IsFiniteSet(Index \ {i}) /\ Cardinality(Index \ {i}) = SessionMax - 1
  BY <1>1, <1>8, FS_RemoveElement
<1>10. Cardinality(1..size) <= Cardinality(Index \ {i})
  <2> HIDE DEF f, i
  <2> QED BY <1>7, <1>9, FS_Injection
<1> QED BY <1>3, <1>8, <1>9, <1>10, TableAssumption

\* top() hands the highest slot to the accept thread.
LEMMA TopKeeps ==
  ASSUME Apart, Top, races' = {}
  PROVE  Apart'
<1> USE DEF Open, Alone, Late, Popping, Pushing, Releasing, Accepting, Working
<1>1. Acceptor \in Threads /\ Goto(Acceptor, "top", "popLoad")
  BY DEF Top, Threads
<1>2. /\ pc' \in [Threads -> Accepting \cup Working]
      /\ pc'[Acceptor] \in Accepting /\ \A v \in Workers : pc'[v] \in Working
      /\ pc[Acceptor] = "top" /\ pc'[Acceptor] = "popLoad"
      /\ \A u \in Threads \ {Acceptor} : pc'[u] = pc[u]
      /\ \A u, v \in InStack \cup (InStack') : u = v
  BY <1>1, Moves DEF Goto, Apart, Types
<1>3. /\ size \in Nat /\ size > 0 /\ top[size] \in Index
      /\ unique \in 0..UniqueMod - 1 /\ unique' \in 0..UniqueMod - 1
  BY <1>2, TableAssumption DEF Apart, StackOK, Types, TypeOK, Top
<1>4. Types'
  <2>1. newId' \in [index : Index, unique : 0..UniqueMod - 1]
    BY <1>3 DEF Top, Id
  <2> QED BY <1>2, <1>3, <2>1 DEF Apart, Types, TypeOK, Top, tables, stack
<1>5. StackOK'
  BY <1>1, <1>2, Values DEF Apart, StackOK, InStack, Top, tables, stack, Id
<1>6. OneEach'
  <2>1. PICK i \in Index : i = top[size]
    BY <1>3
  <2>2. newId'.index = i /\ UNCHANGED <<top, size, inUse, session_id, at, lost>>
    BY <2>1 DEF Top, tables, stack, Id
  <2>3. Pushed = 1..size /\ Pushed' = 1..size - 1
    BY <1>2, <2>2 DEF Pushed
  <2>4. \A u \in Threads : \A j : Carries(u, j)' <=>
          Carries(u, j) \/ (u = Acceptor /\ j = i)
    BY <1>1, <1>2, <2>2 DEF Carries, Apart, Types, Threads
  <2>5. \A j \in Index \ {i} : Places(j)' = Places(j)
    BY <1>3, <2>1, <2>2, <2>3 DEF Places
  <2>6. \A j \in Index \ {i} : Carriers(j)' = Carriers(j)
    BY <2>4 DEF Carriers
  <2>7. \A j \in Index : Users(j)' = Users(j)
    BY <2>2 DEF Users
  <2>8. size \in Places(i)
    BY <1>3, <2>1, <2>3 DEF Places
  <2>9. /\ Users(i)' = {} /\ Carriers(i)' = {Acceptor} /\ i \notin lost'
        /\ Places(i)' = {}
    <3>1. Users(i) = {} /\ Carriers(i) = {} /\ i \notin lost
      BY <2>1, <2>8, Unshared
    <3>2. \A n \in Places(i) : n = size
      BY <2>1, <2>8, Unshared
    <3>3. Places(i)' = {}
      BY <1>3, <2>1, <2>2, <2>3, <3>2 DEF Places
    <3>4. Carriers(i)' = {Acceptor}
      <4>1. \A u \in Threads : ~Carries(u, i)
        BY <3>1 DEF Carriers
      <4> QED BY <1>1, <2>4, <4>1 DEF Carriers
    <3> QED BY <2>1, <2>2, <2>7, <3>1, <3>3, <3>4
  <2>10. OnePart(i)'
    BY <1>1, <2>9 DEF OnePart
  <2> QED BY <2>1, <2>2, <2>5, <2>6, <2>7, <2>10, PartMoves DEF Apart
<1>7. Uses'
  BY <1>1, <1>2, QuietUses DEF Top, tables, stack, Id
<1>8. Found' /\ SlotsRight'
  BY <1>1, <1>2, QuietTable DEF Top, tables, stack, Id
<1> QED BY <1>4, <1>5, <1>6, <1>7, <1>8 DEF Apart

\* pop(): the slot goes on to the session, or is lost.
LEMMA PopStoreKeeps ==
  ASSUME Apart, PopStore, races' = {}
  PROVE  Apart'
<1> USE DEF Open, Alone, Late, Popping, Pushing, Releasing, Accepting, Working
<1>1. /\ Acceptor \in Threads
      /\ Goto(Acceptor, "popStore",
              (IF newId = INVALID THEN "accept" ELSE "alloc"))
  BY DEF PopStore, Threads
<1>2. /\ pc' \in [Threads -> Accepting \cup Working]
      /\ pc'[Acceptor] \in Accepting /\ \A v \in Workers : pc'[v] \in Working
      /\ pc[Acceptor] = "popStore"
      /\ pc'[Acceptor] = (IF newId = INVALID THEN "accept" ELSE "alloc")
      /\ \A u \in Threads \ {Acceptor} : pc'[u] = pc[u]
      /\ \A u, v \in InStack \cup (InStack') : u = v
  BY <1>1, Moves DEF Goto, Apart, Types
<1>3. Types'
  <2>1. size' = size - 1 /\ size > 0
    BY <1>1, <1>2 DEF Apart, StackOK, PopStore
  <2> QED BY <1>2, <2>1, TableAssumption
          DEF Apart, Types, TypeOK, PopStore, tables
<1>4. StackOK'
  BY <1>1, <1>2, Values DEF Apart, StackOK, InStack, PopStore, tables
<1>5. OneEach'
  <2>1. /\ size' = size - 1 /\ size \in Nat /\ newId.index \in Index
        /\ UNCHANGED <<top, inUse, session_id, at, newId>>
    BY <1>1, <1>2, Values DEF PopStore, tables, Apart, StackOK
  <2>2. Pushed' = Pushed
    BY <1>2, <2>1 DEF Pushed
  <2>3. \A j \in Index : Places(j)' = Places(j) /\ Users(j)' = Users(j)
    BY <2>1, <2>2 DEF Places, Users
  <2>4. \A u \in Threads \ {Acceptor} : \A j : Carries(u, j)' <=> Carries(u, j)
    BY <1>1, <1>2, <2>1 DEF Carries, InStack
  <2>5. CASE newId = INVALID
    <3>0. PICK i \in Index : i = newId.index
      BY <2>1
    <3>1. \A j : Carries(Acceptor, j) <=> j = i
      BY <1>1, <1>2, <3>0 DEF Carries
    <3>2. \A j : ~Carries(Acceptor, j)'
      BY <1>1, <1>2, <2>5 DEF Carries
    <3>3. lost' = lost \cup {i}
      BY <2>5, <3>0 DEF PopStore
    <3>4. Acceptor \in Carriers(i)
      BY <1>1, <3>1 DEF Carriers
    <3>5. Places(i) = {} /\ Users(i) = {} /\ \A u \in Carriers(i) : u = Acceptor
      BY <2>1, <3>4, Unshared
    <3>6. \A j \in Index \ {i} : Carriers(j)' = Carriers(j)
      BY <2>4, <3>1, <3>2 DEF Carriers
    <3>7. Carriers(i)' = {}
      <4>1. \A u \in Threads \ {Acceptor} : ~Carries(u, i)
        BY <3>5 DEF Carriers
      <4> QED BY <2>4, <3>2, <4>1 DEF Carriers
    <3>8. OnePart(i)'
      BY <2>1, <2>3, <3>3, <3>5, <3>7 DEF OnePart
    <3> QED BY <2>1, <2>3, <3>3, <3>6, <3>8, PartMoves DEF Apart
  <2>6. CASE newId # INVALID
    <3>1. \A j : Carries(Acceptor, j)' <=> Carries(Acceptor, j)
      BY <1>1, <1>2, <2>1, <2>6 DEF Carries
    <3>2. \A j \in Index : Carriers(j)' = Carriers(j)
      BY <2>4, <3>1 DEF Carriers
    <3>3. lost' = lost
      BY <2>6 DEF PopStore
    <3> QED BY <2>3, <3>2, <3>3, SameParts DEF Apart
  <2> QED BY <2>5, <2>6
<1>6. Uses'
  BY <1>1, <1>2, QuietUses DEF PopStore, tables
<1>7. Found' /\ SlotsRight'
  BY <1>1, <1>2, QuietTable DEF PopStore, tables
<1> QED BY <1>3, <1>4, <1>5, <1>6, <1>7 DEF Apart

\* The slot is now the session's.
LEMMA AllocKeeps ==
  ASSUME Apart, Alloc, races' = {}
  PROVE  Apart'
<1> USE DEF Open, Alone, Late, Popping, Pushing, Releasing, Accepting, Working
<1>1. PICK p \in Sessions \ inUse :
        /\ pc[Acceptor] = "alloc" /\ pc' = [pc EXCEPT ![Acceptor] = "register"]
        /\ Reading(p) = {} /\ inUse' = inUse \cup {p}
        /\ session_id' = [session_id EXCEPT ![p] = newId]
        /\ at' = [at EXCEPT ![Acceptor] = p]
        /\ UNCHANGED <<session_array, calls, stack, unique, reg, newId, lost>>
  BY DEF Alloc
<1>2. /\ Acceptor \in Threads /\ pc \in [Threads -> Accepting \cup Working]
      /\ pc'[Acceptor] = "register" /\ at'[Acceptor] = p
      /\ \A u \in Threads \ {Acceptor} : pc'[u] = pc[u] /\ at'[u] = at[u]
      /\ session_id'[p] = newId /\ newId.index \in Index
      /\ \A q \in inUse : session_id'[q] = session_id[q]
  BY <1>1, Values DEF Threads, Apart, Types
<1>3. \A u \in Threads : pc[u] \in Open \cup Late => at[u] # p
  BY <1>1 DEF Apart, Uses, Reading
<1>4. Types'
  <2>1. newId \in [index : Index, unique : 0..UniqueMod - 1]
    BY DEF Apart, Types
  <2>2. session_id' \in [Sessions -> [index : Index, unique : 0..UniqueMod - 1]]
    BY <1>1, <2>1 DEF Apart, Types, TypeOK
  <2>3. /\ pc' \in [Threads -> Accepting \cup Working]
        /\ \A w \in Workers : pc'[w] \in Working
    BY <1>1, <1>2, TableAssumption DEF Apart, Types, Threads
  <2> QED BY <1>1, <1>2, <2>1, <2>2, <2>3 DEF Apart, Types, TypeOK, stack
<1>5. StackOK'
  BY <1>1, <1>2 DEF Apart, StackOK, InStack, stack
<1>6. Uses'
  BY <1>1, <1>2, <1>3, Values DEF Apart, Uses
<1>7. OneEach'
  <2>1. PICK i \in Index : i = newId.index
    BY <1>2
  <2>2. \A j \in Index : Places(j)' = Places(j)
    BY <1>1, <1>2 DEF Places, Pushed, stack
  <2>3. \A u \in Threads : \A j : Carries(u, j)' <=> Carries(u, j) /\ u # Acceptor
    BY <1>1, <1>2, <1>3, Values DEF Carries, stack, Apart, Uses
  <2>4. \A j : Carries(Acceptor, j) <=> j = i
    BY <1>1, <2>1 DEF Carries
  <2>5. Acceptor \in Carriers(i)
    BY <1>2, <2>4 DEF Carriers
  <2>6. Places(i) = {} /\ Users(i) = {} /\ i \notin lost
    BY <2>5, Unshared
  <2>7. Carriers(i)' = {}
    <3>1. \A u \in Threads : Carries(u, i) => u = Acceptor
      BY <2>5, Unshared DEF Carriers
    <3> QED BY <2>3, <3>1 DEF Carriers
  <2>8. \A j \in Index \ {i} : Carriers(j)' = Carriers(j)
    BY <2>3, <2>4 DEF Carriers
  <2>9. \A j \in Index \ {i} : Users(j)' = Users(j)
    BY <1>1, <1>2, <2>1 DEF Users
  <2>10. Users(i)' = {p}
    BY <1>1, <1>2, <2>1, <2>6 DEF Users
  <2>11. OnePart(i)'
    BY <1>1, <2>2, <2>6, <2>7, <2>10 DEF OnePart
  <2> QED BY <1>1, <2>2, <2>8, <2>9, <2>11, PartMoves DEF Apart
<1>8. Found'
  BY <1>1, <1>2 DEF Apart, Found
<1>9. SlotsRight'
  BY <1>1, <1>2, <1>3, Values DEF Apart, Uses, SlotsRight
<1> QED BY <1>4, <1>5, <1>6, <1>7, <1>8, <1>9 DEF Apart

\* The first WSARecv is in flight, or the accept thread releases.
LEMMA FirstRecvKeeps ==
  ASSUME Apart, FirstRecv, races' = {}
  PROVE  Apart'
<1> USE DEF Open, Alone, Late, Popping, Pushing, Releasing, Accepting, Working
<1>1. PICK to \in {"accept", "free"} :
        /\ Goto(Acceptor, "postRecv", to)
        /\ \/ /\ to = "accept"
              /\ calls' = [calls EXCEPT ![at[Acceptor]] = {"recv"}]
              /\ at' = [at EXCEPT ![Acceptor] = NULL]
           \/ to = "free" /\ UNCHANGED <<calls, at>>
  BY DEF FirstRecv, tables
<1>2. /\ Acceptor \in Threads
      /\ UNCHANGED <<session_array, inUse, session_id, stack, unique, reg,
                     newId, lost>>
  BY DEF FirstRecv, tables, Threads
<1>3. /\ pc' \in [Threads -> Accepting \cup Working]
      /\ pc'[Acceptor] \in Accepting /\ \A v \in Workers : pc'[v] \in Working
      /\ pc[Acceptor] = "postRecv" /\ pc'[Acceptor] = to
      /\ \A u \in Threads \ {Acceptor} : pc'[u] = pc[u]
      /\ \A u, v \in InStack \cup (InStack') : u = v
  BY <1>1, <1>2, Moves DEF Goto, Apart, Types
<1>4. at[Acceptor] \in inUse /\ inUse \subseteq Sessions
  BY <1>2, <1>3, Values DEF Apart, Uses
<1>5. Types'
  <2>1. calls' \in [Sessions -> SUBSET {"recv", "send"}]
    BY <1>1, <1>2, <1>3, <1>4, Values
  <2>2. at' \in [Threads -> Sessions \cup {NULL}]
    BY <1>1, <1>2, <1>3, <1>4, Values
  <2> QED BY <1>1, <1>2, <1>3, <2>1, <2>2 DEF Apart, Types, TypeOK, stack
<1>6. StackOK'
  BY <1>2, <1>3, QuietStack DEF stack
<1>7. Uses'
  BY <1>1, <1>2, <1>3, <1>4, Values DEF Apart, Uses
<1>8. OneEach'
  BY <1>1, <1>2, <1>3, Values, QuietSlots DEF Apart, stack
<1>9. Found' /\ SlotsRight'
  BY <1>1, <1>2, <1>3, Values, QuietTable
<1> QED BY <1>5, <1>6, <1>7, <1>8, <1>9 DEF Apart

-----------------------------------------------------------------------------
(* The workers *)

\* A worker takes a completed WSARecv.
LEMMA RecvCompletionKeeps ==
  ASSUME Apart, NEW w \in Workers, RecvCompletion(w), races' = {}
  PROVE  Apart'
<1> USE DEF Open, Alone, Late, Popping, Pushing, Releasing, Accepting, Working
<1>1. /\ w \in Threads /\ w # Acceptor /\ Acceptor \in Threads
      /\ UNCHANGED <<session_array, inUse, session_id, stack, unique, reg,
                     newId, lost>>
  BY TableAssumption DEF RecvCompletion, tables, Threads
<1>2. PICK p \in Sessions, to \in {"onRecv", "decrement"} :
        /\ calls[p] # {} /\ Goto(w, "gqcs", to) /\ at' = [at EXCEPT ![w] = p]
        /\ \/ UNCHANGED calls
           \/ calls' = [calls EXCEPT ![p] = @ \ {"recv"}]
  BY DEF RecvCompletion
<1>3. /\ pc' \in [Threads -> Accepting \cup Working]
      /\ pc'[Acceptor] \in Accepting /\ \A v \in Workers : pc'[v] \in Working
      /\ pc[w] = "gqcs" /\ pc'[w] = to
      /\ \A u \in Threads \ {w} : pc'[u] = pc[u]
      /\ \A u, v \in InStack \cup (InStack') : u = v
  BY <1>1, <1>2, Moves DEF Goto, Apart, Types
<1>4. p \in inUse
  BY <1>2 DEF Apart, Uses
<1>5. Types'
  <2>1. calls' \in [Sessions -> SUBSET {"recv", "send"}]
    BY <1>1, <1>2, <1>3, <1>4, Values
  <2>2. at' \in [Threads -> Sessions \cup {NULL}]
    BY <1>1, <1>2, <1>3, <1>4, Values
  <2> QED BY <1>1, <1>2, <1>3, <2>1, <2>2 DEF Apart, Types, TypeOK, stack
<1>6. StackOK'
  BY <1>1, <1>3, QuietStack DEF stack
<1>7. Uses'
  BY <1>1, <1>2, <1>3, <1>4, Values DEF Apart, Uses
<1>8. OneEach'
  BY <1>1, <1>2, <1>3, Values, QuietSlots DEF Apart, stack
<1>9. Found' /\ SlotsRight'
  BY <1>1, <1>2, <1>3, Values, QuietTable
<1> QED BY <1>5, <1>6, <1>7, <1>8, <1>9 DEF Apart

\* A worker takes a completed WSASend.
LEMMA SendCompletionKeeps ==
  ASSUME Apart, NEW w \in Workers, SendCompletion(w), races' = {}
  PROVE  Apart'
<1> USE DEF Open, Alone, Late, Popping, Pushing, Releasing, Accepting, Working
<1>1. /\ w \in Threads /\ w # Acceptor /\ Acceptor \in Threads
      /\ UNCHANGED <<session_array, inUse, session_id, stack, unique, reg,
                     newId, lost>>
  BY TableAssumption DEF SendCompletion, tables, Threads
<1>2. PICK p \in Sessions :
        /\ calls[p] # {} /\ Goto(w, "gqcs", "decrement")
        /\ at' = [at EXCEPT ![w] = p]
        /\ \/ UNCHANGED calls
           \/ calls' = [calls EXCEPT ![p] = @ \ {"send"}]
  BY DEF SendCompletion
<1>3. /\ pc' \in [Threads -> Accepting \cup Working]
      /\ pc'[Acceptor] \in Accepting /\ \A v \in Workers : pc'[v] \in Working
      /\ pc[w] = "gqcs" /\ pc'[w] = "decrement"
      /\ \A u \in Threads \ {w} : pc'[u] = pc[u]
      /\ \A u, v \in InStack \cup (InStack') : u = v
  BY <1>1, <1>2, Moves DEF Goto, Apart, Types
<1>4. p \in inUse
  BY <1>2 DEF Apart, Uses
<1>5. Types'
  <2>1. calls' \in [Sessions -> SUBSET {"recv", "send"}]
    BY <1>1, <1>2, <1>3, <1>4, Values
  <2>2. at' \in [Threads -> Sessions \cup {NULL}]
    BY <1>1, <1>2, <1>3, <1>4, Values
  <2> QED BY <1>1, <1>2, <1>3, <2>1, <2>2 DEF Apart, Types, TypeOK, stack
<1>6. StackOK'
  BY <1>1, <1>3, QuietStack DEF stack
<1>7. Uses'
  BY <1>1, <1>2, <1>3, <1>4, Values DEF Apart, Uses
<1>8. OneEach'
  BY <1>1, <1>2, <1>3, Values, QuietSlots DEF Apart, stack
<1>9. Found' /\ SlotsRight'
  BY <1>1, <1>2, <1>3, Values, QuietTable
<1> QED BY <1>5, <1>6, <1>7, <1>8, <1>9 DEF Apart

\* What OnRecv finds at a session's slot is that session.
LEMMA FindsIt ==
  ASSUME Apart, NEW w \in Workers, pc[w] = "onRecv"
  PROVE  session_array[session_id[at[w]].index] = at[w] /\ at[w] \in inUse
<1>1. w \in Threads /\ Acceptor \in Threads /\ w # Acceptor
  BY TableAssumption DEF Threads
<1>2. at[w] \in inUse
  BY <1>1 DEF Apart, Uses, Open
<1>3. ~(pc[Acceptor] = "register" /\ at[Acceptor] = at[w])
  BY <1>1 DEF Apart, Uses, Open, Alone
<1> QED BY <1>2, <1>3 DEF Apart, Found

\* A worker posts a WSASend on the session it found.
LEMMA OnRecvKeeps ==
  ASSUME Apart, NEW w \in Workers, OnRecv(w), races' = {}
  PROVE  Apart'
<1> USE DEF Open, Alone, Late, Popping, Pushing, Releasing, Accepting, Working
<1>1. /\ w \in Threads /\ w # Acceptor /\ Acceptor \in Threads
      /\ UNCHANGED <<session_array, inUse, session_id, stack, unique, reg,
                     newId, lost>>
  BY TableAssumption DEF OnRecv, tables, Threads
<1>2. /\ Goto(w, "onRecv", "decrement") /\ UNCHANGED at /\ at[w] \in inUse
      /\ \/ UNCHANGED calls
         \/ calls' = [calls EXCEPT ![at[w]] = @ \cup {"send"}]
  <2>1. pc[w] = "onRecv"
    BY DEF OnRecv, Goto
  <2>2. session_array[session_id[at[w]].index] = at[w] /\ at[w] \in inUse
    BY <2>1, FindsIt
  <2> QED BY <2>2, Values DEF OnRecv
<1>3. /\ pc' \in [Threads -> Accepting \cup Working]
      /\ pc'[Acceptor] \in Accepting /\ \A v \in Workers : pc'[v] \in Working
      /\ pc[w] = "onRecv" /\ pc'[w] = "decrement"
      /\ \A u \in Threads \ {w} : pc'[u] = pc[u]
      /\ \A u, v \in InStack \cup (InStack') : u = v
  BY <1>1, <1>2, Moves DEF Goto, Apart, Types
<1>4. at[w] \in Sessions
  BY <1>2, Values
<1>5. Types'
  <2>1. calls' \in [Sessions -> SUBSET {"recv", "send"}]
    BY <1>1, <1>2, <1>3, <1>4, Values
  <2>2. at' \in [Threads -> Sessions \cup {NULL}]
    BY <1>1, <1>2, <1>3, <1>4, Values
  <2> QED BY <1>1, <1>2, <1>3, <2>1, <2>2 DEF Apart, Types, TypeOK, stack
<1>6. StackOK'
  BY <1>1, <1>3, QuietStack DEF stack
<1>7. Uses'
  BY <1>1, <1>2, <1>3, <1>4, Values DEF Apart, Uses
<1>8. OneEach'
  BY <1>1, <1>2, <1>3, Values, QuietSlots DEF Apart, stack
<1>9. Found' /\ SlotsRight'
  BY <1>1, <1>2, <1>3, Values, QuietTable
<1> QED BY <1>5, <1>6, <1>7, <1>8, <1>9 DEF Apart

\* Who drops the last count is alone with the session.
LEMMA DecrementKeeps ==
  ASSUME Apart, NEW w \in Workers, Decrement(w), races' = {}
  PROVE  Apart'
<1> USE DEF Open, Alone, Late, Popping, Pushing, Releasing, Accepting, Working
<1>1. /\ w \in Threads /\ w # Acceptor /\ Acceptor \in Threads
      /\ UNCHANGED <<session_array, inUse, session_id, stack, unique, reg,
                     newId, lost>>
  BY TableAssumption DEF Decrement, tables, Threads
<1>2. PICK to \in {"free", "gqcs"} :
        /\ Goto(w, "decrement", to) /\ UNCHANGED calls
        /\ \/ to = "free" /\ Unused(w) /\ UNCHANGED at
           \/ to = "gqcs" /\ at' = [at EXCEPT ![w] = NULL]
  BY DEF Decrement, tables
<1>3. /\ pc' \in [Threads -> Accepting \cup Working]
      /\ pc'[Acceptor] \in Accepting /\ \A v \in Workers : pc'[v] \in Working
      /\ pc[w] = "decrement" /\ pc'[w] = to
      /\ \A u \in Threads \ {w} : pc'[u] = pc[u]
      /\ \A u, v \in InStack \cup (InStack') : u = v
  BY <1>1, <1>2, Moves DEF Goto, Apart, Types
<1>4. to = "free" =>
        /\ calls[at[w]] = {}
        /\ \A u \in Threads \ {w} : ~(pc[u] \in Open /\ at[u] = at[w])
  <2> SUFFICES ASSUME to = "free", NEW u \in Threads \ {w},
                      pc[u] \in Open, at[u] = at[w]
               PROVE  FALSE
    BY <1>2 DEF Unused
  <2>1. pc[u] \notin Alone
    BY <1>1, <1>3 DEF Apart, Uses
  <2>2. u \in Workers
    BY <2>1 DEF Apart, Types, Threads
  <2> QED BY <1>2, <2>1, <2>2 DEF Unused
<1>5. Types'
  <2>1. calls' \in [Sessions -> SUBSET {"recv", "send"}]
    BY <1>1, <1>2, <1>3, <1>4, Values
  <2>2. at' \in [Threads -> Sessions \cup {NULL}]
    BY <1>1, <1>2, <1>3, <1>4, Values
  <2> QED BY <1>1, <1>2, <1>3, <2>1, <2>2 DEF Apart, Types, TypeOK, stack
<1>6. StackOK'
  BY <1>1, <1>3, QuietStack DEF stack
<1>7. Uses'
  BY <1>1, <1>2, <1>3, <1>4, Values DEF Apart, Uses
<1>8. OneEach'
  BY <1>1, <1>2, <1>3, Values, QuietSlots DEF Apart, stack
<1>9. Found' /\ SlotsRight'
  BY <1>1, <1>2, <1>3, Values, QuietTable
<1> QED BY <1>5, <1>6, <1>7, <1>8, <1>9 DEF Apart

-----------------------------------------------------------------------------
(* Release_Session *)

\* The slot goes from the session to the thread that gives it back.
LEMMA FreeKeeps ==
  ASSUME Apart, NEW t \in Threads, Free(t), races' = {}
  PROVE  Apart'
<1> USE DEF Open, Alone, Late, Popping, Pushing, Releasing, Accepting, Working
<1>1. t \in Threads /\ Acceptor \in Threads /\ Goto(t, "free", "null")
  BY DEF Free, Threads
<1>2. /\ pc' \in [Threads -> Accepting \cup Working]
      /\ pc'[Acceptor] \in Accepting /\ \A v \in Workers : pc'[v] \in Working
      /\ pc[t] = "free" /\ pc'[t] = "null"
      /\ \A u \in Threads \ {t} : pc'[u] = pc[u]
      /\ \A u, v \in InStack \cup (InStack') : u = v
  BY <1>1, Moves DEF Goto, Apart, Types
<1>3. /\ at[t] \in inUse /\ at[t] \in Sessions /\ inUse' = inUse \ {at[t]}
      /\ UNCHANGED <<session_array, session_id, calls, stack, at, newId, lost>>
  BY <1>2, Values DEF Free, Apart, Uses
<1>4. Types'
  BY <1>1, <1>2, <1>3, Values DEF Apart, Types, TypeOK, Free, stack
<1>5. StackOK'
  BY <1>1, <1>2, QuietStack DEF Free, stack
<1>6. Uses'
  BY <1>1, <1>2, <1>3, Values DEF Apart, Uses, Free, stack
<1>7. OneEach'
  <2>1. PICK i \in Index : i = session_id[at[t]].index
    BY <1>3, Values
  <2>2. \A j \in Index : Places(j)' = Places(j)
    BY <1>1, <1>2, <1>3 DEF Places, Pushed, stack
  <2>3. at[t] \in Users(i)
    BY <1>3, <2>1 DEF Users
  <2>4. Places(i) = {} /\ Carriers(i) = {} /\ i \notin lost
    BY <2>3, Unshared
  <2>5. Users(i)' = {}
    <3>1. \A q \in Users(i) : q = at[t]
      BY <2>3, Unshared
    <3> QED BY <1>3, <3>1 DEF Users
  <2>6. \A j \in Index \ {i} : Users(j)' = Users(j)
    BY <1>3, <2>1 DEF Users
  <2>7. \A u \in Threads : \A j :
          Carries(u, j)' <=> Carries(u, j) \/ (u = t /\ j = i)
    BY <1>1, <1>2, <1>3, <2>1 DEF Carries, stack
  <2>8. \A j \in Index \ {i} : Carriers(j)' = Carriers(j)
    BY <2>7 DEF Carriers
  <2>9. Carriers(i)' = {t}
    <3>1. \A u \in Threads : ~Carries(u, i)
      BY <2>4 DEF Carriers
    <3> QED BY <1>1, <2>7, <3>1 DEF Carriers
  <2>10. OnePart(i)'
    BY <1>1, <1>3, <2>2, <2>4, <2>5, <2>9 DEF OnePart
  <2> QED BY <1>3, <2>2, <2>6, <2>8, <2>10, PartMoves DEF Apart
<1>8. Found'
  BY <1>1, <1>2, <1>3, Values DEF Apart, Found, Free, stack
<1>9. SlotsRight'
  BY <1>1, <1>2, <1>3, Values DEF Apart, SlotsRight, Free, stack
<1> QED BY <1>4, <1>5, <1>6, <1>7, <1>8, <1>9 DEF Apart

\* push() writes the slot above all others.
LEMMA PushKeeps ==
  ASSUME Apart, NEW t \in Threads, Push(t), races' = {}
  PROVE  Apart'
<1> USE DEF Open, Alone, Late, Popping, Pushing, Releasing, Accepting, Working
<1>1. t \in Threads /\ Acceptor \in Threads /\ Goto(t, "push", "pushLoad")
  BY DEF Push, Threads
<1>2. /\ pc' \in [Threads -> Accepting \cup Working]
      /\ pc'[Acceptor] \in Accepting /\ \A v \in Workers : pc'[v] \in Working
      /\ pc[t] = "push" /\ pc'[t] = "pushLoad"
      /\ \A u \in Threads \ {t} : pc'[u] = pc[u]
      /\ \A u, v \in InStack \cup (InStack') : u = v
  BY <1>1, Moves DEF Goto, Apart, Types
<1>3. /\ top' = [top EXCEPT ![size + 1] = session_id[at[t]].index]
      /\ at[t] \in Sessions /\ session_id[at[t]].index \in Index
      /\ UNCHANGED <<size, inUse, session_id, at, newId, lost>>
  BY <1>2, Values DEF Push, tables, Apart, Uses
<1>4. /\ t \in InStack' /\ \A u \in Threads \ {t} : u \notin InStack
      /\ pc[Acceptor] \notin Popping /\ pc'[Acceptor] \notin Popping
  BY <1>1, <1>2 DEF InStack
<1>5. /\ size < SessionMax /\ size + 1 \in 1..SessionMax + MaxAccepts /\ size \in Nat
      /\ DOMAIN top = 1..SessionMax + MaxAccepts
  <2>1. size < SessionMax
    BY <1>2, <1>4, Room
  <2> QED BY <2>1, Values, TableAssumption DEF Apart, Types, TypeOK
<1>6. Types'
  BY <1>1, <1>2, <1>3, <1>4, <1>5, Values DEF Apart, Types, TypeOK, Push, tables
<1>7. StackOK'
  BY <1>1, <1>2, <1>3, <1>4, <1>5, Values
     DEF Apart, StackOK, InStack, Push, tables
<1>8. Uses'
  BY <1>1, <1>2, QuietUses DEF Push, tables
<1>9. OneEach'
  <2>1. Pushed = 1..size /\ Pushed' = 1..size
    BY <1>3, <1>4 DEF Pushed
  <2>2. \A n \in 1..size : top'[n] = top[n]
    BY <1>3, <1>5
  <2>3. \A j \in Index : Places(j)' = Places(j) /\ Users(j)' = Users(j)
    BY <1>3, <2>1, <2>2 DEF Places, Users
  <2>4. \A j : Carries(t, j)' <=> Carries(t, j)
    BY <1>2, <1>3, <1>5 DEF Carries
  <2>5. \A u \in Threads \ {t} : \A j : Carries(u, j)' <=> Carries(u, j)
    BY <1>2, <1>3, <1>4 DEF Carries, InStack
  <2>6. \A j \in Index : Carriers(j)' = Carriers(j)
    BY <2>4, <2>5 DEF Carriers
  <2> QED BY <1>3, <2>3, <2>6, SameParts DEF Apart
<1>10. Found' /\ SlotsRight'
  BY <1>1, <1>2, QuietTable DEF Push, tables
<1> QED BY <1>6, <1>7, <1>8, <1>9, <1>10 DEF Apart

\* The slot is on the stack.
LEMMA PushStoreKeeps ==
  ASSUME Apart, NEW t \in Threads, PushStore(t), races' = {}
  PROVE  Apart'
<1> USE DEF Open, Alone, Late, Popping, Pushing, Releasing, Accepting, Working
<1>1. /\ t \in Threads /\ Acceptor \in Threads
      /\ Goto(t, "pushStore", (IF t = Acceptor THEN "accept" ELSE "gqcs"))
  BY DEF PushStore, Threads
<1>2. /\ pc' \in [Threads -> Accepting \cup Working]
      /\ pc'[Acceptor] \in Accepting /\ \A v \in Workers : pc'[v] \in Working
      /\ pc[t] = "pushStore"
      /\ pc'[t] = (IF t = Acceptor THEN "accept" ELSE "gqcs")
      /\ \A u \in Threads \ {t} : pc'[u] = pc[u]
      /\ \A u, v \in InStack \cup (InStack') : u = v
  BY <1>1, Moves DEF Goto, Apart, Types
<1>3. /\ size' = size + 1 /\ size < SessionMax /\ size \in Nat
      /\ top[size + 1] \in Index /\ at' = [at EXCEPT ![t] = NULL]
      /\ UNCHANGED <<top, inUse, session_id, newId, lost>>
  BY <1>1, <1>2, Values, TableAssumption
     DEF PushStore, tables, Apart, StackOK, Types, TypeOK
<1>4. /\ t \in InStack /\ \A u \in Threads \ {t} : u \notin InStack \cup (InStack')
      /\ pc[Acceptor] \notin Popping /\ pc'[Acceptor] \notin Popping
  BY <1>1, <1>2 DEF InStack
<1>5. Types'
  <2>1. size' \in 0..SessionMax + MaxAccepts
    BY <1>3, TableAssumption
  <2>2. at' \in [Threads -> Sessions \cup {NULL}]
    BY <1>3, Values
  <2> QED BY <1>2, <1>3, <2>1, <2>2 DEF Apart, Types, TypeOK, PushStore, tables
<1>6. StackOK'
  BY <1>1, <1>2, <1>3, <1>4, Values
     DEF Apart, StackOK, InStack, PushStore, tables
<1>7. Uses'
  BY <1>1, <1>2, QuietUses DEF PushStore, tables
<1>8. OneEach'
  <2>1. PICK i \in Index : i = top[size + 1]
    BY <1>3
  <2>2. Pushed = 1..size /\ Pushed' = 1..size + 1
    BY <1>3, <1>4 DEF Pushed
  <2>3. \A j : Carries(t, j) <=> j = i
    BY <1>2, <2>1 DEF Carries
  <2>4. t \in Carriers(i)
    BY <1>1, <2>3 DEF Carriers
  <2>5. /\ Places(i) = {} /\ Users(i) = {} /\ i \notin lost
        /\ \A u \in Threads : Carries(u, i) => u = t
    BY <2>4, Unshared DEF Carriers
  <2>6. \A u \in Threads : \A j : Carries(u, j)' <=> Carries(u, j) /\ u # t
    BY <1>1, <1>2, <1>3, <1>4 DEF Carries, InStack
  <2>7. Places(i)' = {size + 1}
    BY <1>3, <2>1, <2>2, <2>5 DEF Places
  <2>8. \A j \in Index \ {i} : Places(j)' = Places(j)
    BY <1>3, <2>1, <2>2 DEF Places
  <2>9. \A j \in Index : Users(j)' = Users(j)
    BY <1>3 DEF Users
  <2>10. Carriers(i)' = {}
    BY <2>5, <2>6 DEF Carriers
  <2>11. \A j \in Index \ {i} : Carriers(j)' = Carriers(j)
    BY <2>3, <2>6 DEF Carriers
  <2>12. OnePart(i)'
    BY <1>3, <2>5, <2>7, <2>9, <2>10 DEF OnePart
  <2> QED BY <1>3, <2>8, <2>9, <2>11, <2>12, PartMoves DEF Apart
<1>9. Found' /\ SlotsRight'
  BY <1>1, <1>2, QuietTable DEF PushStore, tables
<1> QED BY <1>5, <1>6, <1>7, <1>8, <1>9 DEF Apart

-----------------------------------------------------------------------------
(* The invariant *)

\* A step that leaves the counter of ids alone, and with it the accept thread's
\* way from top to PopStore.
LEMMA QuietUnique ==
  ASSUME UniqueOK, UNCHANGED <<unique, newId, accepts, lost>>,
         DOMAIN pc' = Threads,
         pc'[Acceptor] \in {"top"} \cup Popping =>
           \/ pc'[Acceptor] = pc[Acceptor]
           \/ pc[Acceptor] = "popLoad" /\ pc'[Acceptor] = "popStore"
  PROVE  UniqueOK'
BY DEF UniqueOK, Popping

\* Each accept draws one number at most.
LEMMA UniqueStep == UniqueOK /\ [Next]_vars => UniqueOK'
<1> SUFFICES ASSUME UniqueOK, [Next]_vars PROVE UniqueOK'
  OBVIOUS
<1> USE DEF Popping
<1>1. UniqueMod \in Nat \ {0} /\ Acceptor \in Threads /\ Acceptor \notin Workers
  BY TableAssumption DEF Threads
<1>2. CASE Accepted
  BY <1>1, <1>2 DEF UniqueOK, Accepted, Goto
<1>3. CASE AcceptFails
  BY <1>1, <1>3, QuietUnique DEF UniqueOK, AcceptFails, Goto
<1>4. CASE Top
  <2>1. /\ pc[Acceptor] = "top" /\ pc' = [pc EXCEPT ![Acceptor] = "popLoad"]
        /\ newId'.unique = unique /\ unique' = (unique + 1) % UniqueMod
        /\ UNCHANGED <<accepts, lost>>
    BY <1>4 DEF Top, Goto, Id
  <2>2. /\ accepts \in Nat /\ unique \in 0..UniqueMod - 1 /\ DOMAIN pc = Threads
        /\ accepts < UniqueMod => unique \in 1..accepts
        /\ lost \subseteq {0} /\ (lost # {} => accepts >= UniqueMod)
    BY <2>1 DEF UniqueOK
  <2>3. unique' \in 0..UniqueMod - 1
    BY <1>1, <2>1, <2>2
  <2>4. accepts < UniqueMod - 1 => unique' \in 1..accepts + 1
    BY <1>1, <2>1, <2>2
  <2> QED BY <1>1, <2>1, <2>2, <2>3, <2>4 DEF UniqueOK
<1>5. CASE PopLoad
  BY <1>1, <1>5, QuietUnique DEF UniqueOK, PopLoad, Goto
<1>6. CASE PopStore
  <2>1. CASE newId = INVALID
    <3>1. newId.unique = 0 /\ newId.index = 0
      BY <2>1 DEF INVALID, Id
    <3>2. accepts \in Nat /\ accepts >= UniqueMod
      BY <1>1, <1>6, <3>1 DEF UniqueOK, PopStore, Goto
    <3>3. lost' = lost \cup {0}
      BY <1>6, <2>1, <3>1 DEF PopStore
    <3> QED BY <1>1, <1>6, <2>1, <3>2, <3>3 DEF UniqueOK, PopStore, Goto
  <2>2. CASE newId # INVALID
    BY <1>1, <1>6, <2>2, QuietUnique DEF UniqueOK, PopStore, Goto
  <2> QED BY <2>1, <2>2
<1>7. CASE Alloc
  BY <1>1, <1>7, QuietUnique DEF UniqueOK, Alloc
<1>8. CASE Register
  BY <1>1, <1>8, QuietUnique DEF UniqueOK, Register, Goto
<1>9. CASE FirstRecv
  BY <1>1, <1>9, QuietUnique DEF UniqueOK, FirstRecv, Goto
<1>10. ASSUME NEW t \in Threads, ReleaseStep(t) PROVE UniqueOK'
  BY <1>1, <1>10, QuietUnique
     DEF UniqueOK, ReleaseStep, Free, ClearSlot, Push, PushLoad, PushStore, Goto
<1>11. ASSUME NEW w \in Workers, RecvCompletion(w) \/ SendCompletion(w)
       PROVE  UniqueOK'
  BY <1>1, <1>11, QuietUnique DEF UniqueOK, RecvCompletion, SendCompletion, Goto
<1>12. ASSUME NEW w \in Workers, OnRecv(w) \/ Decrement(w) PROVE UniqueOK'
  BY <1>1, <1>12, QuietUnique DEF UniqueOK, OnRecv, Decrement, Goto
<1>13. CASE UNCHANGED vars
  BY <1>13 DEF UniqueOK, vars
<1> QED BY <1>1, <1>2, <1>3, <1>4, <1>5, <1>6, <1>7, <1>8, <1>9, <1>10, <1>11,
           <1>12, <1>13 DEF Next, AcceptStep, WorkerStep, Threads

\* What was raced for stays noted.
LEMMA RacesStay == [Next]_vars /\ races' = {} => races = {}
<1>1. ASSUME NEW t, ReleaseStep(t), races' = {} PROVE races = {}
  BY <1>1 DEF ReleaseStep, Free, ClearSlot, Push, PushLoad, PushStore, Goto
<1>2. ASSUME AcceptStep, races' = {} PROVE races = {}
  BY <1>1, <1>2 DEF AcceptStep, Accepted, AcceptFails, Top, PopLoad, PopStore,
                    Alloc, Register, FirstRecv, Goto
<1>3. ASSUME NEW w, WorkerStep(w), races' = {} PROVE races = {}
  BY <1>1, <1>3 DEF WorkerStep, RecvCompletion, SendCompletion, OnRecv,
                    Decrement, Goto
<1> QED BY <1>2, <1>3 DEF Next, vars

\* One lemma for each action.
LEMMA ApartStep == Apart /\ [Next]_vars /\ races' = {} => Apart'
<1> SUFFICES ASSUME Apart, [Next]_vars, races' = {} PROVE Apart'
  OBVIOUS
<1>1. ASSUME NEW t \in Threads, ReleaseStep(t) PROVE Apart'
  BY <1>1, FreeKeeps, ClearSlotKeeps, PushKeeps, PushLoadKeeps, PushStoreKeeps
     DEF ReleaseStep
<1>2. CASE AcceptStep
  BY <1>1, <1>2, AcceptedKeeps, AcceptFailsKeeps, TopKeeps, PopLoadKeeps,
     PopStoreKeeps, AllocKeeps, RegisterKeeps, FirstRecvKeeps
     DEF AcceptStep, Threads
<1>3. ASSUME NEW w \in Workers, WorkerStep(w) PROVE Apart'
  BY <1>1, <1>3, RecvCompletionKeeps, SendCompletionKeeps, OnRecvKeeps,
     DecrementKeeps DEF WorkerStep, Threads
<1>4. CASE UNCHANGED vars
  <2>1. /\ UNCHANGED <<session_array, inUse, session_id, calls, top, size, unique>>
        /\ UNCHANGED <<pc, at, reg, newId, accepts, lost>>
    BY <1>4 DEF vars, tables, stack
  <2>2. Types' /\ StackOK' /\ Uses' /\ Found' /\ SlotsRight'
    BY <2>1 DEF Apart, Types, TypeOK, StackOK, InStack, Uses, Found, SlotsRight
  <2>3. \A i : /\ Places(i)' = Places(i) /\ Users(i)' = Users(i)
               /\ Carriers(i)' = Carriers(i)
    BY <2>1 DEF Places, Pushed, Users, Carriers, Carries
  <2>4. OneEach'
    BY <2>1, <2>3, SameParts DEF Apart
  <2> QED BY <2>2, <2>4 DEF Apart
<1> QED BY <1>2, <1>3, <1>4 DEF Next

\* The initial stack holds each slot once.
LEMMA InitInv == Init => IInv
<1> SUFFICES ASSUME Init PROVE IInv
  OBVIOUS
<1> USE DEF Open, Alone, Late, Popping, Pushing, Releasing, Accepting, Working
<1>1. /\ SessionMax \in Nat \ {0} /\ UniqueMod \in Nat \ {0} /\ MaxAccepts \in Nat
      /\ Acceptor \in Threads /\ Acceptor \notin Workers
  BY TableAssumption DEF Threads
<1>2. unique \in 0..UniqueMod - 1 /\ (UniqueMod > 1 => unique = 1)
  BY <1>1 DEF Init
<1>3. UniqueOK
  BY <1>1, <1>2 DEF Init, UniqueOK
<1>4. /\ pc[Acceptor] = "accept" /\ \A w \in Workers : pc[w] = "gqcs"
      /\ \A t \in Threads : pc[t] \in {"accept", "gqcs"}
      /\ pc \in [Threads -> Accepting \cup Working]
  BY <1>1 DEF Init, Threads
<1>5. INVALID \in [index : Index, unique : 0..UniqueMod - 1]
  BY <1>1 DEF INVALID, Id, Index
<1>6. top \in [1..SessionMax + MaxAccepts -> Index]
  BY <1>1 DEF Init, Index
<1>7. Types
  BY <1>1, <1>2, <1>4, <1>5, <1>6 DEF Init, Types, TypeOK
<1>8. StackOK /\ Uses
  BY <1>1, <1>4 DEF Init, StackOK, InStack, Uses
<1>9. OneEach
  <2> SUFFICES ASSUME NEW i \in Index PROVE OnePart(i)
    BY DEF OneEach
  <2>1. Pushed = 1..SessionMax
    BY <1>4 DEF Init, Pushed
  <2>2. Places(i) = {SessionMax - i} /\ SessionMax - i \in Int
    <3>1. \A n \in 1..SessionMax : top[n] = SessionMax - n
      BY <1>1 DEF Init
    <3>2. \A n \in 1..SessionMax : top[n] = i <=> n = SessionMax - i
      BY <1>1, <3>1 DEF Index
    <3>3. SessionMax - i \in 1..SessionMax
      BY <1>1 DEF Index
    <3> QED BY <2>1, <3>2, <3>3 DEF Places
  <2>3. Users(i) = {} /\ i \notin lost
    BY DEF Init, Users
  <2>4. Carriers(i) = {}
    BY <1>4 DEF Carriers, Carries
  <2> QED BY <2>2, <2>3, <2>4 DEF OnePart
<1>10. Found /\ SlotsRight
  BY DEF Init, Found, SlotsRight
<1> QED BY <1>3, <1>7, <1>8, <1>9, <1>10 DEF IInv, Apart

\* The inductive invariant of the session table: while no two threads have met,
\* each slot is in one place, each session in use is at its slot, and the ids
\* have not come round before as many accepts.
THEOREM TableInvariance == Spec => []IInv
<1>1. Init => IInv
  BY InitInv
<1>2. IInv /\ [Next]_vars => IInv'
  BY UniqueStep, RacesStay, ApartStep DEF IInv
<1> QED BY <1>1, <1>2, PTL DEF Spec

\* Release_Session, Get_SessionID: until two threads meet, a slot has one
\* holder, for any number of workers, slots and accepts.
THEOREM OneHolderAlways == Spec => []OneHolder
<1>1. IInv => OneHolder
  BY SlotHeld DEF IInv, UniqueOK, OneHolder
<1> QED BY <1>1, TableInvariance, PTL

\* Send_Packet: until then a session that can receive is found at its slot.
THEOREM OwnSlotAlways == Spec => []OwnSlot
<1>1. IInv => OwnSlot
  BY DEF IInv, Apart, Found, SlotsRight, OwnSlot
<1> QED BY <1>1, TableInvariance, PTL

\* OnRecv: until then no worker looks up a slot that is empty, which would end
\* the process.
NullNeverMet == races = {} => \A t \in Threads : pc[t] # "crashed"

\* Send_Packet does not test what it finds in session_array; it need not,
\* as long as no two threads have met.
THEOREM NullNeverMetAlways == Spec => []NullNeverMet
<1>1. IInv => NullNeverMet
  BY DEF IInv, Apart, Types, Accepting, Working, Releasing, Late, Popping, Pushing,
         NullNeverMet
<1> QED BY <1>1, TableInvariance, PTL
=============================================================================
