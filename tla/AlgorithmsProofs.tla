-------------------------- MODULE AlgorithmsProofs --------------------------
(* The algorithms that stand alone.  The spin lock excludes mutually on a   *)
(* memory with store buffers and loses no cnt++; the path searches report   *)
(* no way that is not there, and their parents always lead back from the    *)
(* end to the start; the red-black tree stays balanced and holds what was   *)
(* inserted and not removed, whatever the keys and the calls.               *)
EXTENDS Spinlock, AStar, JumpPoint, RedBlackTree,
        SequenceTheorems, FiniteSetTheorems, TLAPS

-----------------------------------------------------------------------------
(* The spin lock *)

\* A thread whose buffer is empty loads from memory.
LEMMA LoadFromMemory ==
  ASSUME NEW t \in Threads, NEW x \in {"lock", "cnt"}, buf[t] = <<>>
  PROVE  Load(t, x) = mem[x]
BY DEF Load

\* Two stores, one after the other.
LEMMA AppendTwo ==
  ASSUME NEW S, NEW a \in S, NEW b \in S
  PROVE  Append(<<a>>, b) = <<a, b>>
<1>1. <<a>> \in Seq(S) /\ Len(<<a>>) = 1 /\ <<a>>[1] = a
  OBVIOUS
<1>2. <<a, b>> \in Seq(S) /\ Len(<<a, b>>) = 2 /\ <<a, b>>[1] = a /\ <<a, b>>[2] = b
  OBVIOUS
<1>3. Append(<<a>>, b) \in Seq(S) /\ Len(Append(<<a>>, b)) = 2
  BY <1>1
<1>4. Append(<<a>>, b)[1] = a /\ Append(<<a>>, b)[2] = b
  BY <1>1
<1>5. \A i \in 1 .. 2 : Append(<<a>>, b)[i] = <<a, b>>[i]
  <2>1. \A i \in 1 .. 2 : i = 1 \/ i = 2
    OBVIOUS
  <2> QED BY <2>1, <1>2, <1>4
<1> QED BY <1>2, <1>3, <1>5, SeqEqual, Zenon

\* The buffers a round goes through are sequences of stores, and draining
\* them leaves what the next statement expects.
LEMMA RoundBuffers ==
  ASSUME NEW n \in Nat
  PROVE  /\ Append(<<>>, <<"cnt", n>>) = <<<<"cnt", n>>>>
         /\ Append(<<>>, <<"lock", 0>>) = <<<<"lock", 0>>>>
         /\ Append(<<<<"cnt", n>>>>, <<"lock", 0>>) = <<<<"cnt", n>>, <<"lock", 0>>>>
         /\ Tail(<<<<"cnt", n>>>>) = <<>>
         /\ Tail(<<<<"lock", 0>>>>) = <<>>
         /\ Tail(<<<<"cnt", n>>, <<"lock", 0>>>>) = <<<<"lock", 0>>>>
         /\ Head(<<<<"cnt", n>>>>) = <<"cnt", n>>
         /\ Head(<<<<"lock", 0>>>>) = <<"lock", 0>>
         /\ Head(<<<<"cnt", n>>, <<"lock", 0>>>>) = <<"cnt", n>>
         /\ <<>> \in Seq(Stores)
         /\ <<<<"cnt", n>>>> \in Seq(Stores)
         /\ <<<<"lock", 0>>>> \in Seq(Stores)
         /\ <<<<"cnt", n>>, <<"lock", 0>>>> \in Seq(Stores)
         /\ <<<<"cnt", n>>>> # <<>>
         /\ <<<<"lock", 0>>>> # <<>>
         /\ <<<<"cnt", n>>, <<"lock", 0>>>> # <<>>
<1>1. <<"cnt", n>> \in Stores /\ <<"lock", 0>> \in Stores
  BY DEF Stores
<1>2. <<>> \in Seq(Stores) /\ <<<<"cnt", n>>>> \in Seq(Stores) /\ <<<<"lock", 0>>>> \in Seq(Stores)
  BY <1>1
<1>3. <<<<"cnt", n>>, <<"lock", 0>>>> \in Seq(Stores)
  BY <1>1
<1>4. /\ Append(<<>>, <<"cnt", n>>) = <<<<"cnt", n>>>>
      /\ Append(<<>>, <<"lock", 0>>) = <<<<"lock", 0>>>>
  BY <1>1
<1>5. Append(<<<<"cnt", n>>>>, <<"lock", 0>>) = <<<<"cnt", n>>, <<"lock", 0>>>>
  BY <1>1, AppendTwo
<1>6. Tail(<<<<"cnt", n>>>>) = <<>> /\ Tail(<<<<"lock", 0>>>>) = <<>>
  BY <1>1
<1>7. Tail(<<<<"cnt", n>>, <<"lock", 0>>>>) = <<<<"lock", 0>>>>
  BY <1>1
<1>8. /\ Head(<<<<"cnt", n>>>>) = <<"cnt", n>>
      /\ Head(<<<<"lock", 0>>>>) = <<"lock", 0>>
      /\ Head(<<<<"cnt", n>>, <<"lock", 0>>>>) = <<"cnt", n>>
  BY <1>1
<1>9. /\ <<<<"cnt", n>>>> # <<>>
      /\ <<<<"lock", 0>>>> # <<>>
      /\ <<<<"cnt", n>>, <<"lock", 0>>>> # <<>>
  BY <1>1
<1> QED BY <1>2, <1>3, <1>4, <1>5, <1>6, <1>7, <1>8, <1>9

\* The program starts with the invariant.
LEMMA InitInv == Init => IInv
<1> SUFFICES ASSUME Init PROVE IInv
  OBVIOUS
<1>1. TypeOK
  BY SpinlockAssumption DEF Init, TypeOK
<1>2. BuffersOK
  BY DEF Init, BuffersOK
<1>3. LockWord /\ MutualExclusion
  BY DEF Init, LockWord, MutualExclusion, Holds, Inside
<1> QED BY <1>1, <1>2, <1>3 DEF IInv

\* Acquire: memory says that nobody holds the lock, so t is the only holder.
LEMMA AcquireInv ==
  ASSUME IInv, NEW t \in Threads, Acquire(t)
  PROVE  IInv'
<1> USE DEF IInv
<1>1. TypeOK'
  BY DEF TypeOK, Acquire, Goto
<1>2. BuffersOK'
  BY Zenon DEF BuffersOK, TypeOK, Acquire, Goto, Flushed
<1>3. \A u \in Threads : ~Holds(u)
  BY DEF LockWord, Acquire
<1>4. \A u \in Threads : Holds(u)' => u = t
  BY <1>3 DEF Holds, Inside, TypeOK, Acquire, Goto
<1>5. mem'["lock"] = 1
  BY DEF TypeOK, Acquire
<1> QED BY <1>1, <1>2, <1>4, <1>5 DEF LockWord, MutualExclusion

\* A step inside the critical section neither frees the lock nor takes it.
LEMMA InsideInv ==
  ASSUME IInv, NEW t \in Threads, LoadCnt(t) \/ StoreCnt(t)
  PROVE  IInv'
<1> USE DEF IInv
<1>1. CASE LoadCnt(t)
  <2>1. buf[t] = <<>> /\ reg'[t] \in Nat
    BY <1>1, LoadFromMemory DEF LoadCnt, Goto, TypeOK, BuffersOK
  <2>2. TypeOK'
    BY <1>1, <2>1 DEF LoadCnt, Goto, TypeOK
  <2>3. BuffersOK'
    BY <1>1, Zenon DEF LoadCnt, Goto, TypeOK, BuffersOK
  <2>4. \A u \in Threads : Holds(u)' => Holds(u)
    BY <1>1 DEF LoadCnt, Goto, TypeOK, Holds, Inside
  <2> QED BY <1>1, <2>2, <2>3, <2>4 DEF LoadCnt, LockWord, MutualExclusion
<1>2. CASE StoreCnt(t)
  <2> DEFINE n == reg[t] + 1
  <2>1. n \in Nat /\ buf[t] = <<>> /\ pc[t] = "store"
    BY <1>2 DEF StoreCnt, Goto, TypeOK, BuffersOK
  <2> HIDE DEF n
  <2>2. /\ buf'[t] \in {<<>>, <<<<"cnt", n>>>>}
        /\ \A u \in Threads : u # t => buf'[u] = buf[u]
        /\ buf' = [buf EXCEPT ![t] = buf'[t]]
    <3>1. StoreCnt(t) => Store(t, "cnt", n)
      BY DEF StoreCnt, n
    <3>2. Append(buf[t], <<"cnt", n>>) = <<<<"cnt", n>>>>
      BY <2>1, RoundBuffers
    <3>3. buf' = [buf EXCEPT ![t] = <<<<"cnt", n>>>>] \/ buf' = buf
      BY <1>2, <3>1, <3>2, Zenon DEF Store, TypeOK
    <3> QED BY <2>1, <3>3 DEF TypeOK
  <2>3. mem' \in [{"lock", "cnt"} -> Nat] /\ mem'["lock"] = mem["lock"]
    <3>1. Store(t, "cnt", n)
      BY <1>2 DEF StoreCnt, n
    <3>2. mem' = mem \/ mem' = [mem EXCEPT !["cnt"] = n]
      BY <3>1 DEF Store
    <3> QED BY <2>1, <3>2 DEF TypeOK
  <2>4. TypeOK'
    <3>1. buf' \in [Threads -> Seq(Stores)]
      BY <2>1, <2>2, RoundBuffers, Zenon DEF TypeOK
    <3> QED BY <1>2, <2>3, <3>1, Zenon DEF StoreCnt, Goto, TypeOK
  <2>5. BuffersOK'
    <3>1. ~Buffered => buf' = buf
      BY <1>2 DEF StoreCnt, Store
    <3>2. pc' = [pc EXCEPT ![t] = "unlock"]
      BY <1>2 DEF StoreCnt, Goto
    <3>3. pc'[t] = "unlock" /\ \A u \in Threads : u # t => pc'[u] = pc[u]
      BY <3>2 DEF TypeOK
    <3>4. ASSUME NEW u \in Threads \ {t} PROVE buf'[u] = buf[u] /\ pc'[u] = pc[u]
      BY <2>2, <3>3
    <3>5. /\ ~Buffered => buf'[t] = <<>>
          /\ buf'[t] = <<>> \/ \E k \in Nat : buf'[t] = <<<<"cnt", k>>>>
      BY <2>1, <2>2, <3>1
    <3> QED BY <3>3, <3>4, <3>5, Zenon DEF BuffersOK
  <2>6. \A u \in Threads : Holds(u)' => Holds(u)
    BY <1>2, <2>1, <2>2 DEF StoreCnt, Goto, TypeOK, Holds, Inside
  <2> QED BY <2>3, <2>4, <2>5, <2>6 DEF LockWord, MutualExclusion
<1> QED BY <1>1, <1>2

\* Unlock: the store of 0 waits behind cnt, or reaches memory at once and
\* nobody is left holding.
LEMMA UnlockInv ==
  ASSUME IInv, NEW t \in Threads, Unlock(t)
  PROVE  IInv'
<1> USE DEF IInv
<1>1. pc[t] = "unlock" /\ Holds(t) /\ Store(t, "lock", 0)
  BY DEF Unlock, Goto, Holds, Inside
<1>2. pc' = [pc EXCEPT ![t] = "lock"] /\ reg' = reg /\ rounds' \in [Threads -> Nat]
  BY DEF Unlock, Goto, TypeOK
<1>3. \A u \in Threads : Holds(u) => u = t
  BY <1>1 DEF MutualExclusion
<1>4. CASE Buffered
  <2>1. mem' = mem /\ buf' = [buf EXCEPT ![t] = Append(buf[t], <<"lock", 0>>)]
    BY <1>1, <1>4 DEF Store
  <2>2. \/ buf'[t] = <<<<"lock", 0>>>>
        \/ \E n \in Nat : buf'[t] = <<<<"cnt", n>>, <<"lock", 0>>>>
    <3>1. CASE buf[t] = <<>>
      BY <2>1, <3>1, RoundBuffers DEF TypeOK
    <3>2. ASSUME NEW n \in Nat, buf[t] = <<<<"cnt", n>>>>
          PROVE  buf'[t] = <<<<"cnt", n>>, <<"lock", 0>>>>
      BY <2>1, <3>2, RoundBuffers DEF TypeOK
    <3> QED BY <1>1, <3>1, <3>2 DEF BuffersOK
  <2>3. TypeOK'
    <3>1. buf'[t] \in Seq(Stores)
      BY <2>2, RoundBuffers, Zenon
    <3>2. buf' = [buf EXCEPT ![t] = buf'[t]]
      BY <2>1 DEF TypeOK
    <3> QED BY <1>2, <2>1, <3>1, <3>2 DEF TypeOK
  <2>4. BuffersOK'
    <3>1. \A u \in Threads : u # t => buf'[u] = buf[u] /\ pc'[u] = pc[u]
      BY <1>2, <2>1 DEF TypeOK
    <3>2. pc'[t] = "lock"
      BY <1>2 DEF TypeOK
    <3> QED BY <1>4, <2>2, <3>1, <3>2 DEF BuffersOK
  <2>5. \A u \in Threads : u # t => ~Holds(u)'
    BY <1>2, <1>3, <2>1 DEF Holds, Inside, TypeOK
  <2> QED BY <1>1, <2>1, <2>3, <2>4, <2>5 DEF LockWord, MutualExclusion
<1>5. CASE ~Buffered
  <2>1. mem' = [mem EXCEPT !["lock"] = 0] /\ buf' = buf
    BY <1>1, <1>5 DEF Store
  <2>2. TypeOK'
    BY <1>2, <2>1 DEF TypeOK
  <2>3. BuffersOK'
    BY <1>2, <1>5, <2>1 DEF BuffersOK, TypeOK
  <2>4. buf[t] = <<>>
    BY <1>5 DEF BuffersOK
  <2>5. \A u \in Threads : ~Holds(u)'
    BY <1>1, <1>2, <1>3, <2>1, <2>4, Zenon DEF Holds, Inside, TypeOK
  <2> QED BY <2>2, <2>3, <2>5 DEF LockWord, MutualExclusion
<1> QED BY <1>4, <1>5

\* A drain of cnt leaves the lock held; a drain of lock leaves no holder.
LEMMA DrainInv ==
  ASSUME IInv, NEW t \in Threads, DrainStep(t)
  PROVE  IInv'
<1> USE DEF IInv
<1>1. /\ buf[t] # <<>> /\ pc' = pc /\ reg' = reg /\ rounds' = rounds
      /\ mem' = [mem EXCEPT ![Head(buf[t])[1]] = Head(buf[t])[2]]
      /\ buf' = [buf EXCEPT ![t] = Tail(buf[t])]
  BY DEF DrainStep, Drain
<1>2. Buffered /\ pc[t] \in {"unlock", "lock"} /\ Holds(t)
  BY <1>1 DEF BuffersOK, TypeOK, Holds
<1>3. \A u \in Threads : u # t => ~Holds(u) /\ buf'[u] = buf[u]
  BY <1>1, <1>2 DEF MutualExclusion, TypeOK
<1>4. \A u \in Threads : u # t => ~Holds(u)'
  BY <1>1, <1>3 DEF Holds, Inside
<1>5. buf'[t] = Tail(buf[t])
  BY <1>1 DEF TypeOK
<1>6. TypeOK'
  <2>1. Head(buf[t]) \in Stores /\ Tail(buf[t]) \in Seq(Stores)
    BY <1>1, HeadTailProperties DEF TypeOK
  <2>2. buf' \in [Threads -> Seq(Stores)]
    BY <1>1, <2>1 DEF TypeOK
  <2>3. mem' \in [{"lock", "cnt"} -> Nat]
    BY <1>1, <2>1, Zenon DEF TypeOK, Stores
  <2> QED BY <1>1, <2>2, <2>3, Zenon DEF TypeOK
<1>7. CASE buf[t] = <<<<"lock", 0>>>>
  <2>1. buf'[t] = <<>> /\ pc[t] = "lock"
    <3>1. buf'[t] = <<>>
      BY <1>5, <1>7, RoundBuffers
    <3>2. pc[t] # "unlock"
      BY <1>7 DEF BuffersOK
    <3> QED BY <1>2, <3>1, <3>2
  <2>2. BuffersOK'
    BY <1>1, <1>3, <2>1, Zenon DEF BuffersOK
  <2>3. ~Holds(t)'
    BY <1>1, <2>1 DEF Holds, Inside
  <2> QED BY <1>4, <1>6, <2>2, <2>3 DEF LockWord, MutualExclusion
<1>8. ASSUME NEW n \in Nat,
             \/ buf[t] = <<<<"cnt", n>>>> /\ pc[t] = "unlock"
             \/ buf[t] = <<<<"cnt", n>>, <<"lock", 0>>>> /\ pc[t] = "lock"
      PROVE  IInv'
  <2>1. \/ buf'[t] = <<>> /\ pc[t] = "unlock"
        \/ buf'[t] = <<<<"lock", 0>>>> /\ pc[t] = "lock"
    <3>1. CASE buf[t] = <<<<"cnt", n>>>> /\ pc[t] = "unlock"
      BY <1>5, <3>1, RoundBuffers
    <3>2. CASE buf[t] = <<<<"cnt", n>>, <<"lock", 0>>>> /\ pc[t] = "lock"
      BY <1>5, <3>2, RoundBuffers
    <3> QED BY <1>8, <3>1, <3>2
  <2>2. BuffersOK'
    BY <1>1, <1>2, <1>3, <2>1, Zenon DEF BuffersOK
  <2>3. mem'["lock"] = 1
    <3>1. Head(buf[t]) = <<"cnt", n>>
      <4>1. CASE buf[t] = <<<<"cnt", n>>>>
        BY <4>1, RoundBuffers
      <4>2. CASE buf[t] = <<<<"cnt", n>>, <<"lock", 0>>>>
        BY <4>2, RoundBuffers
      <4> QED BY <1>8, <4>1, <4>2
    <3>2. Head(buf[t])[1] = "cnt" /\ Head(buf[t])[2] = n
      BY <3>1
    <3>3. mem' = [mem EXCEPT !["cnt"] = n]
      BY <1>1, <3>2, Zenon
    <3> QED BY <1>2, <3>3 DEF LockWord, TypeOK
  <2> QED BY <1>4, <1>6, <2>2, <2>3 DEF LockWord, MutualExclusion
<1> QED BY <1>1, <1>2, <1>7, <1>8, Zenon DEF BuffersOK

\* No step of a thread and no drain breaks it.
LEMMA StepInv == IInv /\ [Next]_vars => IInv'
<1> SUFFICES ASSUME IInv, [Next]_vars PROVE IInv'
  OBVIOUS
<1>1. CASE UNCHANGED vars
  BY <1>1 DEF vars, IInv, TypeOK, BuffersOK, LockWord, MutualExclusion, Holds, Inside
<1>2. ASSUME NEW t \in Threads, Step(t) PROVE IInv'
  <2>1. CASE Acquire(t)
    BY <2>1, AcquireInv
  <2>2. CASE Spin(t)
    BY <1>1, <2>2 DEF Spin
  <2>3. CASE LoadCnt(t) \/ StoreCnt(t)
    BY <2>3, InsideInv
  <2>4. CASE Unlock(t)
    BY <2>4, UnlockInv
  <2> QED BY <1>2, <2>1, <2>2, <2>3, <2>4 DEF Step
<1>3. ASSUME NEW t \in Threads, DrainStep(t) PROVE IInv'
  BY <1>3, DrainInv
<1>4. CASE Ended
  BY <1>1, <1>4 DEF Ended
<1> QED BY <1>1, <1>2, <1>3, <1>4 DEF Next

\* The inductive invariant holds in every reachable state.
THEOREM SpinInvariance == Spec => []IInv
<1> QED BY InitInv, StepInv, PTL DEF Spec

\* JLock and JUnlock (01 UseInterlocked.cpp:9-21) keep every other thread out
\* from the exchange until the plain store lock = 0 has left the store
\* buffer, for any number of threads.
THEOREM SpinMutualExclusion == Spec => []MutualExclusion
<1>1. IInv => MutualExclusion
  BY DEF IInv
<1> QED BY <1>1, SpinInvariance, PTL

-----------------------------------------------------------------------------
(* Every cnt++ counts *)

\* The increments thread t has made, whether they have reached memory or not.
Made(t) == rounds[t] + (IF pc[t] = "unlock" THEN 1 ELSE 0)

\* All of them, each with its thread and its number.
Increments == {i \in Threads \X (1 .. MaxRounds) : i[2] <= Made(i[1])}

\* Thread t has a cnt on its way to memory.
CntBuffered(t) == buf[t] # <<>> /\ Head(buf[t])[1] = "cnt"

\* cnt, as the next thread that gets the lock will read it, is the number of
\* increments made; who is about to store has read all the others.
CntIsMade ==
  /\ \A t \in Threads : CntBuffered(t) => Head(buf[t])[2] = Cardinality(Increments)
  /\ (\A t \in Threads : ~CntBuffered(t)) => mem["cnt"] = Cardinality(Increments)
  /\ \A t \in Threads : pc[t] = "store" => reg[t] = Cardinality(Increments)

\* No thread makes more rounds than the loop has.
RoundsBounded ==
  \A t \in Threads :
    /\ rounds[t] <= MaxRounds
    /\ pc[t] # "lock" => rounds[t] < MaxRounds

CInv == IInv /\ RoundsBounded /\ CntIsMade

\* There are finitely many increments.
LEMMA IncrementsFinite ==
  IsFiniteSet(Increments) /\ Cardinality(Increments) \in Nat
<1>1. IsFiniteSet(Threads \X (1 .. MaxRounds))
  <2>1. IsFiniteSet(1 .. MaxRounds)
    BY SpinlockAssumption, FS_Interval
  <2> QED BY <2>1, SpinlockAssumption, FS_Product
<1>2. IsFiniteSet(Increments)
  BY <1>1, FS_Subset DEF Increments
<1> QED BY <1>2, FS_CardinalityType

\* At most one thread, the one that holds the lock, has anything buffered.
LEMMA OneBuffers ==
  ASSUME IInv, NEW t \in Threads, Holds(t), NEW u \in Threads, u # t
  PROVE  ~CntBuffered(u) /\ pc[u] = "lock"
BY DEF IInv, MutualExclusion, Holds, Inside, CntBuffered, TypeOK

\* At the start nothing is counted.
LEMMA InitCounts == Init => CInv
<1> SUFFICES ASSUME Init PROVE CInv
  OBVIOUS
<1>1. Increments = {}
  BY SpinlockAssumption DEF Init, Increments, Made
<1>2. CntIsMade
  BY <1>1, FS_EmptySet DEF Init, CntIsMade, CntBuffered
<1>3. RoundsBounded
  BY SpinlockAssumption DEF Init, RoundsBounded
<1> QED BY <1>2, <1>3, InitInv DEF CInv

\* Steps that make no increment and leave the buffers alone.
LEMMA AcquireCounts ==
  ASSUME CInv, NEW t \in Threads, Acquire(t) \/ LoadCnt(t)
  PROVE  RoundsBounded' /\ CntIsMade'
<1> USE DEF CInv, IInv
<1>1. /\ buf' = buf /\ rounds' = rounds /\ mem'["cnt"] = mem["cnt"]
      /\ \A u \in Threads : u # t => pc'[u] = pc[u] /\ reg'[u] = reg[u]
      /\ pc[t] # "unlock" /\ pc'[t] \in {"load", "store"}
      /\ rounds[t] < MaxRounds
  BY DEF Acquire, LoadCnt, Goto, TypeOK, RoundsBounded
<1>2. \A u \in Threads : Made(u)' = Made(u)
  BY <1>1 DEF Made
<1>3. Increments' = Increments
  BY <1>2 DEF Increments
<1>4. RoundsBounded'
  BY <1>1 DEF RoundsBounded, TypeOK
<1>5. pc'[t] = "store" => reg'[t] = Cardinality(Increments)
  <2> SUFFICES ASSUME pc'[t] = "store" PROVE reg'[t] = Cardinality(Increments)
    OBVIOUS
  <2>1. LoadCnt(t) /\ pc[t] = "load"
    BY DEF Acquire, LoadCnt, Goto, TypeOK
  <2>2. buf[t] = <<>> /\ Holds(t)
    BY <2>1 DEF BuffersOK, Holds, Inside
  <2>3. \A u \in Threads : ~CntBuffered(u)
    BY <2>2, OneBuffers DEF CntBuffered
  <2>4. reg'[t] = mem["cnt"]
    BY <2>1, <2>2, LoadFromMemory DEF LoadCnt, TypeOK
  <2> QED BY <2>3, <2>4 DEF CntIsMade
<1>6. \A u \in Threads : CntBuffered(u)' <=> CntBuffered(u)
  BY <1>1 DEF CntBuffered
<1>7. Cardinality(Increments)' = Cardinality(Increments)
  BY <1>3
<1> QED BY <1>1, <1>4, <1>5, <1>6, <1>7 DEF CntIsMade

\* The store makes one increment more: the one who stores has read all the
\* others.
LEMMA StoreCounts ==
  ASSUME CInv, NEW t \in Threads, StoreCnt(t)
  PROVE  RoundsBounded' /\ CntIsMade'
<1> USE DEF CInv, IInv
<1> DEFINE new == <<t, rounds[t] + 1>>
           n == Cardinality(Increments)
<1>1. /\ pc[t] = "store" /\ pc' = [pc EXCEPT ![t] = "unlock"]
      /\ reg' = reg /\ rounds' = rounds /\ buf[t] = <<>> /\ Holds(t)
      /\ Store(t, "cnt", reg[t] + 1)
  BY DEF StoreCnt, Goto, BuffersOK, Holds, Inside
<1>2. reg[t] = n /\ n \in Nat /\ rounds[t] \in Nat /\ rounds[t] < MaxRounds
  BY <1>1, IncrementsFinite DEF CntIsMade, RoundsBounded, TypeOK
<1>3. RoundsBounded'
  BY <1>1, <1>2 DEF RoundsBounded, TypeOK
<1>4. Made(t) = rounds[t] /\ Made(t)' = rounds[t] + 1
  BY <1>1, <1>2 DEF Made, TypeOK
<1>5. \A u \in Threads : u # t => Made(u)' = Made(u)
  BY <1>1 DEF Made, TypeOK
<1>6. new \in Threads \X (1 .. MaxRounds) /\ new \notin Increments
  BY <1>2, <1>4, SpinlockAssumption DEF Increments
<1>7. Increments' = Increments \union {new}
  <2>1. ASSUME NEW i \in Threads \X (1 .. MaxRounds)
        PROVE  i[2] <= Made(i[1])' <=> i[2] <= Made(i[1]) \/ i = new
    <3>1. PICK u \in Threads, k \in 1 .. MaxRounds : i = <<u, k>>
      OBVIOUS
    <3>2. CASE u = t
      BY <1>2, <1>4, <3>1, <3>2, SpinlockAssumption
    <3>3. CASE u # t
      BY <1>5, <3>1, <3>3
    <3> QED BY <3>2, <3>3
  <2> HIDE DEF new
  <2> QED BY <1>6, <2>1 DEF Increments
<1>8. Cardinality(Increments)' = n + 1
  <2>1. Cardinality(Increments \union {new}) = n + 1
    BY <1>2, <1>6, IncrementsFinite, FS_AddElement, Zenon
  <2> QED BY <1>7, <2>1
<1>9. \A u \in Threads : u # t => ~CntBuffered(u) /\ pc[u] = "lock"
  BY <1>1, OneBuffers
<1>10. \A u \in Threads : u # t => pc'[u] # "store"
  BY <1>1, <1>9 DEF TypeOK
<1>11. CASE Buffered
  <2>1. mem' = mem /\ buf' = [buf EXCEPT ![t] = Append(buf[t], <<"cnt", reg[t] + 1>>)]
    BY <1>1, <1>11 DEF Store
  <2>2. buf'[t] = <<<<"cnt", n + 1>>>>
    BY <1>1, <1>2, <2>1, RoundBuffers DEF TypeOK
  <2>3. CntBuffered(t)' /\ Head(buf'[t])[2] = n + 1
    BY <1>2, <2>2, RoundBuffers DEF CntBuffered
  <2>4. \A u \in Threads : u # t => ~CntBuffered(u)'
    BY <1>9, <2>1, Zenon DEF CntBuffered, TypeOK
  <2> QED BY <1>1, <1>3, <1>8, <1>10, <2>3, <2>4 DEF CntIsMade, TypeOK
<1>12. CASE ~Buffered
  <2>1. mem' = [mem EXCEPT !["cnt"] = n + 1] /\ buf' = buf
    BY <1>1, <1>2, <1>12 DEF Store
  <2>2. mem'["cnt"] = n + 1
    BY <2>1 DEF TypeOK
  <2>3. \A u \in Threads : ~CntBuffered(u)'
    BY <1>1, <1>9, <2>1 DEF CntBuffered
  <2> QED BY <1>1, <1>3, <1>8, <1>10, <2>2, <2>3 DEF CntIsMade, TypeOK
<1> QED BY <1>11, <1>12

\* Unlock: the increment made is one of a finished round now.
LEMMA UnlockCounts ==
  ASSUME CInv, NEW t \in Threads, Unlock(t)
  PROVE  RoundsBounded' /\ CntIsMade'
<1> USE DEF CInv, IInv
<1>1. /\ pc[t] = "unlock" /\ pc' = [pc EXCEPT ![t] = "lock"]
      /\ reg' = reg /\ rounds' = [rounds EXCEPT ![t] = @ + 1]
      /\ Store(t, "lock", 0)
  BY DEF Unlock, Goto
<1>2. RoundsBounded'
  BY <1>1, SpinlockAssumption DEF RoundsBounded, TypeOK
<1>3. \A u \in Threads : Made(u)' = Made(u)
  BY <1>1 DEF Made, TypeOK
<1>4. Increments' = Increments
  BY <1>3 DEF Increments
<1>5. mem'["cnt"] = mem["cnt"]
  BY <1>1 DEF Store, TypeOK
<1>6. \A u \in Threads :
        /\ CntBuffered(u)' <=> CntBuffered(u)
        /\ CntBuffered(u) => Head(buf'[u]) = Head(buf[u])
  <2>1. \A u \in Threads : u # t => buf'[u] = buf[u]
    BY <1>1 DEF Store, TypeOK
  <2>2. \/ buf'[t] = buf[t]
        \/ buf'[t] = Append(buf[t], <<"lock", 0>>)
    BY <1>1, Zenon DEF Store, TypeOK
  <2>3. CASE buf'[t] = buf[t]
    BY <2>1, <2>3 DEF CntBuffered
  <2>4. CASE buf'[t] = Append(buf[t], <<"lock", 0>>) /\ buf[t] = <<>>
    <3>1. buf'[t] = <<<<"lock", 0>>>> /\ Head(buf'[t]) = <<"lock", 0>>
      BY <2>4, RoundBuffers
    <3> QED BY <2>1, <2>4, <3>1 DEF CntBuffered
  <2>5. ASSUME NEW n \in Nat, buf[t] = <<<<"cnt", n>>>>,
               buf'[t] = Append(buf[t], <<"lock", 0>>)
        PROVE  /\ CntBuffered(t)' <=> CntBuffered(t)
               /\ Head(buf'[t]) = Head(buf[t])
    <3>1. buf'[t] = <<<<"cnt", n>>, <<"lock", 0>>>>
      BY <2>5, RoundBuffers
    <3> QED BY <2>5, <3>1, RoundBuffers DEF CntBuffered
  <2> QED BY <1>1, <2>1, <2>2, <2>3, <2>4, <2>5, Zenon DEF BuffersOK, CntBuffered
<1>7. \A u \in Threads : pc'[u] = "store" => pc[u] = "store"
  BY <1>1 DEF TypeOK
<1>8. Cardinality(Increments)' = Cardinality(Increments)
  BY <1>4
<1> QED BY <1>1, <1>2, <1>5, <1>6, <1>7, <1>8 DEF CntIsMade

\* A cnt that drains was the last one made.
LEMMA DrainCounts ==
  ASSUME CInv, NEW t \in Threads, DrainStep(t)
  PROVE  RoundsBounded' /\ CntIsMade'
<1> USE DEF CInv, IInv
<1>1. /\ buf[t] # <<>> /\ pc' = pc /\ reg' = reg /\ rounds' = rounds
      /\ mem' = [mem EXCEPT ![Head(buf[t])[1]] = Head(buf[t])[2]]
      /\ buf' = [buf EXCEPT ![t] = Tail(buf[t])]
  BY DEF DrainStep, Drain
<1>2. RoundsBounded'
  BY <1>1 DEF RoundsBounded
<1>3. Increments' = Increments
  BY <1>1 DEF Increments, Made
<1>4. \A u \in Threads : u # t => ~CntBuffered(u) /\ pc[u] = "lock"
  BY <1>1, OneBuffers DEF Holds
<1>5. pc[t] # "store"
  BY <1>1 DEF BuffersOK
<1>6. ~CntBuffered(t)'
  <2>1. buf'[t] = Tail(buf[t])
    BY <1>1 DEF TypeOK
  <2>2. ASSUME NEW n \in Nat,
               buf[t] \in {<<<<"cnt", n>>>>, <<<<"lock", 0>>>>, <<<<"cnt", n>>, <<"lock", 0>>>>}
        PROVE  ~CntBuffered(t)'
    <3>1. Tail(buf[t]) \in {<<>>, <<<<"lock", 0>>>>}
      BY <2>2, RoundBuffers, Zenon
    <3>2. Tail(buf[t]) # <<>> => Head(Tail(buf[t])) = <<"lock", 0>>
      BY <3>1, RoundBuffers, Zenon
    <3> QED BY <2>1, <3>2 DEF CntBuffered
  <2>3. 0 \in Nat
    OBVIOUS
  <2> QED BY <1>1, <2>2, <2>3, Zenon DEF BuffersOK, TypeOK
<1>7. \A u \in Threads : ~CntBuffered(u)'
  BY <1>1, <1>4, <1>6, Zenon DEF CntBuffered, TypeOK
<1>8. mem'["cnt"] = Cardinality(Increments)
  <2>1. CASE CntBuffered(t)
    BY <1>1, <2>1, Zenon DEF CntBuffered, CntIsMade, TypeOK
  <2>2. CASE ~CntBuffered(t)
    BY <1>1, <1>4, <2>2 DEF CntBuffered, CntIsMade, TypeOK
  <2> QED BY <2>1, <2>2
<1>9. Cardinality(Increments)' = Cardinality(Increments)
  BY <1>3
<1> QED BY <1>1, <1>2, <1>4, <1>5, <1>7, <1>8, <1>9 DEF CntIsMade

\* No step of a thread and no drain breaks the count.
LEMMA StepCounts == CInv /\ [Next]_vars => CInv'
<1> SUFFICES ASSUME CInv, [Next]_vars PROVE CInv'
  OBVIOUS
<1>1. IInv'
  BY StepInv DEF CInv
<1>2. ASSUME UNCHANGED vars PROVE RoundsBounded' /\ CntIsMade'
  BY <1>2 DEF vars, CInv, RoundsBounded, CntIsMade, CntBuffered, Increments, Made
<1>3. ASSUME NEW t \in Threads, Step(t) PROVE RoundsBounded' /\ CntIsMade'
  BY <1>2, <1>3, AcquireCounts, StoreCounts, UnlockCounts DEF Step, Spin
<1>4. ASSUME NEW t \in Threads, DrainStep(t) PROVE RoundsBounded' /\ CntIsMade'
  BY <1>4, DrainCounts
<1> QED BY <1>1, <1>2, <1>3, <1>4 DEF Next, Ended, CInv

\* When every loop has ended, all increments have been made.
LEMMA AllMade ==
  ASSUME CInv, \A t \in Threads : Done(t) /\ Flushed(t)
  PROVE  mem["cnt"] = Cardinality(Threads) * MaxRounds
<1>1. mem["cnt"] = Cardinality(Increments)
  BY DEF CInv, CntIsMade, CntBuffered, Flushed
<1>2. Increments = Threads \X (1 .. MaxRounds)
  BY SpinlockAssumption DEF Increments, Made, Done
<1>3. IsFiniteSet(1 .. MaxRounds) /\ Cardinality(1 .. MaxRounds) = MaxRounds
  BY SpinlockAssumption, FS_Interval
<1> QED BY <1>1, <1>2, <1>3, SpinlockAssumption, FS_Product

\* main prints Threads * MaxRounds (01 UseInterlocked.cpp:23-46): no cnt++ is
\* lost, although cnt is a plain variable and its stores wait in a buffer,
\* for any finite number of threads and any number of rounds.
THEOREM SpinCountExact == Spec => []CountExact
<1>1. CInv => CountExact
  BY AllMade DEF CountExact
<1> QED BY <1>1, InitCounts, StepCounts, PTL DEF Spec

-----------------------------------------------------------------------------
(* Loops *)

\* A set of naturals has a least one.
LEMMA LeastOf ==
  ASSUME NEW B, B \subseteq Nat, B # {}
  PROVE  \E k \in B : \A j \in B : k <= j
<1> DEFINE T == {0 .. k : k \in B}
           R == StrictSubsetOrdering(Nat)
<1>1. IsWellFoundedOn(R, FiniteSubsetsOf(Nat))
  BY FS_StrictSubsetOrderingWellFounded
<1>2. T \subseteq FiniteSubsetsOf(Nat)
  <2>1. \A k \in Nat : 0 .. k \subseteq Nat /\ IsFiniteSet(0 .. k)
    BY FS_Interval
  <2>2. ASSUME NEW S \in T PROVE S \in SUBSET Nat /\ IsFiniteSet(S)
    BY <2>1
  <2> QED BY <2>2, Zenon DEF FiniteSubsetsOf
<1>3. T # {}
  BY Zenon
<1> HIDE DEF R
<1>4. PICK S \in T : \A U \in T : ~(<<U, S>> \in R)
  <2> HIDE DEF T
  <2> QED BY <1>1, <1>2, <1>3, WFMin
<1>5. PICK k \in B : S = 0 .. k
  OBVIOUS
<1>6. ASSUME NEW j \in B, ~(k <= j) PROVE FALSE
  <2>1. j \in Nat /\ k \in Nat /\ j < k
    BY <1>6
  <2>2. 0 .. j \in T
    OBVIOUS
  <2>3. 0 .. j \subseteq 0 .. k /\ 0 .. j \subseteq Nat /\ 0 .. k \subseteq Nat /\ 0 .. j # 0 .. k
    <3>1. k \in 0 .. k /\ k \notin 0 .. j
      BY <2>1
    <3>2. 0 .. j \subseteq 0 .. k /\ 0 .. j \subseteq Nat /\ 0 .. k \subseteq Nat
      BY <2>1
    <3> QED BY <3>1, <3>2
  <2>4. <<0 .. j, 0 .. k>> \in R
    BY <2>3 DEF R, StrictSubsetOrdering
  <2> QED BY <1>4, <1>5, <2>2, <2>4, Zenon
<1> QED BY <1>6

\* What holds at first and after each step holds after every step.
LEMMA Steps ==
  ASSUME NEW k \in Nat, NEW P, 0 \in P, \A c \in 1 .. k : c - 1 \in P => c \in P
  PROVE  \A c \in 0 .. k : c \in P
<1> DEFINE B == {c \in 0 .. k : c \notin P}
<1>1. SUFFICES ASSUME B # {} PROVE FALSE
  OBVIOUS
<1>2. B \subseteq Nat
  OBVIOUS
<1>3. PICK c \in B : \A j \in B : c <= j
  <2> HIDE DEF B
  <2> QED BY <1>1, <1>2, LeastOf, Zenon
<1>4. c \in 1 .. k /\ c - 1 \in 0 .. k /\ ~(c <= c - 1)
  OBVIOUS
<1>5. c - 1 \in P
  BY <1>3, <1>4
<1> QED BY <1>4, <1>5

\* A loop that takes k steps from s, the n-th by F[n], has states in S.
Runs(S, k, F, s) ==
  \E f \in [0 .. k -> S] : f[0] = s /\ \A c \in 1 .. k : f[c] = F[c][f[c - 1]]

\* Such a loop has a run.
LEMMA LoopRuns ==
  ASSUME NEW S, NEW k \in Nat, NEW F \in [1 .. k -> [S -> S]], NEW s \in S
  PROVE  Runs(S, k, F, s)
<1> DEFINE Till(c, f) == f[0] = s /\ \A i \in 1 .. c : f[i] = F[i][f[i - 1]]
           P == {c \in 0 .. k : \E f \in [0 .. c -> S] : Till(c, f)}
<1>1. 0 \in P
  <2> DEFINE f == [i \in 0 .. 0 |-> s]
  <2>1. f \in [0 .. 0 -> S] /\ f[0] = s
    OBVIOUS
  <2>2. 0 \in 0 .. k /\ Till(0, f)
    BY <2>1
  <2> HIDE DEF f, Till
  <2> QED BY <2>1, <2>2
<1>2. ASSUME NEW c \in 1 .. k, c - 1 \in P PROVE c \in P
  <2>1. PICK f \in [0 .. c - 1 -> S] : Till(c - 1, f)
    BY <1>2
  <2> DEFINE x == F[c][f[c - 1]]
             g == [i \in 0 .. c |-> IF i = c THEN x ELSE f[i]]
  <2>2. x \in S
    OBVIOUS
  <2> HIDE DEF x
  <2>3. g \in [0 .. c -> S]
    BY <2>2
  <2>4. g[c] = x /\ \A i \in 0 .. c - 1 : g[i] = f[i]
    OBVIOUS
  <2> HIDE DEF g
  <2>5. ASSUME NEW i \in 1 .. c PROVE g[i] = F[i][g[i - 1]]
    <3>1. CASE i = c
      BY <2>4, <3>1 DEF x
    <3>2. CASE i # c
      <4>1. i \in 1 .. c - 1 /\ i \in 0 .. c - 1 /\ i - 1 \in 0 .. c - 1
        BY <3>2
      <4> QED BY <2>1, <2>4, <4>1
    <3> QED BY <3>1, <3>2
  <2>6. g[0] = s
    BY <2>1, <2>4
  <2>7. Till(c, g)
    BY <2>5, <2>6
  <2> HIDE DEF Till
  <2> QED BY <2>3, <2>7
<1>3. k \in P
  <2> HIDE DEF P
  <2>1. \A c \in 1 .. k : c - 1 \in P => c \in P
    BY <1>2
  <2>2. \A c \in 0 .. k : c \in P
    BY <1>1, <2>1, Steps, Zenon
  <2> QED BY <2>2
<1> QED BY <1>3 DEF Runs

-----------------------------------------------------------------------------
(* The path searches: the inductive invariant *)

\* Either program, from the state in which the first search starts.
SearchNext == A_star \/ JPS
SearchSpec == GridInit /\ [][SearchNext]_gridVars

Dirs == {-1, 0, 1} \X {-1, 0, 1}
Nodes == [g : Int, f : Int, parent : Tiles \union {None}, dir : Dirs]
Listed == Range(open_list) \union close_list

\* Free tiles next to q, and q.
Neighbours(q) == {p \in Tiles \ obstacles : AbsOf(p[1] - q[1]) < 2 /\ AbsOf(p[2] - q[2]) < 2}

GridTypeOK ==
  /\ program \in {"A_star", "JPS"}
  /\ start_point \in Tiles /\ end_point \in Tiles /\ start_point # end_point
  /\ obstacles \subseteq Tiles \ {start_point, end_point}
  /\ open_list \in Seq(Tiles) /\ close_list \subseteq Tiles /\ nodes \in [Tiles -> Nodes]
  /\ result \in {"searching", "true", "false", "undefined"}

\* A tile is in one list at most, and waits once.
ListsOK == IsInjective(open_list) /\ Range(open_list) \intersect close_list = {}

\* Whoever has a node was found from a closed one.
ParentsOK ==
  /\ start_point \in Listed
  /\ \A p \in Listed \ {start_point} :
       nodes[p].parent \in close_list /\ ClearLine(p, nodes[p].parent)

\* The parents of closed tiles are older.
AgesOK ==
  \E age \in [Tiles -> Nat] :
    \A p \in close_list :
      /\ age[p] < Cardinality(close_list)
      /\ p # start_point => age[nodes[p].parent] < age[p]

\* A_star leaves no neighbour of a closed tile out, and stops at the end.
FrontierOK ==
  program = "A_star" =>
    /\ \A p \in close_list : Neighbours(p) \subseteq Listed
    /\ end_point \notin close_list

EndedOK ==
  /\ result = "true" => end_point \in Listed
  /\ result = "undefined" => program = "A_star" /\ open_list = <<>>
  /\ result = "false" => program = "JPS"

SearchInv == /\ GridTypeOK /\ ListsOK /\ ParentsOK /\ AgesOK
             /\ Listed \subseteq Reachable /\ FrontierOK /\ EndedOK

-----------------------------------------------------------------------------
(* What can be reached *)

\* The map is finite and not empty, and a tile is a pair of coordinates.
LEMMA TilesFinite ==
  /\ GRID_WIDTH \in Nat \ {0} /\ GRID_HEIGHT \in Nat \ {0} /\ None \notin Tiles
  /\ IsFiniteSet(Tiles) /\ Cardinality(Tiles) \in Nat
  /\ \A p \in Tiles : p[1] \in 0 .. GRID_WIDTH - 1 /\ p[2] \in 0 .. GRID_HEIGHT - 1
                      /\ p = <<p[1], p[2]>>
<1>1. GRID_WIDTH \in Nat \ {0} /\ GRID_HEIGHT \in Nat \ {0} /\ None \notin Tiles
  BY GridAssumption
<1>2. IsFiniteSet(0 .. GRID_WIDTH - 1) /\ IsFiniteSet(0 .. GRID_HEIGHT - 1)
  BY <1>1, FS_Interval
<1>3. IsFiniteSet(Tiles)
  BY <1>2, FS_Product, Zenon DEF Tiles
<1>4. Cardinality(Tiles) \in Nat
  BY <1>3, FS_CardinalityType
<1>5. \A p \in Tiles : p[1] \in 0 .. GRID_WIDTH - 1 /\ p[2] \in 0 .. GRID_HEIGHT - 1
                      /\ p = <<p[1], p[2]>>
  BY DEF Tiles
<1> QED BY <1>1, <1>3, <1>4, <1>5

\* One step further from the tiles that k - 1 steps reach.
WithinStep(g, k) ==
  IF k = 0 THEN {start_point} ELSE UNION {Neighbours(q) : q \in g[k - 1]}

Within == CHOOSE g : g = [k \in 0 .. Cardinality(Tiles) |-> WithinStep(g, k)]

\* Reachable is what Within reaches in as many rounds as there are tiles.
LEMMA ReachableWithin == Reachable = Within[Cardinality(Tiles)]
BY DEF Reachable, Within, WithinStep, Neighbours

\* A round of Within reaches the free neighbours of the round before.
LEMMA WithinFacts ==
  /\ Within[0] = {start_point}
  /\ \A k \in 1 .. Cardinality(Tiles) :
       Within[k] = UNION {Neighbours(q) : q \in Within[k - 1]}
<1> DEFINE n == Cardinality(Tiles)
           S == (SUBSET Tiles) \union {{start_point}}
           grow == [T \in S |-> UNION {Neighbours(q) : q \in T}]
           F == [c \in 1 .. n |-> grow]
<1>1. n \in Nat
  BY TilesFinite
<1>2. F \in [1 .. n -> [S -> S]] /\ {start_point} \in S
  <2>1. \A q : Neighbours(q) \subseteq Tiles
    BY DEF Neighbours
  <2>2. \A T \in S : UNION {Neighbours(q) : q \in T} \in S
    BY <2>1
  <2>3. {start_point} \in S
    <3>1. {start_point} \in {{start_point}}
      OBVIOUS
    <3> QED BY <3>1, Zenon
  <2> HIDE DEF S
  <2>4. grow \in [S -> S]
    BY <2>2
  <2> HIDE DEF grow
  <2> QED BY <2>3, <2>4
<1>3. PICK f \in [0 .. n -> S] :
        f[0] = {start_point} /\ \A c \in 1 .. n : f[c] = F[c][f[c - 1]]
  <2> HIDE DEF F, n, S
  <2>1. Runs(S, n, F, {start_point})
    BY <1>1, <1>2, LoopRuns
  <2> QED BY <2>1, Zenon DEF Runs
<1>4. \A c \in 1 .. n : f[c] = UNION {Neighbours(q) : q \in f[c - 1]}
  <2> TAKE c \in 1 .. n
  <2>1. c - 1 \in 0 .. n
    BY <1>1
  <2>2. f[c - 1] \in S
    BY <2>1
  <2>3. F[c] = grow
    OBVIOUS
  <2> HIDE DEF S, F
  <2>4. grow[f[c - 1]] = UNION {Neighbours(q) : q \in f[c - 1]}
    BY <2>2
  <2> QED BY <1>3, <2>3, <2>4
<1> HIDE DEF F, S, n
<1>5. \A c \in 0 .. n : f[c] = WithinStep(f, c)
  <2> TAKE c \in 0 .. n
  <2>1. c # 0 => c \in 1 .. n
    BY <1>1
  <2> QED BY <1>3, <1>4, <2>1 DEF WithinStep
<1>6. f = [c \in 0 .. Cardinality(Tiles) |-> WithinStep(f, c)]
  BY <1>5 DEF n
<1>7. Within = [c \in 0 .. Cardinality(Tiles) |-> WithinStep(Within, c)]
  BY <1>6, Zenon DEF Within
<1>8. \A c \in 0 .. n : Within[c] = WithinStep(Within, c)
  BY <1>7, Zenon DEF n
<1>9. 0 \in 0 .. n /\ \A c \in 1 .. n : c \in 0 .. n /\ c # 0
  BY <1>1
<1> QED BY <1>8, <1>9, Zenon DEF WithinStep, n

\* Reachable is the least set with the start that no step leaves.
LEMMA ReachableLeast ==
  ASSUME NEW X, start_point \in X, \A q \in X : Neighbours(q) \subseteq X
  PROVE  Reachable \subseteq X
<1> DEFINE n == Cardinality(Tiles)
           P == {k \in 0 .. n : Within[k] \subseteq X}
<1>1. n \in Nat
  BY TilesFinite
<1>2. 0 \in P
  BY <1>1, WithinFacts
<1>3. \A c \in 1 .. n : c - 1 \in P => c \in P
  BY <1>1, WithinFacts
<1>4. n \in P
  <2> HIDE DEF P
  <2>1. \A c \in 0 .. n : c \in P
    BY <1>1, <1>2, <1>3, Steps
  <2> QED BY <1>1, <2>1
<1> QED BY <1>4, ReachableWithin

\* What can be reached is free, and so are its free neighbours, which can be
\* reached.
LEMMA ReachableClosed ==
  ASSUME start_point \in Tiles \ obstacles
  PROVE  /\ start_point \in Reachable
         /\ \A q \in Reachable : q \in Tiles \ obstacles /\ Neighbours(q) \subseteq Reachable
<1> DEFINE n == Cardinality(Tiles)
           g == Within
<1>1. n \in Nat /\ IsFiniteSet(Tiles)
  BY TilesFinite
<1>2. \A q \in Tiles \ obstacles : q \in Neighbours(q)
  <2>1. \A q \in Tiles : AbsOf(q[1] - q[1]) < 2 /\ AbsOf(q[2] - q[2]) < 2
    BY TilesFinite DEF AbsOf
  <2> QED BY <2>1 DEF Neighbours
<1>3. \A k \in 0 .. n : g[k] \subseteq Tiles \ obstacles /\ start_point \in g[k]
  <2> DEFINE P == {k \in 0 .. n : g[k] \subseteq Tiles \ obstacles /\ start_point \in g[k]}
  <2>1. 0 \in P
    BY <1>1, WithinFacts
  <2>2. ASSUME NEW c \in 1 .. n, c - 1 \in P PROVE c \in P
    <3>1. g[c] = UNION {Neighbours(q) : q \in g[c - 1]}
      BY WithinFacts
    <3>2. \A q : Neighbours(q) \subseteq Tiles \ obstacles
      BY DEF Neighbours
    <3>3. start_point \in g[c - 1] /\ start_point \in Neighbours(start_point)
      BY <1>2, <2>2
    <3>4. start_point \in g[c]
      BY <3>1, <3>3
    <3> QED BY <1>1, <3>1, <3>2, <3>4
  <2> HIDE DEF P
  <2>3. \A c \in 0 .. n : c \in P
    BY <1>1, <2>1, <2>2, Steps
  <2> QED BY <2>3 DEF P
<1>4. \A k \in 1 .. n : g[k - 1] \subseteq g[k]
  <2> TAKE k \in 1 .. n
  <2>1. g[k] = UNION {Neighbours(q) : q \in g[k - 1]}
    BY WithinFacts
  <2>2. k - 1 \in 0 .. n
    BY <1>1
  <2> QED BY <1>2, <1>3, <2>1, <2>2
<1>5. ASSUME NEW q \in g[n], ~(Neighbours(q) \subseteq g[n]) PROVE FALSE
  <2> DEFINE P == {k \in 0 .. n : Cardinality(g[k]) >= k + 1}
  <2>1. \A k \in 0 .. n : IsFiniteSet(g[k]) /\ Cardinality(g[k]) \in Nat /\ Cardinality(g[k]) <= n
    <3> TAKE k \in 0 .. n
    <3>1. g[k] \in SUBSET Tiles
      BY <1>3
    <3> QED BY <1>1, <3>1, FS_Subset, FS_CardinalityType
  <2>2. 0 \in P
    <3>1. g[0] = {start_point}
      BY WithinFacts
    <3>2. Cardinality({start_point}) = 1
      BY FS_Singleton, Zenon
    <3> QED BY <1>1, <3>1, <3>2
  <2>3. ASSUME NEW c \in 1 .. n, c - 1 \in P PROVE c \in P
    <3>1. c \in 0 .. n /\ c - 1 \in 0 .. n
      BY <1>1
    <3>2. CASE g[c] = g[c - 1]
      <4> DEFINE Q == {j \in 0 .. n : j >= c - 1 => g[j] = g[c - 1]}
      <4>1. 0 \in Q
        BY <1>1, <3>1
      <4>2. ASSUME NEW j \in 1 .. n, j - 1 \in Q PROVE j \in Q
        <5>1. g[j] = UNION {Neighbours(r) : r \in g[j - 1]} /\ g[c] = UNION {Neighbours(r) : r \in g[c - 1]}
          BY WithinFacts
        <5>2. CASE j - 1 >= c - 1
          BY <3>2, <4>2, <5>1, <5>2
        <5>3. CASE ~(j - 1 >= c - 1)
          <6>1. j >= c - 1 => j = c - 1
            BY <5>3
          <6> QED BY <6>1
        <5> QED BY <5>2, <5>3
      <4> HIDE DEF Q
      <4>3. \A j \in 0 .. n : j \in Q
        BY <1>1, <4>1, <4>2, Steps, Zenon
      <4>4. n \in 0 .. n /\ n >= c - 1
        BY <1>1
      <4>5. g[n] = g[c - 1]
        BY <4>3, <4>4 DEF Q
      <4>6. g[c] = UNION {Neighbours(r) : r \in g[c - 1]}
        BY WithinFacts
      <4> QED BY <1>5, <3>2, <4>5, <4>6
    <3>3. CASE g[c] # g[c - 1]
      <4>1. g[c - 1] \in SUBSET g[c]
        BY <1>4
      <4>2. Cardinality(g[c - 1]) <= Cardinality(g[c]) /\ Cardinality(g[c - 1]) # Cardinality(g[c])
        BY <2>1, <3>1, <3>3, <4>1, FS_Subset
      <4>3. Cardinality(g[c - 1]) >= (c - 1) + 1
        BY <2>3
      <4>4. Cardinality(g[c]) >= c + 1
        BY <2>1, <3>1, <4>2, <4>3
      <4> QED BY <3>1, <4>4
    <3> QED BY <3>2, <3>3
  <2> HIDE DEF P
  <2>4. \A c \in 0 .. n : c \in P
    BY <1>1, <2>2, <2>3, Steps
  <2>5. n \in 0 .. n
    BY <1>1
  <2>6. Cardinality(g[n]) >= n + 1
    BY <2>4, <2>5 DEF P
  <2> QED BY <1>1, <2>1, <2>5, <2>6
<1>6. n \in 0 .. n
  BY <1>1
<1> QED BY <1>3, <1>5, <1>6, ReachableWithin
-----------------------------------------------------------------------------
(* The lists *)

\* What a push_back does to what is listed.
LEMMA AppendFacts ==
  ASSUME NEW V, NEW q \in Seq(V), NEW x \in V
  PROVE  /\ Append(q, x) \in Seq(V) /\ Range(Append(q, x)) = Range(q) \union {x}
         /\ IsInjective(q) /\ x \notin Range(q) => IsInjective(Append(q, x))
<1> DEFINE r == Append(q, x)
           n == Len(q)
<1>1. n \in Nat /\ DOMAIN q = 1 .. n /\ r \in Seq(V) /\ DOMAIN r = 1 .. n + 1
  BY LenProperties, AppendProperties
<1>2. r[n + 1] = x /\ \A k \in 1 .. n : r[k] = q[k]
  BY AppendProperties
<1>3. 1 .. n + 1 = (1 .. n) \union {n + 1} /\ n + 1 \notin 1 .. n
  BY <1>1
<1> HIDE DEF r, n
<1>4. Range(r) = Range(q) \union {x}
  <2>1. Range(q) = {q[k] : k \in 1 .. n}
    BY <1>1 DEF Range
  <2>2. Range(r) = {r[k] : k \in 1 .. n + 1}
    BY <1>1 DEF Range
  <2> QED BY <1>2, <1>3, <2>1, <2>2
<1>5. ASSUME IsInjective(q), x \notin Range(q) PROVE IsInjective(r)
  <2>1. \A k \in 1 .. n : q[k] # x
    BY <1>1, <1>5 DEF Range
  <2>2. \A k, l \in 1 .. n : q[k] = q[l] => k = l
    BY <1>1, <1>5 DEF IsInjective
  <2>3. \A k, l \in 1 .. n + 1 : r[k] = r[l] => k = l
    BY <1>2, <1>3, <2>1, <2>2
  <2> QED BY <1>1, <2>3 DEF IsInjective
<1> QED BY <1>1, <1>4, <1>5 DEF r

\* What taking the front of open_list leaves.
LEMMA TailFacts ==
  ASSUME NEW V, NEW q \in Seq(V), q # <<>>, IsInjective(q)
  PROVE  /\ Head(q) \in V /\ Head(q) \in Range(q)
         /\ Tail(q) \in Seq(V) /\ IsInjective(Tail(q))
         /\ Range(Tail(q)) = Range(q) \ {Head(q)}
<1> DEFINE n == Len(q)
           t == Tail(q)
<1>1. n \in Nat \ {0} /\ DOMAIN q = 1 .. n /\ \A k \in 1 .. n : q[k] \in V
  BY LenProperties, EmptySeq, ElementOfSeq
<1>2. t \in Seq(V) /\ Len(t) = n - 1 /\ DOMAIN t = 1 .. n - 1 /\ \A k \in 1 .. n - 1 : t[k] = q[k + 1]
  BY HeadTailProperties, LenProperties
<1>3. Head(q) = q[1]
  BY HeadTailProperties
<1> HIDE DEF n, t
<1>4. \A k, l \in 1 .. n : q[k] = q[l] => k = l
  BY <1>1 DEF IsInjective
<1>5. IsInjective(t)
  <2>1. \A k, l \in 1 .. n - 1 : k + 1 \in 1 .. n /\ l + 1 \in 1 .. n /\ (k + 1 = l + 1 => k = l)
    BY <1>1
  <2>2. \A k, l \in 1 .. n - 1 : t[k] = t[l] => k = l
    BY <1>2, <1>4, <2>1, Zenon
  <2> QED BY <1>2, <2>2 DEF IsInjective
<1>6. Range(t) = Range(q) \ {q[1]}
  <2>1. \A x : x \in Range(q) <=> \E k \in 1 .. n : x = q[k]
    BY <1>1 DEF Range
  <2>2. \A x : x \in Range(t) <=> \E k \in 1 .. n - 1 : x = t[k]
    BY <1>2, Zenon DEF Range
  <2>3. ASSUME NEW x \in Range(t) PROVE x \in Range(q) \ {q[1]}
    <3>1. PICK k \in 1 .. n - 1 : x = q[k + 1]
      BY <1>2, <2>2
    <3>2. k + 1 \in 1 .. n /\ 1 \in 1 .. n /\ k + 1 # 1
      BY <1>1
    <3> QED BY <1>4, <2>1, <3>1, <3>2
  <2>4. ASSUME NEW x \in Range(q), x # q[1] PROVE x \in Range(t)
    <3>1. PICK k \in 1 .. n : x = q[k]
      BY <2>1
    <3>2. k - 1 \in 1 .. n - 1 /\ (k - 1) + 1 = k
      BY <1>1, <2>4, <3>1
    <3>3. t[k - 1] = q[(k - 1) + 1]
      BY <1>2, <3>2
    <3> QED BY <2>2, <3>1, <3>2, <3>3
  <2> QED BY <2>3, <2>4
<1>7. q[1] \in V /\ q[1] \in Range(q)
  BY <1>1 DEF Range
<1> QED BY <1>2, <1>3, <1>5, <1>6, <1>7 DEF t

\* What one list behind another holds.
LEMMA ConcatFacts ==
  ASSUME NEW V, NEW q \in Seq(V), NEW r \in Seq(V)
  PROVE  /\ q \o r \in Seq(V) /\ Range(q \o r) = Range(q) \union Range(r)
         /\ IsInjective(q) /\ IsInjective(r) /\ Range(q) \intersect Range(r) = {}
              => IsInjective(q \o r)
<1> DEFINE m == Len(q)
           n == Len(r)
           s == q \o r
<1>1. m \in Nat /\ n \in Nat /\ DOMAIN q = 1 .. m /\ DOMAIN r = 1 .. n
  BY LenProperties
<1>2. /\ s \in Seq(V) /\ DOMAIN s = 1 .. m + n
      /\ \A k \in 1 .. m : s[k] = q[k]
      /\ \A k \in 1 .. n : s[m + k] = r[k]
  <2>1. s \in Seq(V) /\ Len(s) = m + n
    BY ConcatProperties
  <2>2. \A k \in 1 .. m + n : s[k] = IF k <= m THEN q[k] ELSE r[k - m]
    BY ConcatProperties
  <2>3. \A k \in 1 .. n : m + k \in 1 .. m + n /\ ~(m + k <= m) /\ (m + k) - m = k
    BY <1>1
  <2>4. \A k \in 1 .. m : k \in 1 .. m + n /\ k <= m
    BY <1>1
  <2>5. DOMAIN s = 1 .. m + n
    BY <2>1, LenProperties
  <2>6. \A k \in 1 .. n : s[m + k] = r[k]
    <3> TAKE k \in 1 .. n
    <3>1. s[m + k] = r[(m + k) - m]
      BY <2>2, <2>3
    <3> QED BY <2>3, <3>1
  <2>7. \A k \in 1 .. m : s[k] = q[k]
    BY <2>2, <2>4
  <2> QED BY <2>1, <2>5, <2>6, <2>7
<1> HIDE DEF m, n, s
<1>3. \A k \in 1 .. m + n : k \in 1 .. m \/ \E l \in 1 .. n : k = m + l
  <2> TAKE k \in 1 .. m + n
  <2>1. CASE k <= m
    BY <1>1, <2>1
  <2>2. CASE ~(k <= m)
    <3>1. k - m \in 1 .. n /\ k = m + (k - m)
      BY <1>1, <2>2
    <3> QED BY <3>1
  <2> QED BY <2>1, <2>2
<1>4. \A k \in 1 .. m : k \in 1 .. m + n
  BY <1>1
<1>5. \A k \in 1 .. n : m + k \in 1 .. m + n
  BY <1>1
<1>6. /\ \A x : x \in Range(q) <=> \E k \in 1 .. m : x = q[k]
      /\ \A x : x \in Range(r) <=> \E k \in 1 .. n : x = r[k]
      /\ \A x : x \in Range(s) <=> \E k \in 1 .. m + n : x = s[k]
  BY <1>1, <1>2, Zenon DEF Range
<1>7. Range(s) = Range(q) \union Range(r)
  <2>1. ASSUME NEW x \in Range(s) PROVE x \in Range(q) \union Range(r)
    <3>1. PICK k \in 1 .. m + n : x = s[k]
      BY <1>6, <2>1, Zenon
    <3>2. k \in 1 .. m \/ \E l \in 1 .. n : k = m + l
      BY <1>3, Zenon
    <3> QED BY ONLY <1>2, <1>6, <3>1, <3>2
  <2>2. ASSUME NEW x \in Range(q) PROVE x \in Range(s)
    BY <1>2, <1>4, <1>6
  <2>3. ASSUME NEW x \in Range(r) PROVE x \in Range(s)
    BY <1>2, <1>5, <1>6
  <2> QED BY <2>1, <2>2, <2>3
<1>8. ASSUME IsInjective(q), IsInjective(r), Range(q) \intersect Range(r) = {} PROVE IsInjective(s)
  <2>1. \A k, l \in 1 .. m : q[k] = q[l] => k = l
    BY <1>1, <1>8 DEF IsInjective
  <2>2. \A k, l \in 1 .. n : r[k] = r[l] => k = l
    BY <1>1, <1>8 DEF IsInjective
  <2>3. \A k \in 1 .. m, l \in 1 .. n : q[k] # r[l]
    BY <1>6, <1>8, Zenon
  <2>4. ASSUME NEW k \in 1 .. m + n, NEW l \in 1 .. m + n, s[k] = s[l] PROVE k = l
    <3>1. CASE k \in 1 .. m /\ l \in 1 .. m
      BY <1>2, <2>1, <2>4, <3>1
    <3>2. ASSUME NEW u \in 1 .. n, l = m + u, k \in 1 .. m PROVE FALSE
      BY <1>2, <2>3, <2>4, <3>2
    <3>3. ASSUME NEW u \in 1 .. n, k = m + u, l \in 1 .. m PROVE FALSE
      BY <1>2, <2>3, <2>4, <3>3
    <3>4. ASSUME NEW u \in 1 .. n, k = m + u, NEW v \in 1 .. n, l = m + v PROVE k = l
      <4>1. s[k] = r[u] /\ s[l] = r[v]
        BY <1>2, <3>4
      <4>2. u = v
        BY <2>2, <2>4, <4>1, Zenon
      <4> QED BY <3>4, <4>2
    <3> QED BY <1>3, <3>1, <3>2, <3>3, <3>4
  <2> QED BY <1>2, <2>4 DEF IsInjective
<1> QED BY <1>2, <1>7, <1>8 DEF s

\* The positions before position i in the order that the sort makes.
Before(list, ns, i) ==
  {j \in DOMAIN list : \/ ns[list[j]].f < ns[list[i]].f
                       \/ ns[list[j]].f = ns[list[i]].f /\ j < i}

Rank(list, ns) == [i \in DOMAIN list |-> Cardinality(Before(list, ns, i)) + 1]

\* The sort of open_list, unfolded.
LEMMA SortedByRank ==
  ASSUME NEW list, NEW ns
  PROVE  Sorted(list, ns) =
           [k \in DOMAIN list |-> list[CHOOSE i \in DOMAIN list : Rank(list, ns)[i] = k]]
BY DEF Sorted, Rank, Before

\* The sort moves the nodes and does no more.
LEMMA SortedFacts ==
  ASSUME NEW list \in Seq(Tiles), NEW ns \in [Tiles -> Nodes]
  PROVE  /\ Sorted(list, ns) \in Seq(Tiles)
         /\ Range(Sorted(list, ns)) = Range(list)
         /\ IsInjective(list) => IsInjective(Sorted(list, ns))
<1> DEFINE n == Len(list)
           f == [i \in 1 .. n |-> ns[list[i]].f]
           B(i) == Before(list, ns, i)
           rank == Rank(list, ns)
           at == [k \in 1 .. n |-> CHOOSE i \in 1 .. n : rank[i] = k]
           s == Sorted(list, ns)
<1>1. n \in Nat /\ DOMAIN list = 1 .. n /\ \A i \in 1 .. n : list[i] \in Tiles
  BY LenProperties, ElementOfSeq
<1>2. \A i \in 1 .. n : ns[list[i]].f \in Int
  <2>1. \A i \in 1 .. n : ns[list[i]] \in Nodes
    BY <1>1
  <2> QED BY <2>1 DEF Nodes
<1>3. \A i \in 1 .. n : f[i] \in Int /\ B(i) = {j \in 1 .. n : f[j] < f[i] \/ (f[j] = f[i] /\ j < i)}
  BY <1>1, <1>2 DEF Before
<1>4. rank = [i \in 1 .. n |-> Cardinality(B(i)) + 1]
  BY <1>1 DEF Rank
<1> HIDE DEF f, B, rank, n
<1>5. IsFiniteSet(1 .. n) /\ Cardinality(1 .. n) = n
  BY <1>1, FS_Interval
<1>6. \A i \in 1 .. n : IsFiniteSet(B(i)) /\ Cardinality(B(i)) \in Nat /\ Cardinality(B(i)) <= n - 1
  <2> TAKE i \in 1 .. n
  <2>1. B(i) \subseteq (1 .. n) \ {i}
    BY <1>1, <1>3
  <2>2. IsFiniteSet((1 .. n) \ {i}) /\ Cardinality((1 .. n) \ {i}) = n - 1
    BY <1>5, FS_RemoveElement, Zenon
  <2> QED BY <2>1, <2>2, FS_Subset, FS_CardinalityType
<1>7. ASSUME NEW i \in 1 .. n, NEW j \in 1 .. n, f[j] < f[i] \/ (f[j] = f[i] /\ j < i)
      PROVE  rank[j] < rank[i]
  <2>1. B(j) \subseteq B(i) /\ j \in B(i) /\ j \notin B(j)
    <3>1. \A k \in 1 .. n : f[k] \in Int
      BY <1>3
    <3> QED BY <1>3, <1>7, <3>1
  <2>2. Cardinality(B(j)) <= Cardinality(B(i)) /\ Cardinality(B(j)) # Cardinality(B(i))
    BY <1>6, <2>1, FS_Subset
  <2> QED BY <1>4, <1>6, <2>2
<1>8. rank \in [1 .. n -> 1 .. n] /\ \A i, j \in 1 .. n : rank[i] = rank[j] => i = j
  <2>1. rank \in [1 .. n -> 1 .. n]
    BY <1>1, <1>4, <1>6
  <2>2. ASSUME NEW i \in 1 .. n, NEW j \in 1 .. n, i # j PROVE rank[i] # rank[j]
    <3>1. f[i] \in Int /\ f[j] \in Int /\ rank[i] \in Int /\ rank[j] \in Int
      BY <1>3, <2>1
    <3>2. \/ f[j] < f[i] \/ (f[j] = f[i] /\ j < i)
          \/ f[i] < f[j] \/ (f[i] = f[j] /\ i < j)
      BY <2>2, <3>1
    <3>3. rank[i] < rank[j] \/ rank[j] < rank[i]
      BY <1>7, <3>2
    <3> QED BY <3>1, <3>3
  <2> QED BY <2>1, <2>2
<1>9. \A k \in 1 .. n : \E i \in 1 .. n : rank[i] = k
  <2>1. rank \in Injection(1 .. n, 1 .. n)
    BY <1>8 DEF Injection, IsInjective
  <2>2. rank \in Surjection(1 .. n, 1 .. n)
    BY <1>5, <2>1, FS_Injection
  <2> QED BY <2>2 DEF Surjection
<1>10. at \in [1 .. n -> 1 .. n] /\ \A k \in 1 .. n : rank[at[k]] = k
  BY <1>9, Zenon
<1>11. \A i \in 1 .. n : \E k \in 1 .. n : at[k] = i
  <2> TAKE i \in 1 .. n
  <2>1. rank[i] \in 1 .. n
    BY <1>8
  <2> HIDE DEF at
  <2>2. rank[at[rank[i]]] = rank[i] /\ at[rank[i]] \in 1 .. n
    BY <1>10, <2>1
  <2> QED BY <1>8, <2>1, <2>2
<1>12. s = [k \in 1 .. n |-> list[at[k]]]
  <2>1. s = [k \in DOMAIN list |-> list[CHOOSE i \in DOMAIN list : rank[i] = k]]
    BY SortedByRank, Zenon DEF rank
  <2>2. s = [k \in 1 .. n |-> list[CHOOSE i \in 1 .. n : rank[i] = k]]
    <3> HIDE DEF s
    <3> QED BY <1>1, <2>1
  <2> HIDE DEF s
  <2> QED BY <2>2
<1> HIDE DEF at, s
<1>13. s \in [1 .. n -> Tiles]
  BY <1>1, <1>10, <1>12
<1>14. s \in Seq(Tiles)
  BY <1>1, <1>13, SeqDef
<1>15. Range(s) = Range(list)
  <2>1. \A x : x \in Range(s) <=> \E k \in 1 .. n : x = s[k]
    BY <1>13 DEF Range
  <2>2. \A x : x \in Range(list) <=> \E k \in 1 .. n : x = list[k]
    BY <1>1 DEF Range
  <2>3. ASSUME NEW x \in Range(s) PROVE x \in Range(list)
    BY <1>10, <1>12, <2>1, <2>2
  <2>4. ASSUME NEW x \in Range(list) PROVE x \in Range(s)
    <3>1. PICK i \in 1 .. n : x = list[i]
      BY <2>2
    <3>2. PICK k \in 1 .. n : at[k] = i
      BY <1>11
    <3>3. s[k] = x
      BY <1>12, <3>1, <3>2
    <3> QED BY <2>1, <3>3
  <2> QED BY <2>3, <2>4, Zenon
<1>16. ASSUME IsInjective(list) PROVE IsInjective(s)
  <2>1. \A k, l \in 1 .. n : list[k] = list[l] => k = l
    BY <1>1, <1>16 DEF IsInjective
  <2>2. \A k, l \in 1 .. n : s[k] = s[l] => k = l
    BY <1>10, <1>12, <2>1, Zenon
  <2> QED BY <1>13, <2>2 DEF IsInjective
<1> QED BY <1>14, <1>15, <1>16 DEF s
-----------------------------------------------------------------------------
(* A visit *)

\* What a turn of either loop does that does not find the end.
Visits(visit) ==
  /\ UNCHANGED <<program, obstacles, start_point, end_point>>
  /\ close_list' = close_list \union {visit}
  /\ open_list' \in Seq(Tiles) /\ IsInjective(open_list')
  /\ Range(open_list) \ {visit} \subseteq Range(open_list')
  /\ Range(open_list') \intersect close_list' = {} /\ Range(open_list') \subseteq Reachable
  /\ nodes' \in [Tiles -> Nodes] /\ \A p \in close_list' : nodes'[p] = nodes[p]
  /\ \A p \in Range(open_list') \ {start_point} :
       nodes'[p].parent \in close_list' /\ ClearLine(p, nodes'[p].parent)

\* What the grid is does not change.
LEMMA SameGrid ==
  ASSUME UNCHANGED <<obstacles, start_point>>
  PROVE  /\ Reachable' = Reachable /\ \A p, q : ClearLine(p, q)' <=> ClearLine(p, q)
         /\ \A p : Neighbours(p)' = Neighbours(p)
<1>1. Reachable' = Reachable
  BY DEF Reachable
<1>2. \A p, q : ClearLine(p, q)' <=> ClearLine(p, q)
  BY DEF ClearLine, Blocked, Check_Inside
<1>3. \A p : Neighbours(p)' = Neighbours(p)
  BY DEF Neighbours
<1> QED BY <1>1, <1>2, <1>3

\* A turn of either loop keeps the invariant when it closes visit and lists
\* new tiles that see visit, each under it: what both programs do.
LEMMA VisitKeeps ==
  ASSUME SearchInv, NEW visit \in Range(open_list), Visits(visit), result' \in {"searching", "true"}
  PROVE  /\ GridTypeOK' /\ ListsOK' /\ ParentsOK' /\ AgesOK' /\ (Listed \subseteq Reachable)'
         /\ Listed \subseteq Listed'
<1>1. GridTypeOK /\ ListsOK /\ ParentsOK /\ Listed \subseteq Reachable
  BY DEF SearchInv
<1>2. visit \in Tiles /\ visit \notin close_list /\ IsFiniteSet(close_list)
  <2>1. Range(open_list) \subseteq Tiles
    BY <1>1, RangeOfSeq DEF GridTypeOK, Range
  <2>2. close_list \in SUBSET Tiles
    BY <1>1 DEF GridTypeOK
  <2> QED BY <1>1, <2>1, <2>2, TilesFinite, FS_Subset DEF ListsOK
<1>3. UNCHANGED <<program, obstacles, start_point, end_point>>
  BY DEF Visits
<1>4. GridTypeOK'
  BY <1>1, <1>2, <1>3 DEF GridTypeOK, Visits
<1>5. ListsOK'
  BY DEF ListsOK, Visits
<1>6. Listed \subseteq Listed' /\ Listed' \subseteq Range(open_list') \union close_list \union {visit}
  BY DEF Listed, Visits
<1>7. \A p \in close_list' \ {start_point} :
        nodes'[p].parent \in close_list /\ ClearLine(p, nodes'[p].parent)
  <2> TAKE p \in close_list' \ {start_point}
  <2>1. p \in Listed /\ nodes'[p] = nodes[p]
    BY DEF Listed, Visits
  <2> QED BY <1>1, <2>1 DEF ParentsOK
<1>8. ParentsOK'
  <2>1. start_point' \in Listed'
    BY <1>1, <1>3, <1>6 DEF ParentsOK
  <2>2. ASSUME NEW p \in Listed' \ {start_point}
        PROVE  nodes'[p].parent \in close_list' /\ ClearLine(p, nodes'[p].parent)
    <3>1. CASE p \in close_list'
      BY <1>7, <3>1 DEF Visits
    <3>2. CASE p \in Range(open_list')
      BY <3>2 DEF Visits
    <3> QED BY <3>1, <3>2 DEF Listed
  <2> QED BY <1>3, <2>1, <2>2, Zenon DEF ParentsOK, ClearLine, Blocked, Check_Inside, Visits
<1>9. AgesOK'
  <2> DEFINE c == Cardinality(close_list)
  <2>1. PICK age \in [Tiles -> Nat] :
          \A p \in close_list :
            /\ age[p] < c
            /\ p # start_point => age[nodes[p].parent] < age[p]
    BY DEF SearchInv, AgesOK
  <2>2. c \in Nat /\ Cardinality(close_list') = c + 1
    BY <1>2, FS_CardinalityType, FS_AddElement DEF Visits
  <2> HIDE DEF c
  <2> DEFINE older == [age EXCEPT ![visit] = c]
  <2>3. older \in [Tiles -> Nat] /\ older[visit] = c /\ \A p \in close_list : older[p] = age[p]
    BY <1>1, <1>2, <2>2 DEF GridTypeOK
  <2> HIDE DEF older
  <2>4. ASSUME NEW p \in close_list'
        PROVE  older[p] < c + 1 /\ (p # start_point => older[nodes'[p].parent] < older[p])
    <3>1. nodes'[p] = nodes[p] /\ (p # start_point => nodes[p].parent \in close_list)
      BY <1>7 DEF Visits
    <3>2. CASE p \in close_list
      <4>1. age[p] \in Nat /\ age[p] < c
        BY <1>1, <2>1, <3>2 DEF GridTypeOK
      <4> QED BY <2>1, <2>2, <2>3, <3>1, <3>2, <4>1
    <3>3. CASE p = visit
      <4>1. \A q \in close_list : age[q] < c
        BY <2>1
      <4> QED BY <2>2, <2>3, <3>1, <3>3, <4>1
    <3> QED BY <3>2, <3>3 DEF Visits
  <2> QED BY <1>3, <2>2, <2>3, <2>4 DEF AgesOK
<1>10. (Listed \subseteq Reachable)'
  <2>1. Reachable' = Reachable
    BY <1>3, SameGrid
  <2>2. close_list' \subseteq Reachable
    BY <1>1 DEF Listed, Visits
  <2> QED BY <2>1, <2>2 DEF Listed, Visits
<1> QED BY <1>4, <1>5, <1>6, <1>8, <1>9, <1>10

-----------------------------------------------------------------------------
(* A_star *)

\* Where one step and no step along a direction lead.
LEMMA AtOnce ==
  ASSUME NEW p \in Tiles, NEW d \in Dirs
  PROVE  /\ At(p, d, 1) = <<p[1] + d[1], p[2] + d[2]>>
         /\ At(p, d, 0) = p
         /\ d[1] \in {-1, 0, 1} /\ d[2] \in {-1, 0, 1} /\ d = <<d[1], d[2]>>
<1>1. d[1] \in {-1, 0, 1} /\ d[2] \in {-1, 0, 1} /\ d = <<d[1], d[2]>>
  BY DEF Dirs
<1>2. p[1] \in Int /\ p[2] \in Int /\ p = <<p[1], p[2]>>
  BY TilesFinite
<1> QED BY <1>1, <1>2 DEF At

\* Two free neighbours see each other.
LEMMA NextTo ==
  ASSUME NEW p \in Tiles \ obstacles, NEW q \in Neighbours(p), p # q
  PROVE  ClearLine(q, p)
<1> DEFINE d == <<p[1] - q[1], p[2] - q[2]>>
<1>1. /\ p[1] \in Int /\ p[2] \in Int /\ p = <<p[1], p[2]>>
      /\ q[1] \in Int /\ q[2] \in Int /\ q = <<q[1], q[2]>> /\ q \in Tiles \ obstacles
  BY TilesFinite DEF Neighbours
<1>2. d[1] \in {-1, 0, 1} /\ d[2] \in {-1, 0, 1} /\ d # <<0, 0>>
  BY <1>1 DEF Neighbours, AbsOf
<1>3. d \in Dirs /\ d \in ({-1, 0, 1} \X {-1, 0, 1}) \ {<<0, 0>>}
  BY <1>2 DEF Dirs
<1>4. At(q, d, 1) = p
  <2>1. At(q, d, 1) = <<q[1] + d[1], q[2] + d[2]>>
    BY <1>1, <1>3, AtOnce
  <2> QED BY <1>1, <2>1
<1>5. At(q, d, 0) = q
  BY <1>1, <1>3, AtOnce
<1> HIDE DEF d
<1>6. \A i \in 0 .. 1 : ~Blocked(At(q, d, i))
  <2> TAKE i \in 0 .. 1
  <2>1. i = 0 \/ i = 1
    OBVIOUS
  <2> QED BY <1>1, <1>4, <1>5, <2>1 DEF Blocked, Check_Inside
<1>7. 1 \in 1 .. GRID_WIDTH + GRID_HEIGHT
  BY TilesFinite
<1> QED BY <1>3, <1>4, <1>6, <1>7 DEF ClearLine

\* The loops over -1 .. 1 meet all neighbours and nothing else.
LEMMA AroundFacts ==
  /\ Len(Around) = 8 /\ \A i \in 1 .. 8 : Around[i] \in Dirs \ {<<0, 0>>}
  /\ \A d \in Dirs \ {<<0, 0>>} : \E i \in 1 .. 8 : d = Around[i]
  /\ \A i, j \in 1 .. 8 : Around[i] = Around[j] => i = j
<1>1. /\ Len(Around) = 8
      /\ Around[1] = <<-1, -1>> /\ Around[2] = <<0, -1>> /\ Around[3] = <<1, -1>>
      /\ Around[4] = <<-1, 0>> /\ Around[5] = <<1, 0>>
      /\ Around[6] = <<-1, 1>> /\ Around[7] = <<0, 1>> /\ Around[8] = <<1, 1>>
  BY DEF Around
<1>2. \A i \in 1 .. 8 : i = 1 \/ i = 2 \/ i = 3 \/ i = 4 \/ i = 5 \/ i = 6 \/ i = 7 \/ i = 8
  OBVIOUS
<1>3. \A i \in 1 .. 8 : Around[i] \in Dirs \ {<<0, 0>>}
  BY <1>1, <1>2 DEF Dirs
<1>4. ASSUME NEW d \in Dirs \ {<<0, 0>>} PROVE \E i \in 1 .. 8 : d = Around[i]
  <2>1. \/ d = <<-1, -1>> \/ d = <<0, -1>> \/ d = <<1, -1>> \/ d = <<-1, 0>>
        \/ d = <<1, 0>> \/ d = <<-1, 1>> \/ d = <<0, 1>> \/ d = <<1, 1>>
    BY DEF Dirs
  <2> QED BY <1>1, <2>1
<1>5. \A i \in 1 .. 8 : Around[i] = <<Around[i][1], Around[i][2]>>
                        /\ 3 * Around[i][2] + Around[i][1] = IF i <= 4 THEN i - 5 ELSE i - 4
  BY <1>1, <1>2
<1>6. ASSUME NEW i \in 1 .. 8, NEW j \in 1 .. 8, Around[i] = Around[j] PROVE i = j
  <2>1. (IF i <= 4 THEN i - 5 ELSE i - 4) = IF j <= 4 THEN j - 5 ELSE j - 4
    BY <1>5, <1>6
  <2> QED BY <2>1
<1> QED BY <1>1, <1>3, <1>4, <1>6

FreshStep(visit, g, n) ==
  IF n = 0 THEN <<>>
  ELSE IF Open(At(visit, Around[n], 1), visit) /\ ~Fine_open_list(At(visit, Around[n], 1))
    THEN Append(g[n - 1], At(visit, Around[n], 1)) ELSE g[n - 1]

FreshWalk(visit) == CHOOSE g : g = [n \in 0 .. Len(Around) |-> FreshStep(visit, g, n)]

\* Fresh, the loop that lists the tiles, unfolded.
LEMMA FreshWalks ==
  ASSUME NEW visit
  PROVE  Fresh(visit) = FreshWalk(visit)[Len(Around)]
BY DEF Fresh, FreshWalk, FreshStep

New(visit) == {p \in Neighbours(visit) \ {visit} : p \notin Listed}

\* A_star lists each neighbour that no list holds, once.
LEMMA FreshFacts ==
  ASSUME NEW visit \in Tiles
  PROVE  /\ Fresh(visit) \in Seq(Tiles) /\ IsInjective(Fresh(visit))
         /\ Range(Fresh(visit)) = New(visit)
<1> DEFINE x(n) == At(visit, Around[n], 1)
           Takes(n) == Open(x(n), visit) /\ ~Fine_open_list(x(n))
           V == Seq(Tiles)
           F == [n \in 1 .. 8 |-> [r \in V |-> IF Takes(n) THEN Append(r, x(n)) ELSE r]]
<1>1. \A n \in 1 .. 8 : Takes(n) => x(n) \in Tiles
  BY DEF Open, Blocked, Check_Inside
<1>2. \A i, j \in 1 .. 8 : x(i) = x(j) => i = j
  <2> TAKE i, j \in 1 .. 8
  <2>1. Around[i] \in Dirs /\ Around[j] \in Dirs /\ (Around[i] = Around[j] => i = j)
    BY AroundFacts
  <2>2. visit[1] \in Int /\ visit[2] \in Int
    BY TilesFinite
  <2>3. /\ x(i) = <<visit[1] + Around[i][1], visit[2] + Around[i][2]>>
        /\ x(j) = <<visit[1] + Around[j][1], visit[2] + Around[j][2]>>
        /\ Around[i][1] \in Int /\ Around[i][2] \in Int /\ Around[j][1] \in Int /\ Around[j][2] \in Int
        /\ Around[i] = <<Around[i][1], Around[i][2]>> /\ Around[j] = <<Around[j][1], Around[j][2]>>
    BY <2>1, AtOnce
  <2> HIDE DEF x
  <2>4. ASSUME x(i) = x(j) PROVE Around[i][1] = Around[j][1] /\ Around[i][2] = Around[j][2]
    <3>1. <<visit[1] + Around[i][1], visit[2] + Around[i][2]>> = <<visit[1] + Around[j][1], visit[2] + Around[j][2]>>
      BY <2>3, <2>4, Zenon
    <3>2. visit[1] + Around[i][1] = visit[1] + Around[j][1] /\ visit[2] + Around[i][2] = visit[2] + Around[j][2]
      BY <3>1, Zenon
    <3>3. /\ Around[i][1] \in Int /\ Around[i][2] \in Int /\ Around[j][1] \in Int /\ Around[j][2] \in Int
      BY <2>3, Zenon
    <3>4. \A a, b, c \in Int : a + b = a + c => b = c
      OBVIOUS
    <3> QED BY ONLY <2>2, <3>2, <3>3, <3>4, Zenon
  <2> QED BY <2>1, <2>3, <2>4
<1>3. \A n \in 1 .. 8 : x(n) \in Tiles => (Takes(n) <=> x(n) \in New(visit))
  <2> TAKE n \in 1 .. 8
  <2> SUFFICES ASSUME x(n) \in Tiles PROVE Takes(n) <=> x(n) \in New(visit)
    OBVIOUS
  <2>1. Around[n] \in Dirs \ {<<0, 0>>}
    BY AroundFacts
  <2>2. visit[1] \in Int /\ visit[2] \in Int /\ visit = <<visit[1], visit[2]>>
    BY TilesFinite
  <2>3. /\ x(n) = <<visit[1] + Around[n][1], visit[2] + Around[n][2]>>
        /\ Around[n][1] \in {-1, 0, 1} /\ Around[n][2] \in {-1, 0, 1}
        /\ Around[n] = <<Around[n][1], Around[n][2]>>
    BY <2>1, AtOnce
  <2> HIDE DEF x
  <2>4. x(n) # visit
    BY <2>1, <2>2, <2>3
  <2>5. AbsOf(x(n)[1] - visit[1]) < 2 /\ AbsOf(x(n)[2] - visit[2]) < 2
    BY <2>2, <2>3 DEF AbsOf
  <2> QED BY <2>4, <2>5 DEF Open, Blocked, Check_Inside, Fine_open_list, Fine_close_list, New,
                           Neighbours, Listed
<1>4. \A p \in New(visit) : \E n \in 1 .. 8 : p = x(n)
  <2> TAKE p \in New(visit)
  <2> DEFINE d == <<p[1] - visit[1], p[2] - visit[2]>>
  <2>1. /\ p \in Tiles /\ p # visit
        /\ AbsOf(p[1] - visit[1]) < 2 /\ AbsOf(p[2] - visit[2]) < 2
    BY DEF New, Neighbours
  <2>2. /\ visit[1] \in Int /\ visit[2] \in Int /\ visit = <<visit[1], visit[2]>>
        /\ p[1] \in Int /\ p[2] \in Int /\ p = <<p[1], p[2]>>
    BY <2>1, TilesFinite
  <2>3. d \in Dirs \ {<<0, 0>>}
    BY <2>1, <2>2 DEF AbsOf, Dirs
  <2>4. PICK n \in 1 .. 8 : d = Around[n]
    BY <2>3, AroundFacts
  <2>5. x(n) = <<visit[1] + d[1], visit[2] + d[2]>>
    BY <2>3, <2>4, AtOnce
  <2> QED BY <2>2, <2>5
<1> HIDE DEF x, Takes
<1>5. F \in [1 .. 8 -> [V -> V]]
  <2>1. \A n \in 1 .. 8, r \in V : (IF Takes(n) THEN Append(r, x(n)) ELSE r) \in V
    BY <1>1, AppendProperties
  <2> HIDE DEF V
  <2> QED BY <2>1
<1>6. PICK f \in [0 .. 8 -> V] : f[0] = <<>> /\ \A c \in 1 .. 8 : f[c] = F[c][f[c - 1]]
  <2>1. 8 \in Nat /\ F \in [1 .. 8 -> [V -> V]] /\ <<>> \in V
    BY <1>5, EmptySeq
  <2> HIDE DEF F, V
  <2>2. Runs(V, 8, F, <<>>)
    BY <2>1, LoopRuns, Zenon
  <2> QED BY <2>2, Zenon DEF Runs
<1>7. \A c \in 1 .. 8 : f[c] = IF Takes(c) THEN Append(f[c - 1], x(c)) ELSE f[c - 1]
  <2> TAKE c \in 1 .. 8
  <2>1. c - 1 \in 0 .. 8
    OBVIOUS
  <2>2. f[c - 1] \in V
    BY <2>1, Zenon
  <2> HIDE DEF V
  <2> QED BY <1>6, <2>2, Zenon
<1> HIDE DEF F, V
<1>8. \A c \in 0 .. 8 : f[c] = FreshStep(visit, f, c)
  <2> TAKE c \in 0 .. 8
  <2>1. c # 0 => c \in 1 .. 8
    OBVIOUS
  <2> QED BY <1>6, <1>7, <2>1, Zenon DEF FreshStep, Takes, x
<1>9. f = [c \in 0 .. Len(Around) |-> FreshStep(visit, f, c)]
  BY <1>8, AroundFacts
<1> DEFINE g == FreshWalk(visit)
<1>10. g = [c \in 0 .. Len(Around) |-> FreshStep(visit, g, c)]
  BY <1>9, Zenon DEF FreshWalk
<1> HIDE DEF g
<1>11. \A c \in 0 .. 8 : g[c] = FreshStep(visit, g, c)
  BY <1>10, AroundFacts
<1>12. /\ g[0] = <<>>
       /\ \A c \in 1 .. 8 : g[c] = IF Takes(c) THEN Append(g[c - 1], x(c)) ELSE g[c - 1]
  <2>1. 0 \in 0 .. 8 /\ \A c \in 1 .. 8 : c \in 0 .. 8 /\ c # 0
    OBVIOUS
  <2> QED BY <1>11, <2>1 DEF FreshStep, Takes, x
<1> DEFINE Till(c) == {x(i) : i \in {j \in 1 .. c : Takes(j)}}
           P == {c \in 0 .. 8 : g[c] \in Seq(Tiles) /\ IsInjective(g[c]) /\ Range(g[c]) = Till(c)}
<1>13. 0 \in P
  <2>1. Till(0) = {} /\ 0 \in 0 .. 8
    OBVIOUS
  <2>2. <<>> \in Seq(Tiles) /\ IsInjective(<<>>) /\ Range(<<>>) = {}
    BY EmptySeq DEF Range, IsInjective
  <2> HIDE DEF Till
  <2> QED BY <1>12, <2>1, <2>2, Zenon
<1>14. ASSUME NEW c \in 1 .. 8, c - 1 \in P PROVE c \in P
  <2>1. c \in 0 .. 8 /\ g[c - 1] \in Seq(Tiles) /\ IsInjective(g[c - 1]) /\ Range(g[c - 1]) = Till(c - 1)
    BY <1>14
  <2>2. 1 .. c = (1 .. c - 1) \union {c}
    OBVIOUS
  <2>3. x(c) \notin Till(c - 1)
    <3>1. \A i \in 1 .. c - 1 : i \in 1 .. 8 /\ i # c
      OBVIOUS
    <3> QED BY <1>2, <3>1
  <2>4. CASE Takes(c)
    <3>1. Till(c) = Till(c - 1) \union {x(c)}
      BY <2>2, <2>4
    <3>2. g[c] = Append(g[c - 1], x(c)) /\ x(c) \in Tiles
      BY <1>1, <1>12, <2>4, Zenon
    <3> HIDE DEF Till
    <3>3. g[c] \in Seq(Tiles) /\ IsInjective(g[c]) /\ Range(g[c]) = Till(c)
      BY <2>1, <2>3, <3>1, <3>2, AppendFacts
    <3> QED BY <2>1, <3>3
  <2>5. CASE ~Takes(c)
    <3>1. Till(c) = Till(c - 1)
      BY <2>2, <2>5
    <3>2. g[c] = g[c - 1]
      BY <1>12, <2>5
    <3> HIDE DEF Till
    <3> QED BY <2>1, <3>1, <3>2
  <2> QED BY <2>4, <2>5
<1>15. 8 \in P
  <2> HIDE DEF P
  <2>1. \A c \in 1 .. 8 : c - 1 \in P => c \in P
    BY <1>14
  <2>2. \A c \in 0 .. 8 : c \in P
    BY <1>13, <2>1, Steps
  <2> QED BY <2>2
<1>16. Till(8) = New(visit)
  <2>1. New(visit) \subseteq Tiles
    BY DEF New, Neighbours
  <2> QED BY <1>1, <1>3, <1>4, <2>1
<1>17. g[8] \in Seq(Tiles) /\ IsInjective(g[8]) /\ Range(g[8]) = New(visit)
  <2> HIDE DEF Till
  <2> QED BY <1>15, <1>16
<1> QED BY <1>17, FreshWalks, AroundFacts DEF g

\* The fields of a node.
LEMMA NodeType ==
  ASSUME NEW p \in Tiles, NEW end \in Tiles, NEW g \in Int, NEW q \in Tiles \union {None}, NEW d \in Dirs
  PROVE  Node(p, end, g, q, d) \in Nodes /\ Node(p, end, g, q, d).parent = q
<1>1. p[1] \in Int /\ p[2] \in Int /\ end[1] \in Int /\ end[2] \in Int
  BY TilesFinite
<1>2. Get_h(p, end) \in Int
  BY <1>1 DEF Get_h, Get_Distance, AbsOf
<1> HIDE DEF Dirs
<1> QED BY <1>2 DEF Node, Nodes

\* A turn of A_star makes the new nodes, and gives others a new parent at most.
LEMMA VisitedFacts ==
  ASSUME GridTypeOK, NEW visit \in Tiles, NEW fresh, fresh = New(visit)
  PROVE  /\ Visited(visit, fresh) \in [Tiles -> Nodes]
         /\ \A p \in Tiles :
              \/ Visited(visit, fresh)[p] = nodes[p] /\ p \notin New(visit)
              \/ /\ p \in Neighbours(visit) \ {visit} /\ p \notin close_list
                 /\ Visited(visit, fresh)[p].parent = visit
<1> DEFINE v == Visited(visit, fresh)
           Takes(p) == /\ p \notin fresh /\ Open(p, visit)
                       /\ \E i \in DOMAIN Around : p = At(visit, Around[i], 1)
                       /\ nodes[visit].g + 2 < nodes[p].g
           made(p) == Node(p, end_point, nodes[visit].g + IF 1 < Get_Distance(visit, p) THEN 3 ELSE 2,
                           visit, <<0, 0>>)
           again(p) == [nodes[p] EXCEPT !.g = nodes[visit].g + 2, !.parent = visit]
<1>1. \A p \in Tiles : v[p] = IF p \in fresh THEN made(p) ELSE IF Takes(p) THEN again(p) ELSE nodes[p]
  BY DEF Visited
<1>2. v = [p \in Tiles |-> v[p]]
  BY DEF Visited
<1>3. nodes \in [Tiles -> Nodes] /\ end_point \in Tiles
  BY DEF GridTypeOK
<1>4. nodes[visit].g \in Int
  <2>1. nodes[visit] \in Nodes
    BY <1>3
  <2> QED BY <2>1 DEF Nodes
<1>5. \A p \in Tiles : made(p) \in Nodes /\ made(p).parent = visit
  <2> TAKE p \in Tiles
  <2>1. <<0, 0>> \in Dirs
    BY DEF Dirs
  <2>2. (nodes[visit].g + IF 1 < Get_Distance(visit, p) THEN 3 ELSE 2) \in Int
    BY <1>4
  <2> QED BY <1>3, <2>1, <2>2, NodeType
<1>6. \A p \in Tiles : again(p) \in Nodes /\ again(p).parent = visit
  <2> TAKE p \in Tiles
  <2> DEFINE n == nodes[p]
             h == nodes[visit].g + 2
  <2>1. n \in Nodes /\ h \in Int /\ visit \in Tiles \union {None}
    BY <1>3, <1>4
  <2>2. again(p) = [n EXCEPT !.g = h, !.parent = visit]
    OBVIOUS
  <2> HIDE DEF n, h, again
  <2>3. n = [g |-> n.g, f |-> n.f, parent |-> n.parent, dir |-> n.dir] /\ n.f \in Int /\ n.dir \in Dirs
    BY <2>1 DEF Nodes
  <2>4. again(p) = [g |-> h, f |-> n.f, parent |-> visit, dir |-> n.dir]
    BY <2>2, <2>3, Zenon
  <2> QED BY <2>1, <2>3, <2>4 DEF Nodes
<1>7. \A p \in Tiles : Takes(p) => p \in Neighbours(visit) \ {visit} /\ p \notin close_list
  <2> SUFFICES ASSUME NEW p \in Tiles, Takes(p)
               PROVE  p \in Neighbours(visit) \ {visit} /\ p \notin close_list
    OBVIOUS
  <2>1. PICK i \in 1 .. 8 : p = At(visit, Around[i], 1)
    BY AroundFacts DEF Around
  <2>2. Around[i] \in Dirs
    BY AroundFacts
  <2>3. visit[1] \in Int /\ visit[2] \in Int
    BY TilesFinite
  <2>4. AbsOf(p[1] - visit[1]) < 2 /\ AbsOf(p[2] - visit[2]) < 2
    <3>1. /\ p = <<visit[1] + Around[i][1], visit[2] + Around[i][2]>>
          /\ Around[i][1] \in {-1, 0, 1} /\ Around[i][2] \in {-1, 0, 1}
      BY <2>1, <2>2, AtOnce
    <3> QED BY <2>3, <3>1 DEF AbsOf
  <2> QED BY <2>4 DEF Open, Blocked, Check_Inside, Fine_close_list, Neighbours
<1> HIDE DEF v, Takes, made, again
<1>8. v \in [Tiles -> Nodes]
  <2>1. \A p \in Tiles : v[p] \in Nodes
    BY <1>1, <1>3, <1>5, <1>6
  <2> QED BY <1>2, <2>1
<1>9. \A p \in fresh : p \in Neighbours(visit) \ {visit} /\ p \notin close_list
  BY DEF New, Listed
<1>10. \A p \in Tiles :
         \/ v[p] = nodes[p] /\ p \notin fresh
         \/ p \in Neighbours(visit) \ {visit} /\ p \notin close_list /\ v[p].parent = visit
  BY <1>1, <1>5, <1>6, <1>7, <1>9
<1> QED BY <1>8, <1>10 DEF v

\* The state in which a search starts satisfies the invariant.
LEMMA SearchInit ==
  ASSUME GridInit
  PROVE  SearchInv
<1>1. /\ start_point \in Tiles /\ end_point \in Tiles /\ start_point # end_point
      /\ obstacles \subseteq Tiles \ {start_point, end_point} /\ program \in {"A_star", "JPS"}
      /\ open_list = <<start_point>> /\ close_list = {} /\ result = "searching"
      /\ nodes = [p \in Tiles |-> Node(p, end_point, 0, None, <<0, 0>>)]
  BY GridAssumption DEF GridInit
<1>2. /\ open_list \in Seq(Tiles) /\ DOMAIN open_list = {1} /\ open_list[1] = start_point
  BY <1>1
<1>3. Range(open_list) = {start_point} /\ IsInjective(open_list)
  BY <1>2 DEF Range, IsInjective
<1>4. nodes \in [Tiles -> Nodes]
  <2>1. <<0, 0>> \in Dirs
    BY DEF Dirs
  <2>2. \A p \in Tiles : Node(p, end_point, 0, None, <<0, 0>>) \in Nodes
    <3>1. 0 \in Int /\ None \in Tiles \union {None}
      OBVIOUS
    <3> QED BY <1>1, <2>1, <3>1, NodeType, Zenon
  <2> QED BY <1>1, <2>2
<1>5. GridTypeOK
  BY <1>1, <1>2, <1>4 DEF GridTypeOK
<1>6. Listed = {start_point}
  BY <1>1, <1>3 DEF Listed
<1>7. ListsOK /\ ParentsOK /\ FrontierOK /\ EndedOK
  BY <1>1, <1>3, <1>6 DEF ListsOK, ParentsOK, FrontierOK, EndedOK
<1>8. AgesOK
  <2>1. [p \in Tiles |-> 0] \in [Tiles -> Nat]
    OBVIOUS
  <2> QED BY <1>1, <2>1, Zenon DEF AgesOK
<1>9. Listed \subseteq Reachable
  BY <1>1, <1>6, ReachableClosed
<1> QED BY <1>5, <1>7, <1>8, <1>9 DEF SearchInv

\* Of the first node of the open list.
LEMMA HeadFacts ==
  ASSUME SearchInv, open_list # <<>>
  PROVE  /\ Head(open_list) \in Range(open_list) /\ Head(open_list) \in Tiles \ obstacles
         /\ Head(open_list) \notin close_list /\ Head(open_list) \in Reachable
         /\ Neighbours(Head(open_list)) \subseteq Reachable
         /\ Tail(open_list) \in Seq(Tiles) /\ IsInjective(Tail(open_list))
         /\ Range(Tail(open_list)) = Range(open_list) \ {Head(open_list)}
<1>1. /\ open_list \in Seq(Tiles) /\ IsInjective(open_list) /\ start_point \in Tiles \ obstacles
      /\ Range(open_list) \intersect close_list = {} /\ Listed \subseteq Reachable
  BY DEF SearchInv, GridTypeOK, ListsOK
<1>2. /\ Head(open_list) \in Range(open_list)
      /\ Tail(open_list) \in Seq(Tiles) /\ IsInjective(Tail(open_list))
      /\ Range(Tail(open_list)) = Range(open_list) \ {Head(open_list)}
  BY <1>1, TailFacts
<1>3. Head(open_list) \in Reachable /\ Head(open_list) \notin close_list
  BY <1>1, <1>2 DEF Listed
<1> QED BY <1>1, <1>2, <1>3, ReachableClosed

\* A turn that leaves the lists as they are keeps the invariant.
LEMMA StopKeeps ==
  ASSUME SearchInv, UNCHANGED <<program, obstacles, start_point, end_point, open_list, close_list, nodes>>,
         result' \in {"searching", "true", "false", "undefined"}, EndedOK'
  PROVE  SearchInv'
<1>1. Reachable' = Reachable /\ Listed' = Listed /\ \A p : Neighbours(p)' = Neighbours(p)
  BY SameGrid DEF Listed
<1>2. GridTypeOK' /\ ListsOK'
  BY DEF SearchInv, GridTypeOK, ListsOK
<1>3. ParentsOK'
  BY <1>1, Zenon DEF SearchInv, ParentsOK, ClearLine, Blocked, Check_Inside
<1>4. AgesOK'
  BY DEF SearchInv, AgesOK
<1>5. FrontierOK' /\ (Listed \subseteq Reachable)'
  BY <1>1 DEF SearchInv, FrontierOK
<1> QED BY <1>2, <1>3, <1>4, <1>5 DEF SearchInv

\* A turn of A_star keeps the invariant.
LEMMA AStarKeeps ==
  ASSUME SearchInv, A_star
  PROVE  SearchInv'
<1>1. /\ GridTypeOK /\ ListsOK /\ ParentsOK /\ Listed \subseteq Reachable /\ FrontierOK
      /\ UNCHANGED <<program, obstacles, start_point, end_point>>
      /\ program = "A_star" /\ result = "searching"
  BY DEF SearchInv, A_star
<1>2. CASE /\ open_list = <<>> /\ result' = "undefined"
           /\ UNCHANGED <<open_list, close_list, nodes>>
  <2>1. EndedOK'
    BY <1>1, <1>2 DEF EndedOK
  <2> QED BY <1>1, <1>2, <2>1, StopKeeps
<1>3. CASE /\ open_list # <<>> /\ Arrives(Head(open_list)) /\ result' = "true"
           /\ UNCHANGED <<open_list, close_list, nodes>>
  <2>1. EndedOK'
    BY <1>1, <1>3, HeadFacts DEF EndedOK, Arrives, Listed
  <2> QED BY <1>1, <1>3, <2>1, StopKeeps
<1>4. CASE open_list # <<>> /\ ~Arrives(Head(open_list)) /\ UNCHANGED result
  <2> DEFINE visit == Head(open_list)
             fresh == Fresh(visit)
             list == Tail(open_list) \o fresh
  <2>1. /\ nodes' = Visited(visit, Range(fresh)) /\ close_list' = close_list \union {visit}
        /\ open_list' = Sorted(list, nodes') /\ visit # end_point
    BY <1>1, <1>4 DEF A_star, Arrives
  <2>2. /\ visit \in Range(open_list) /\ visit \in Tiles \ obstacles /\ visit \notin close_list
        /\ Neighbours(visit) \subseteq Reachable
        /\ Tail(open_list) \in Seq(Tiles) /\ IsInjective(Tail(open_list))
        /\ Range(Tail(open_list)) = Range(open_list) \ {visit}
    BY <1>4, HeadFacts
  <2> HIDE DEF visit
  <2>3. fresh \in Seq(Tiles) /\ IsInjective(fresh) /\ Range(fresh) = New(visit)
    BY <2>2, FreshFacts
  <2>4. /\ nodes' \in [Tiles -> Nodes]
        /\ \A p \in Tiles :
             \/ nodes'[p] = nodes[p] /\ p \notin New(visit)
             \/ p \in Neighbours(visit) \ {visit} /\ p \notin close_list /\ nodes'[p].parent = visit
    BY <1>1, <2>1, <2>2, <2>3, VisitedFacts
  <2> HIDE DEF fresh
  <2>5. New(visit) \intersect Listed = {} /\ New(visit) \subseteq Neighbours(visit)
        /\ Neighbours(visit) \subseteq New(visit) \union {visit} \union Listed
    BY DEF New
  <2>6. list \in Seq(Tiles) /\ IsInjective(list)
        /\ Range(list) = (Range(open_list) \ {visit}) \union New(visit)
    <3>1. Range(Tail(open_list)) \intersect Range(fresh) = {}
      BY <2>2, <2>3, <2>5 DEF Listed
    <3> DEFINE t == Tail(open_list)
    <3>2. t \in Seq(Tiles) /\ IsInjective(t) /\ fresh \in Seq(Tiles) /\ IsInjective(fresh)
      BY <2>2, <2>3
    <3>3. list = t \o fresh /\ Range(t) \intersect Range(fresh) = {}
      BY <3>1
    <3> HIDE DEF t, list
    <3>4. list \in Seq(Tiles) /\ IsInjective(list) /\ Range(list) = Range(t) \union Range(fresh)
      BY <3>2, <3>3, ConcatFacts
    <3> QED BY <2>2, <2>3, <3>4 DEF t
  <2> HIDE DEF list
  <2>7. open_list' \in Seq(Tiles) /\ IsInjective(open_list')
        /\ Range(open_list') = (Range(open_list) \ {visit}) \union New(visit)
    BY <2>1, <2>4, <2>6, SortedFacts
  <2>8. Range(open_list') \intersect close_list' = {} /\ Range(open_list') \subseteq Reachable
    BY <1>1, <2>1, <2>2, <2>5, <2>7 DEF ListsOK, Listed, New
  <2>9. \A p \in close_list' : nodes'[p] = nodes[p]
    BY <1>1, <2>1, <2>2, <2>4 DEF GridTypeOK
  <2>10. \A p \in Range(open_list') \ {start_point} :
           nodes'[p].parent \in close_list' /\ ClearLine(p, nodes'[p].parent)
    <3> TAKE p \in Range(open_list') \ {start_point}
    <3>1. p \in Tiles
      BY <2>7, RangeOfSeq DEF Range
    <3>2. CASE nodes'[p] = nodes[p] /\ p \notin New(visit)
      <4>1. p \in Listed
        BY <2>7, <3>2 DEF Listed
      <4>2. nodes[p].parent \in close_list /\ ClearLine(p, nodes[p].parent)
        BY <1>1, <4>1 DEF ParentsOK
      <4> QED BY <2>1, <3>2, <4>2
    <3>3. CASE p \in Neighbours(visit) \ {visit} /\ nodes'[p].parent = visit
      BY <2>1, <2>2, <3>3, NextTo
    <3> QED BY <2>4, <3>1, <3>2, <3>3
  <2>11. Visits(visit)
    BY <1>1, <2>1, <2>4, <2>7, <2>8, <2>9, <2>10 DEF Visits
  <2>12. /\ GridTypeOK' /\ ListsOK' /\ ParentsOK' /\ AgesOK' /\ (Listed \subseteq Reachable)'
         /\ Listed \subseteq Listed'
    BY <1>1, <1>4, <2>2, <2>11, VisitKeeps
  <2>13. FrontierOK'
    <3>1. \A p : Neighbours(p)' = Neighbours(p)
      BY <1>1, SameGrid
    <3>2. New(visit) \subseteq Listed' /\ visit \in Listed'
      BY <2>1, <2>7 DEF Listed
    <3>3. \A p \in close_list' : Neighbours(p) \subseteq Listed'
      BY <1>1, <2>1, <2>5, <2>12, <3>2 DEF FrontierOK
    <3>4. end_point \notin close_list'
      BY <1>1, <2>1 DEF FrontierOK
    <3> QED BY <1>1, <3>1, <3>3, <3>4 DEF FrontierOK
  <2>14. EndedOK'
    BY <1>1, <1>4 DEF EndedOK
  <2> QED BY <2>12, <2>13, <2>14 DEF SearchInv
<1> QED BY <1>2, <1>3, <1>4 DEF A_star

-----------------------------------------------------------------------------
(* JPS *)

\* The k-th tile along a direction, coordinate by coordinate.
LEMMA AtFacts ==
  ASSUME NEW p \in Tiles, NEW d \in Dirs \ {<<0, 0>>}, NEW k \in Nat
  PROVE  /\ At(p, d, k) = <<p[1] + k * d[1], p[2] + k * d[2]>>
         /\ p[1] \in Int /\ p[2] \in Int /\ k * d[1] \in Int /\ k * d[2] \in Int
         /\ d[1] = 1 => k * d[1] = k
         /\ d[1] = -1 => k * d[1] = -k
         /\ d[1] = 0 => k * d[1] = 0
         /\ d[2] = 1 => k * d[2] = k
         /\ d[2] = -1 => k * d[2] = -k
         /\ d[2] = 0 => k * d[2] = 0
         /\ d[1] \in {-1, 0, 1} /\ d[2] \in {-1, 0, 1} /\ d = <<d[1], d[2]>>
         /\ d[1] # 0 \/ d[2] # 0
<1>1. d[1] \in {-1, 0, 1} /\ d[2] \in {-1, 0, 1} /\ d = <<d[1], d[2]>> /\ (d[1] # 0 \/ d[2] # 0)
  BY DEF Dirs
<1>2. p[1] \in Int /\ p[2] \in Int
  BY TilesFinite
<1>3. /\ d[1] = 1 => k * d[1] = k
      /\ d[1] = -1 => k * d[1] = -k
      /\ d[1] = 0 => k * d[1] = 0
      /\ d[2] = 1 => k * d[2] = k
      /\ d[2] = -1 => k * d[2] = -k
      /\ d[2] = 0 => k * d[2] = 0
  OBVIOUS
<1>4. k * d[1] \in Int /\ k * d[2] \in Int
  BY <1>1, <1>3
<1> QED BY <1>1, <1>2, <1>3, <1>4 DEF At

\* What a walk comes to is another tile, that can be reached if its first can,
\* and the line back is clear.
LEMMA WalkFacts ==
  ASSUME start_point \in Tiles \ obstacles,
         NEW p \in Reachable, NEW d \in Dirs \ {<<0, 0>>}, NEW stops, Walk(d, p, stops) # None
  PROVE  /\ Walk(d, p, stops) \in Reachable /\ Walk(d, p, stops) # p
         /\ ClearLine(Walk(d, p, stops), p)
<1> DEFINE m == GRID_WIDTH + GRID_HEIGHT
           K == {i \in 1 .. m : Blocked(At(p, d, i)) \/ stops[At(p, d, i)]}
           k == Min(K)
           x(i) == At(p, d, i)
<1>1. p \in Tiles \ obstacles /\ p[1] \in 0 .. GRID_WIDTH - 1 /\ p[2] \in 0 .. GRID_HEIGHT - 1
      /\ m \in Nat \ {0} /\ GRID_WIDTH \in Nat \ {0} /\ GRID_HEIGHT \in Nat \ {0}
      /\ p = <<p[1], p[2]>>
  BY TilesFinite, ReachableClosed
<1>2. m \in K
  <2>1. x(m) = <<p[1] + m * d[1], p[2] + m * d[2]>>
    BY <1>1, AtFacts
  <2>2. p[1] + m * d[1] \notin 0 .. GRID_WIDTH - 1 \/ p[2] + m * d[2] \notin 0 .. GRID_HEIGHT - 1
    <3>1. CASE d[1] = 1
      <4>1. m * d[1] = m
        BY <1>1, <3>1, AtFacts
      <4> QED BY <1>1, <4>1
    <3>2. CASE d[1] = -1
      <4>1. m * d[1] = -m
        BY <1>1, <3>2, AtFacts
      <4> QED BY <1>1, <4>1
    <3>3. CASE d[1] = 0 /\ d[2] = 1
      <4>1. m * d[2] = m
        BY <1>1, <3>3, AtFacts
      <4> QED BY <1>1, <4>1
    <3>4. CASE d[1] = 0 /\ d[2] = -1
      <4>1. m * d[2] = -m
        BY <1>1, <3>4, AtFacts
      <4> QED BY <1>1, <4>1
    <3> QED BY <3>1, <3>2, <3>3, <3>4, <1>1, AtFacts
  <2> HIDE DEF x, m
  <2>3. x(m) \notin Tiles
    BY <2>1, <2>2 DEF Tiles
  <2>4. m \in 1 .. m
    BY <1>1
  <2> QED BY <2>3, <2>4 DEF Blocked, Check_Inside, x
<1>3. k \in K /\ \A j \in K : k <= j
  <2>1. K \subseteq Nat
    OBVIOUS
  <2> HIDE DEF K
  <2>2. \E i \in K : \A j \in K : i <= j
    BY <1>2, <2>1, LeastOf, Zenon
  <2> QED BY <2>2 DEF Min
<1>4. k \in 1 .. m
  BY <1>3
<1>5. Walk(d, p, stops) = x(k) /\ ~Blocked(x(k))
  BY DEF Walk
<1>6. x(0) = p
  <2>1. 0 \in Nat
    OBVIOUS
  <2>2. x(0) = <<p[1] + 0 * d[1], p[2] + 0 * d[2]>> /\ 0 * d[1] = 0 /\ 0 * d[2] = 0
    BY <1>1, <2>1, AtFacts
  <2> HIDE DEF x
  <2> QED BY <1>1, <2>2
<1>7. \A i \in 0 .. k : ~Blocked(x(i))
  <2> TAKE i \in 0 .. k
  <2>1. CASE i = 0
    BY <1>1, <1>6, <2>1 DEF Blocked, Check_Inside
  <2>2. CASE i = k
    BY <1>5, <2>2
  <2>3. CASE i # 0 /\ i # k
    <3>1. i \in 1 .. m /\ ~(k <= i)
      <4> HIDE DEF k, K, m, x
      <4> QED BY <1>1, <1>4, <2>3
    <3> QED BY <1>3, <3>1
  <2> QED BY <2>1, <2>2, <2>3
<1> HIDE DEF k, K, m
<1>8. \A i \in 0 .. k : i \in Nat
  OBVIOUS
<1>9. x(k) # p
  <2>1. /\ x(k) = <<p[1] + k * d[1], p[2] + k * d[2]>>
        /\ k \in Nat /\ k # 0
    BY <1>1, <1>4, AtFacts
  <2> HIDE DEF x
  <2>2. k * d[1] # 0 \/ k * d[2] # 0
    <3>1. (d[1] = 1 \/ d[1] = -1) => k * d[1] # 0
      BY <1>1, <2>1, AtFacts
    <3>2. (d[2] = 1 \/ d[2] = -1) => k * d[2] # 0
      BY <1>1, <2>1, AtFacts
    <3> QED BY <1>1, <2>1, <3>1, <3>2, AtFacts
  <2>3. k * d[1] \in Int /\ k * d[2] \in Int
    BY <1>1, <2>1, AtFacts
  <2> QED BY <1>1, <2>1, <2>2, <2>3
<1>10. ClearLine(x(k), p)
  <2> DEFINE e == <<-d[1], -d[2]>>
             q == x(k)
  <2>1. e \in Dirs \ {<<0, 0>>} /\ q \in Tiles /\ k \in Nat
    <3>1. d[1] \in {-1, 0, 1} /\ d[2] \in {-1, 0, 1} /\ (d[1] # 0 \/ d[2] # 0)
      BY <1>1, <1>4, AtFacts
    <3>2. -d[1] \in {-1, 0, 1} /\ -d[2] \in {-1, 0, 1} /\ (-d[1] # 0 \/ -d[2] # 0)
      BY <3>1
    <3>3. e \in Dirs
      BY <3>2 DEF Dirs
    <3>4. e # <<0, 0>>
      BY <3>2
    <3> QED BY <1>4, <1>5, <3>3, <3>4 DEF Blocked, Check_Inside
  <2>2. \A i \in 0 .. k : At(q, e, i) = x(k - i) /\ k - i \in 0 .. k
    <3> TAKE i \in 0 .. k
    <3>1. i \in Nat /\ k - i \in Nat /\ k - i \in 0 .. k /\ e[1] = -d[1] /\ e[2] = -d[2]
      BY <1>4
    <3>2. /\ At(q, e, i) = <<q[1] + i * e[1], q[2] + i * e[2]>>
          /\ x(k - i) = <<p[1] + (k - i) * d[1], p[2] + (k - i) * d[2]>>
          /\ q = <<p[1] + k * d[1], p[2] + k * d[2]>>
      BY <1>1, <2>1, <3>1, AtFacts
    <3>3. q[1] = p[1] + k * d[1] /\ q[2] = p[2] + k * d[2]
      BY <3>2
    <3>4. /\ p[1] + k * d[1] + i * e[1] = p[1] + (k - i) * d[1]
          /\ p[2] + k * d[2] + i * e[2] = p[2] + (k - i) * d[2]
      <4>1. d[1] \in {-1, 0, 1} /\ d[2] \in {-1, 0, 1} /\ p[1] \in Int /\ p[2] \in Int
        BY <1>1, <2>1, AtFacts
      <4>2. k \in Int /\ i \in Int
        BY <3>1, <2>1
      <4>3. \A a \in {-1, 0, 1}, z \in Int : z + k * a + i * (-a) = z + (k - i) * a
        BY <4>2
      <4> QED BY <3>1, <4>1, <4>3
    <3> HIDE DEF q, e, x
    <3> QED BY <3>1, <3>2, <3>3, <3>4
  <2>3. At(q, e, k) = p /\ \A i \in 0 .. k : ~Blocked(At(q, e, i))
    <3>1. k \in 0 .. k /\ k - k = 0
      BY <2>1
    <3>2. At(q, e, k) = x(0)
      BY <2>2, <3>1
    <3> HIDE DEF q, e, x
    <3> QED BY <1>6, <1>7, <2>2, <3>2
  <2>4. k \in 1 .. GRID_WIDTH + GRID_HEIGHT /\ e \in ({-1, 0, 1} \X {-1, 0, 1}) \ {<<0, 0>>}
    BY <1>4, <2>1 DEF Dirs, m
  <2> HIDE DEF q, e, x
  <2>5. ClearLine(q, p)
    BY <2>3, <2>4 DEF ClearLine
  <2> QED BY <2>5 DEF q
<1>11. x(k) \in Reachable
  <2> DEFINE P == {i \in 0 .. k : x(i) \in Reachable}
  <2>1. k \in Nat /\ 0 \in P
    BY <1>4, <1>6
  <2>2. ASSUME NEW c \in 1 .. k, c - 1 \in P PROVE c \in P
    <3>1. c \in Nat /\ c - 1 \in Nat /\ c \in 0 .. k
      BY <2>1
    <3>2. x(c - 1) \in Reachable /\ x(c) \in Tiles \ obstacles
      BY <1>7, <2>2, <3>1 DEF Blocked, Check_Inside
    <3>3. /\ x(c) = <<p[1] + c * d[1], p[2] + c * d[2]>>
          /\ x(c - 1) = <<p[1] + (c - 1) * d[1], p[2] + (c - 1) * d[2]>>
          /\ p[1] \in Int /\ p[2] \in Int /\ d[1] \in {-1, 0, 1} /\ d[2] \in {-1, 0, 1}
      BY <1>1, <3>1, AtFacts
    <3>4. \A a \in {-1, 0, 1}, z \in Int : AbsOf((z + c * a) - (z + (c - 1) * a)) < 2
      BY <3>1 DEF AbsOf
    <3>5. x(c) \in Neighbours(x(c - 1))
      <4> HIDE DEF x
      <4>1. AbsOf(x(c)[1] - x(c - 1)[1]) < 2 /\ AbsOf(x(c)[2] - x(c - 1)[2]) < 2
        BY <3>3, <3>4
      <4> QED BY <3>2, <4>1 DEF Neighbours
    <3> QED BY <3>1, <3>2, <3>5, ReachableClosed
  <2> HIDE DEF P
  <2>3. \A c \in 0 .. k : c \in P
    BY <2>1, <2>2, Steps
  <2> QED BY <2>1, <2>3 DEF P
<1> QED BY <1>5, <1>9, <1>10, <1>11

\* The direction functions of the code give one of the eight directions.
LEMMA DirectionsFacts ==
  ASSUME NEW d \in Dirs, NEW p
  PROVE  Directions(d, p) \in Seq(Dirs \ {<<0, 0>>})
<1> DEFINE D == Dirs \ {<<0, 0>>}
<1>1. CASE d = DIR_ALL
  <2>1. Eight \in Seq(D)
    BY DEF Eight, Dirs
  <2> QED BY <1>1, <2>1 DEF Directions
<1>2. CASE d # DIR_ALL
  <2>1. d[1] \in {-1, 0, 1} /\ d[2] \in {-1, 0, 1} /\ d = <<d[1], d[2]>> /\ (d[1] # 0 \/ d[2] # 0)
    BY <1>2 DEF Dirs, DIR_ALL
  <2>2. \A a, b \in {-1, 0, 1} : a # 0 \/ b # 0 => <<a, b>> \in D
    BY DEF Dirs
  <2>3. d \in D
    BY <2>1, <2>2
  <2>4. IsDiagonal(d) => Vertical(d) \in D /\ Horizontal(d) \in D
    BY <2>1, <2>2 DEF IsDiagonal, Vertical, Horizontal
  <2>5. Forced(d, Left(d)) \in D /\ Forced(d, Right(d)) \in D
    <3>1. CASE IsDiagonal(d)
      <4>1. -d[1] \in {-1, 0, 1} /\ -d[2] \in {-1, 0, 1} /\ -d[1] # 0 /\ -d[2] # 0
        BY <2>1, <3>1 DEF IsDiagonal
      <4> QED BY <2>1, <2>2, <3>1, <4>1 DEF Forced, Left, Right, IsDiagonal
    <3>2. CASE ~IsDiagonal(d)
      <4>1. /\ At(Left(d), d, 1) = <<d[2] + d[1], -d[1] + d[2]>>
            /\ At(Right(d), d, 1) = <<-d[2] + d[1], d[1] + d[2]>>
        BY <2>1 DEF At, Left, Right
      <4>2. /\ d[2] + d[1] \in {-1, 0, 1} /\ -d[1] + d[2] \in {-1, 0, 1} /\ d[2] + d[1] # 0
            /\ -d[2] + d[1] \in {-1, 0, 1} /\ d[1] + d[2] \in {-1, 0, 1} /\ d[1] + d[2] # 0
        BY <2>1, <3>2 DEF IsDiagonal
      <4> QED BY <2>2, <3>2, <4>1, <4>2 DEF Forced
    <3> QED BY <3>1, <3>2
  <2> HIDE DEF D
  <2>6. <<>> \in Seq(D) /\ \A e \in D : <<e>> \in Seq(D)
    BY EmptySeq
  <2>7. /\ If(IsDiagonal(d), Vertical(d)) \in Seq(D) /\ If(IsDiagonal(d), Horizontal(d)) \in Seq(D)
        /\ If(IsCurve(d, Left(d), p), Forced(d, Left(d))) \in Seq(D)
        /\ If(IsCurve(d, Right(d), p), Forced(d, Right(d))) \in Seq(D)
    BY <2>4, <2>5, <2>6, Zenon DEF If
  <2>8. <<d>> \in Seq(D)
    BY <2>3, <2>6
  <2>9. \A q, r \in Seq(D) : q \o r \in Seq(D)
    BY ConcatProperties
  <2>10. Directions(d, p) \in Seq(D)
    BY <1>2, <2>7, <2>8, <2>9, Zenon DEF Directions
  <2> QED BY <2>10 DEF D
<1> QED BY <1>1, <1>2

\* The open list and the nodes while visit is searched around.
GoodLists(visit) ==
  {s \in [open : Seq(Tiles), nodes : [Tiles -> Nodes]] :
     /\ IsInjective(s.open)
     /\ Range(open_list) \ {visit} \subseteq Range(s.open)
     /\ Range(s.open) \intersect (close_list \union {visit}) = {} /\ Range(s.open) \subseteq Reachable
     /\ \A p \in close_list \union {visit} : s.nodes[p] = nodes[p]
     /\ \A p \in Range(s.open) \ {start_point} :
          s.nodes[p].parent \in close_list \union {visit} /\ ClearLine(p, s.nodes[p].parent)}

\* PushBack_OpenList with a tile in sight keeps the lists good.
LEMMA PushBackKeeps ==
  ASSUME GridTypeOK, NEW visit \in Tiles, NEW s \in GoodLists(visit), NEW d \in Dirs,
         NEW p \in Reachable, p # visit, ClearLine(p, visit)
  PROVE  PushBack_OpenList(s, visit, p, d) \in GoodLists(visit)
<1> DEFINE S == [open : Seq(Tiles), nodes : [Tiles -> Nodes]]
           g == s.nodes[visit].g + IF IsDiagonal(d)
                                     THEN 3 * (Get_Distance(visit, p) \div 2)
                                     ELSE 2 * Get_Distance(visit, p)
           node == Node(p, end_point, g, visit, d)
           set == [s.nodes EXCEPT ![p] = node]
           r == PushBack_OpenList(s, visit, p, d)
           Built(ns) == ns \in [Tiles -> Nodes] /\ ns[p] = node /\ \A q \in Tiles \ {p} : ns[q] = s.nodes[q]
<1>1. p \in Tiles \ obstacles
  BY ReachableClosed DEF GridTypeOK
<1>2. /\ s.open \in Seq(Tiles) /\ s.nodes \in [Tiles -> Nodes] /\ IsInjective(s.open)
      /\ s = [open |-> s.open, nodes |-> s.nodes]
      /\ Range(open_list) \ {visit} \subseteq Range(s.open)
      /\ Range(s.open) \intersect (close_list \union {visit}) = {} /\ Range(s.open) \subseteq Reachable
      /\ \A q \in close_list \union {visit} : s.nodes[q] = nodes[q]
      /\ \A q \in Range(s.open) \ {start_point} :
           s.nodes[q].parent \in close_list \union {visit} /\ ClearLine(q, s.nodes[q].parent)
  BY DEF GoodLists
<1>3. g \in Int
  <2>1. s.nodes[visit] \in Nodes
    BY <1>2
  <2>2. s.nodes[visit].g \in Int
    BY <2>1 DEF Nodes
  <2>3. Get_Distance(visit, p) \in Int
    BY <1>1, TilesFinite DEF Get_Distance, AbsOf
  <2> QED BY <2>2, <2>3
<1> HIDE DEF g
<1>4. node \in Nodes /\ node.parent = visit
  BY <1>1, <1>3, NodeType DEF GridTypeOK
<1> HIDE DEF node
<1>5. Built(set)
  BY <1>1, <1>2, <1>4
<1>6. CASE p \in close_list
  BY <1>6 DEF PushBack_OpenList, Fine_close_list
<1>7. CASE p \notin close_list
  <2>1. \/ p \notin Range(s.open) /\ r = [open |-> Append(s.open, p), nodes |-> set]
        \/ p \in Range(s.open) /\ r = [open |-> s.open, nodes |-> set]
        \/ p \in Range(s.open) /\ r = s
    <3>1. \/ p \notin Range(s.open) /\ r = [open |-> Append(s.open, p), nodes |-> set]
          \/ p \in Range(s.open) /\ r = [s EXCEPT !.nodes = set]
          \/ p \in Range(s.open) /\ r = s
      BY <1>7 DEF PushBack_OpenList, Fine_close_list, g, node
    <3> HIDE DEF r, set
    <3>2. [s EXCEPT !.nodes = set] = [open |-> s.open, nodes |-> set]
      BY <1>2
    <3> QED BY <3>1, <3>2
  <2> SUFFICES r \in GoodLists(visit)
    OBVIOUS
  <2> HIDE DEF r, set
  <2>2. ASSUME NEW open, NEW ns, r = [open |-> open, nodes |-> ns], Built(ns),
               open \in Seq(Tiles), IsInjective(open), Range(open) = Range(s.open) \union {p}
        PROVE  r \in GoodLists(visit)
    <3>1. r \in S /\ r.open = open /\ r.nodes = ns
      BY <2>2
    <3>2. /\ Range(open_list) \ {visit} \subseteq Range(open)
          /\ Range(open) \intersect (close_list \union {visit}) = {} /\ Range(open) \subseteq Reachable
      BY <1>2, <1>7, <2>2
    <3>3. \A q \in close_list \union {visit} : ns[q] = nodes[q]
      BY <1>2, <1>7, <2>2 DEF GridTypeOK
    <3>4. \A q \in Range(open) \ {start_point} :
            ns[q].parent \in close_list \union {visit} /\ ClearLine(q, ns[q].parent)
      <4> TAKE q \in Range(open) \ {start_point}
      <4>1. CASE q = p
        BY <1>4, <2>2, <4>1
      <4>2. CASE q # p
        <5>1. q \in Tiles
          BY <2>2, RangeOfSeq DEF Range
        <5>2. ns[q] = s.nodes[q] /\ q \in Range(s.open)
          BY <2>2, <4>2, <5>1
        <5> QED BY <1>2, <5>2
      <4> QED BY <4>1, <4>2
    <3> QED BY <2>2, <3>1, <3>2, <3>3, <3>4 DEF GoodLists
  <2>3. CASE p \notin Range(s.open) /\ r = [open |-> Append(s.open, p), nodes |-> set]
    <3>1. /\ Append(s.open, p) \in Seq(Tiles) /\ IsInjective(Append(s.open, p))
          /\ Range(Append(s.open, p)) = Range(s.open) \union {p}
      BY <1>1, <1>2, <2>3, AppendFacts
    <3> HIDE DEF Built
    <3> QED BY <1>5, <2>2, <2>3, <3>1, Zenon
  <2>4. CASE p \in Range(s.open) /\ r = [open |-> s.open, nodes |-> set]
    <3>1. Range(s.open) = Range(s.open) \union {p}
      BY <2>4
    <3> HIDE DEF Built
    <3> QED BY <1>2, <1>5, <2>2, <2>4, <3>1
  <2>5. CASE r = s
    BY <2>5
  <2> QED BY <2>1, <2>3, <2>4, <2>5
<1> QED BY <1>6, <1>7

\* The jump in one direction keeps what the turn has listed so far good.
LEMMA SearchedKeeps ==
  ASSUME GridTypeOK, NEW visit \in Reachable, NEW s \in GoodLists(visit), NEW d \in Dirs \ {<<0, 0>>}
  PROVE  Searched(s, visit, d) \in GoodLists(visit)
<1> DEFINE p == Search_Curve(d, visit)
<1>1. start_point \in Tiles \ obstacles /\ visit \in Tiles
  BY ReachableClosed DEF GridTypeOK
<1>2. CASE p = None
  BY <1>2 DEF Searched
<1>3. CASE p # None
  <2>1. PICK stops : p = Walk(d, visit, stops)
    BY Zenon DEF Search_Curve, SearchStraight
  <2> HIDE DEF p
  <2>2. p \in Reachable /\ p # visit /\ ClearLine(p, visit)
    BY <1>1, <1>3, <2>1, WalkFacts
  <2>3. PushBack_OpenList(s, visit, p, d) \in GoodLists(visit)
    BY <1>1, <2>2, PushBackKeeps
  <2> QED BY <1>3, <2>3 DEF Searched, p
<1> QED BY <1>2, <1>3

ProcStep(visit, dirs, f, n) ==
  IF n = 0 THEN [open |-> Tail(open_list), nodes |-> nodes]
  ELSE Searched(f[n - 1], visit, dirs[n])

Proc(visit, dirs) == CHOOSE f : f = [n \in 0 .. Len(dirs) |-> ProcStep(visit, dirs, f, n)]

\* OpenList_PushBack_Proc, the jumps in one direction after the other,
\* unfolded.
LEMMA ProcWalks ==
  ASSUME NEW visit, NEW dirs, dirs = Directions(nodes[visit].dir, visit)
  PROVE  OpenList_PushBack_Proc(visit) = Proc(visit, dirs)[Len(dirs)]
BY DEF OpenList_PushBack_Proc, Proc, ProcStep

\* All the jumps of one turn keep what each of them keeps.
LEMMA ProcFacts ==
  ASSUME SearchInv, open_list # <<>>, NEW visit, visit = Head(open_list)
  PROVE  /\ [open |-> Tail(open_list), nodes |-> nodes] \in GoodLists(visit)
         /\ OpenList_PushBack_Proc(visit) \in GoodLists(visit)
<1> DEFINE dirs == Directions(nodes[visit].dir, visit)
           m == Len(dirs)
           D == Dirs \ {<<0, 0>>}
           S == GoodLists(visit)
           s0 == [open |-> Tail(open_list), nodes |-> nodes]
           F == [n \in 1 .. m |-> [s \in S |-> Searched(s, visit, dirs[n])]]
<1>1. GridTypeOK /\ ListsOK /\ ParentsOK /\ Listed \subseteq Reachable
  BY DEF SearchInv
<1>2. /\ visit \in Range(open_list) /\ visit \in Tiles /\ visit \notin close_list /\ visit \in Reachable
      /\ Tail(open_list) \in Seq(Tiles) /\ IsInjective(Tail(open_list))
      /\ Range(Tail(open_list)) = Range(open_list) \ {visit}
  BY HeadFacts
<1>3. s0 \in S
  <2>1. s0 \in [open : Seq(Tiles), nodes : [Tiles -> Nodes]] /\ s0.open = Tail(open_list) /\ s0.nodes = nodes
    BY <1>1, <1>2 DEF GridTypeOK
  <2> HIDE DEF s0
  <2>2. Range(s0.open) \intersect (close_list \union {visit}) = {} /\ Range(s0.open) \subseteq Reachable
    BY <1>1, <1>2, <2>1 DEF ListsOK, Listed
  <2>3. \A p \in Range(s0.open) \ {start_point} :
          s0.nodes[p].parent \in close_list \union {visit} /\ ClearLine(p, s0.nodes[p].parent)
    BY <1>1, <1>2, <2>1 DEF ParentsOK, Listed
  <2> QED BY <1>2, <2>1, <2>2, <2>3, Zenon DEF GoodLists
<1>4. dirs \in Seq(D) /\ m \in Nat /\ \A n \in 1 .. m : dirs[n] \in D
  <2>1. nodes[visit] \in Nodes
    BY <1>1, <1>2 DEF GridTypeOK
  <2>2. nodes[visit].dir \in Dirs
    BY <2>1 DEF Nodes
  <2>3. dirs \in Seq(D)
    BY <2>2, DirectionsFacts
  <2> HIDE DEF dirs, D
  <2> QED BY <2>3, LenProperties, ElementOfSeq
<1> HIDE DEF dirs, m, S, s0
<1>5. \A n \in 1 .. m, s \in S : Searched(s, visit, dirs[n]) \in S
  BY <1>1, <1>2, <1>4, SearchedKeeps DEF S
<1>6. F \in [1 .. m -> [S -> S]]
  BY <1>5
<1>7. PICK f \in [0 .. m -> S] : f[0] = s0 /\ \A c \in 1 .. m : f[c] = F[c][f[c - 1]]
  <2> HIDE DEF F
  <2>1. Runs(S, m, F, s0)
    BY <1>3, <1>4, <1>6, LoopRuns
  <2> QED BY <2>1, Zenon DEF Runs
<1>8. \A c \in 0 .. m : f[c] = ProcStep(visit, dirs, f, c)
  <2> TAKE c \in 0 .. m
  <2>1. CASE c = 0
    BY <1>7, <2>1 DEF ProcStep, s0
  <2>2. CASE c # 0
    <3>1. c \in 1 .. m /\ c - 1 \in 0 .. m
      BY <1>4, <2>2
    <3>2. f[c - 1] \in S
      BY <3>1
    <3> QED BY <1>7, <2>2, <3>1, <3>2, Zenon DEF ProcStep
  <2> QED BY <2>1, <2>2
<1> HIDE DEF F
<1>9. f = [c \in 0 .. Len(dirs) |-> ProcStep(visit, dirs, f, c)]
  BY <1>8 DEF m
<1> DEFINE h == Proc(visit, dirs)
<1>10. h = [c \in 0 .. Len(dirs) |-> ProcStep(visit, dirs, h, c)]
  BY <1>9, Zenon DEF Proc
<1> HIDE DEF h
<1>11. \A c \in 0 .. m : h[c] = ProcStep(visit, dirs, h, c)
  BY <1>10, Zenon DEF m
<1> DEFINE P == {c \in 0 .. m : h[c] \in S}
<1>12. 0 \in P
  <2>1. 0 \in 0 .. m
    BY <1>4
  <2> QED BY <1>3, <1>11, <2>1, Zenon DEF ProcStep, s0
<1>13. ASSUME NEW c \in 1 .. m, c - 1 \in P PROVE c \in P
  <2>1. c \in 0 .. m /\ c # 0 /\ h[c - 1] \in S
    BY <1>4, <1>13
  <2> QED BY <1>5, <1>11, <2>1 DEF ProcStep
<1>14. h[m] \in S
  <2> HIDE DEF P
  <2>1. \A c \in 0 .. m : c \in P
    BY <1>4, <1>12, <1>13, Steps, Zenon
  <2> QED BY <1>4, <2>1 DEF P
<1>15. OpenList_PushBack_Proc(visit) = h[m]
  BY ProcWalks DEF h, m, dirs
<1> QED BY <1>3, <1>14, <1>15 DEF S, s0

\* A turn of JPS keeps the invariant.
LEMMA JPSKeeps ==
  ASSUME SearchInv, JPS
  PROVE  SearchInv'
<1>1. /\ GridTypeOK /\ ListsOK /\ ParentsOK /\ Listed \subseteq Reachable
      /\ UNCHANGED <<program, obstacles, start_point, end_point>>
      /\ program = "JPS" /\ result = "searching"
  BY DEF SearchInv, JPS
<1>2. CASE open_list = <<>>
  <2>1. result' = "false" /\ UNCHANGED <<open_list, close_list, nodes>>
    BY <1>2 DEF JPS
  <2>2. EndedOK'
    BY <1>1, <2>1 DEF EndedOK
  <2> QED BY <1>1, <2>1, <2>2, StopKeeps
<1>3. CASE open_list # <<>>
  <2> DEFINE visit == Head(open_list)
             s == IF Arrives(visit) THEN [open |-> Tail(open_list), nodes |-> nodes]
                  ELSE OpenList_PushBack_Proc(visit)
  <2>1. /\ close_list' = close_list \union {visit} /\ nodes' = s.nodes
        /\ open_list' = IF Arrives(visit) THEN s.open ELSE Sorted(s.open, s.nodes)
        /\ result' = IF Arrives(visit) THEN "true" ELSE "searching"
    <3>1. CASE Arrives(visit)
      BY <1>1, <1>3, <3>1 DEF JPS
    <3>2. CASE ~Arrives(visit)
      BY <1>1, <1>3, <3>2 DEF JPS
    <3> QED BY <3>1, <3>2
  <2>2. visit \in Range(open_list) /\ s \in GoodLists(visit)
    BY <1>3, HeadFacts, ProcFacts, Zenon
  <2> HIDE DEF s, visit
  <2>3. /\ s.open \in Seq(Tiles) /\ s.nodes \in [Tiles -> Nodes] /\ IsInjective(s.open)
        /\ Range(open_list) \ {visit} \subseteq Range(s.open)
        /\ Range(s.open) \intersect (close_list \union {visit}) = {} /\ Range(s.open) \subseteq Reachable
        /\ \A p \in close_list \union {visit} : s.nodes[p] = nodes[p]
        /\ \A p \in Range(s.open) \ {start_point} :
             s.nodes[p].parent \in close_list \union {visit} /\ ClearLine(p, s.nodes[p].parent)
    BY <2>2 DEF GoodLists
  <2>4. open_list' \in Seq(Tiles) /\ IsInjective(open_list') /\ Range(open_list') = Range(s.open)
    BY <2>1, <2>3, SortedFacts
  <2>5. Visits(visit)
    BY <1>1, <2>1, <2>3, <2>4 DEF Visits
  <2>6. /\ GridTypeOK' /\ ListsOK' /\ ParentsOK' /\ AgesOK' /\ (Listed \subseteq Reachable)'
        /\ Listed \subseteq Listed'
    BY <2>1, <2>2, <2>5, VisitKeeps
  <2>7. FrontierOK'
    BY <1>1 DEF FrontierOK
  <2>8. EndedOK'
    BY <1>1, <2>1 DEF EndedOK, Arrives, Listed
  <2> QED BY <2>6, <2>7, <2>8 DEF SearchInv
<1> QED BY <1>2, <1>3

-----------------------------------------------------------------------------
(* The invariant holds, and what follows *)

\* A step that changes nothing keeps the invariant.
LEMMA SearchStutters ==
  ASSUME SearchInv, UNCHANGED gridVars
  PROVE  SearchInv'
<1>1. UNCHANGED <<program, obstacles, start_point, end_point, open_list, close_list, nodes, result>>
  BY DEF gridVars
<1>2. result' \in {"searching", "true", "false", "undefined"}
  BY <1>1 DEF SearchInv, GridTypeOK
<1>3. EndedOK'
  BY <1>1 DEF SearchInv, EndedOK, Listed
<1> QED BY <1>1, <1>2, <1>3, StopKeeps

\* In A_star (main.cpp:233-299) and in JPS (JPS.cpp:968-1021), on a map of any
\* size with any obstacles: no tile is in two lists or twice in one, the
\* parent of whatever a list holds is closed, older, and in sight along a
\* clear line, and only tiles that can be reached are listed.
THEOREM SearchInvariance == SearchSpec => []SearchInv
<1>1. GridInit => SearchInv
  BY SearchInit
<1>2. SearchInv /\ [SearchNext]_gridVars => SearchInv'
  BY AStarKeeps, JPSKeeps, SearchStutters DEF SearchNext
<1> QED BY <1>1, <1>2, PTL DEF SearchSpec

WayStep(g, k) ==
  IF k = 0 THEN end_point
  ELSE IF g[k - 1] \in {start_point, None} THEN g[k - 1] ELSE nodes[g[k - 1]].parent

\* Way takes one parent after the other.
LEMMA WaySteps ==
  ASSUME GridTypeOK
  PROVE  \A k \in 0 .. Cardinality(Tiles) : Way[k] = WayStep(Way, k)
<1> DEFINE n == Cardinality(Tiles)
           S == Tiles \union {None}
           next == [p \in Tiles \union {None} |->
                      IF p \in {start_point, None} THEN p ELSE nodes[p].parent]
           OneOn(g, k) == IF k = 0 THEN end_point ELSE next[g[k - 1]]
           F == [c \in 1 .. n |-> next]
<1>1. n \in Nat /\ end_point \in S
  BY TilesFinite DEF GridTypeOK
<1>2. next \in [S -> S]
  <2>1. \A t \in Tiles : nodes[t].parent \in S
    <3> TAKE t \in Tiles
    <3>1. nodes[t] \in Nodes
      BY DEF GridTypeOK
    <3> QED BY <3>1 DEF Nodes
  <2> QED BY <2>1
<1>3. F \in [1 .. n -> [S -> S]]
  <2> HIDE DEF next
  <2> QED BY <1>2
<1>4. Way = CHOOSE g : g = [k \in 0 .. n |-> OneOn(g, k)]
  BY DEF Way
<1>5. \A t \in S : next[t] = IF t \in {start_point, None} THEN t ELSE nodes[t].parent
  OBVIOUS
<1> HIDE DEF n, next
<1>6. PICK f \in [0 .. n -> S] : f[0] = end_point /\ \A c \in 1 .. n : f[c] = F[c][f[c - 1]]
  <2> HIDE DEF F, S
  <2>1. Runs(S, n, F, end_point)
    BY <1>1, <1>3, LoopRuns
  <2> QED BY <2>1, Zenon DEF Runs
<1>7. \A c \in 0 .. n : f[c] = OneOn(f, c)
  <2> TAKE c \in 0 .. n
  <2>1. CASE c = 0
    BY <1>6, <2>1
  <2>2. CASE c # 0
    <3>1. c \in 1 .. n
      BY <1>1, <2>2
    <3> QED BY <1>6, <2>2, <3>1
  <2> QED BY <2>1, <2>2
<1>8. f = [c \in 0 .. n |-> OneOn(f, c)]
  <2> HIDE DEF OneOn
  <2> QED BY <1>7
<1>9. Way = [c \in 0 .. n |-> OneOn(Way, c)]
  <2> HIDE DEF OneOn
  <2> QED BY <1>4, <1>8, Zenon
<1> DEFINE P == {c \in 0 .. n : Way[c] \in S /\ Way[c] = WayStep(Way, c)}
<1>10. \A c \in 0 .. n : Way[c] = OneOn(Way, c)
  <2> HIDE DEF OneOn
  <2> QED BY <1>9, Zenon
<1>11. 0 \in P
  BY <1>1, <1>10 DEF WayStep
<1>12. ASSUME NEW c \in 1 .. n, c - 1 \in P PROVE c \in P
  <2>1. c \in 0 .. n /\ c # 0 /\ Way[c - 1] \in S
    BY <1>1, <1>12
  <2>2. Way[c] = next[Way[c - 1]]
    BY <1>10, <2>1
  <2>3. Way[c] \in S
    <3> HIDE DEF S
    <3> QED BY <1>2, <2>1, <2>2
  <2> HIDE DEF S
  <2> QED BY <1>5, <2>1, <2>2, <2>3 DEF WayStep
<1>13. \A c \in 0 .. n : c \in P
  <2> HIDE DEF P
  <2>1. \A c \in 1 .. n : c - 1 \in P => c \in P
    BY <1>12
  <2> QED BY <1>1, <1>11, <2>1, Steps, Zenon
<1> QED BY <1>13 DEF n

\* The ages fall along the way, so it comes to the start.
LEMMA WayFollows ==
  ASSUME SearchInv
  PROVE  WayFound
<1> SUFFICES ASSUME result = "true" PROVE WayFound
  BY DEF WayFound
<1> DEFINE n == Cardinality(Tiles)
           c == Cardinality(close_list)
<1>1. GridTypeOK /\ ParentsOK /\ end_point \in Listed /\ end_point # start_point /\ close_list \subseteq Listed
  BY DEF SearchInv, EndedOK, GridTypeOK, Listed
<1>2. n \in Nat \ {0} /\ c \in Nat /\ c <= n
  <2>1. IsFiniteSet(Tiles) /\ Tiles # {} /\ close_list \in SUBSET Tiles
    BY <1>1, TilesFinite, Zenon DEF GridTypeOK
  <2>2. Cardinality(Tiles) \in Nat /\ Cardinality(Tiles) # 0
    BY <2>1, FS_CardinalityType, FS_EmptySet
  <2>3. IsFiniteSet(close_list) /\ Cardinality(close_list) <= Cardinality(Tiles)
    BY <2>1, FS_Subset
  <2> QED BY <2>2, <2>3, FS_CardinalityType
<1> HIDE DEF n, c
<1>3. PICK age \in [Tiles -> Nat] :
        \A p \in close_list : age[p] < c /\ (p # start_point => age[nodes[p].parent] < age[p])
  BY DEF SearchInv, AgesOK, c
<1>4. \A k \in 0 .. n : Way[k] = WayStep(Way, k)
  BY <1>1, WaySteps DEF n
<1>5. \A p \in close_list : p \in Tiles /\ age[p] \in Nat
  BY <1>1 DEF GridTypeOK
<1> DEFINE On(k) == \/ Way[k] = start_point
                    \/ k = 0 /\ Way[k] = end_point
                    \/ k > 0 /\ Way[k] \in close_list /\ age[Way[k]] + k <= c
           P == {k \in 0 .. n : On(k)}
<1>6. \A k \in 0 .. n : On(k) => Way[k] \in Listed
  BY <1>1 DEF ParentsOK
<1>7. \A p \in Listed : p # None
  <2>1. Listed \subseteq Tiles
    BY <1>1, RangeOfSeq DEF GridTypeOK, Listed, Range
  <2> QED BY <2>1, TilesFinite
<1>8. ASSUME NEW k \in 1 .. n, k - 1 \in P, Way[k - 1] # start_point
      PROVE  On(k) /\ ClearLine(Way[k - 1], Way[k])
  <2>1. k \in 0 .. n /\ k # 0 /\ k - 1 \in 0 .. n
    BY <1>2
  <2>2. Way[k - 1] \in Listed /\ Way[k - 1] # None
    BY <1>6, <1>7, <1>8, <2>1
  <2>3. Way[k] = nodes[Way[k - 1]].parent
    BY <1>4, <1>8, <2>1, <2>2 DEF WayStep
  <2>4. Way[k] \in close_list /\ ClearLine(Way[k - 1], Way[k])
    BY <1>1, <1>8, <2>2, <2>3 DEF ParentsOK
  <2>5. age[Way[k]] + k <= c
    <3>1. CASE k - 1 = 0
      <4>1. age[Way[k]] < c /\ age[Way[k]] \in Nat
        BY <1>3, <1>5, <2>4
      <4> QED BY <1>2, <3>1, <4>1
    <3>2. CASE k - 1 # 0
      <4>1. Way[k - 1] \in close_list /\ age[Way[k - 1]] + (k - 1) <= c
        BY <1>8, <3>2
      <4>2. age[Way[k]] < age[Way[k - 1]]
        BY <1>3, <1>8, <2>3, <4>1
      <4>3. age[Way[k]] \in Nat /\ age[Way[k - 1]] \in Nat
        BY <1>5, <2>4, <4>1
      <4> QED BY <1>2, <4>1, <4>2, <4>3
    <3> QED BY <3>1, <3>2
  <2> QED BY <2>4, <2>5
<1>9. 0 \in P
  <2>1. 0 \in 0 .. n
    BY <1>2
  <2> QED BY <1>4, <2>1 DEF WayStep
<1>10. ASSUME NEW k \in 1 .. n, k - 1 \in P PROVE k \in P
  <2>1. CASE Way[k - 1] = start_point
    <3>1. k \in 0 .. n /\ k # 0
      BY <1>2
    <3>2. Way[k] = start_point
      BY <1>4, <2>1, <3>1 DEF WayStep
    <3> QED BY <3>1, <3>2
  <2>2. CASE Way[k - 1] # start_point
    BY <1>8, <1>10, <2>2
  <2> QED BY <2>1, <2>2
<1>11. \A k \in 0 .. n : k \in P
  <2> HIDE DEF P
  <2> QED BY <1>2, <1>9, <1>10, Steps
<1>12. Way[n] = start_point
  <2>1. On(n)
    BY <1>2, <1>11
  <2>2. SUFFICES ASSUME Way[n] \in close_list, age[Way[n]] + n <= c, Way[n] # start_point PROVE FALSE
    BY <1>2, <2>1
  <2>3. age[Way[n]] \in Nat /\ age[nodes[Way[n]].parent] < age[Way[n]]
    BY <1>3, <1>5, <2>2
  <2>4. nodes[Way[n]].parent \in close_list
    BY <1>1, <2>2 DEF ParentsOK
  <2>5. age[nodes[Way[n]].parent] \in Nat
    BY <1>5, <2>4
  <2> QED BY <1>2, <2>2, <2>3, <2>5
<1>13. \A k \in 1 .. n : Way[k - 1] # start_point => ClearLine(Way[k - 1], Way[k])
  <2> TAKE k \in 1 .. n
  <2>1. k - 1 \in P
    BY <1>2, <1>11
  <2> HIDE DEF P
  <2> QED BY <1>8, <2>1
<1> QED BY <1>12, <1>13 DEF WayFound, n

\* Whenever a search returns true, the parents lead from end_point to
\* start_point through clear lines: main.cpp:286-291 and JPS.cpp:1004-1014
\* follow them without a test for a null parent.
THEOREM WayAlwaysFound == SearchSpec => []WayFound
BY SearchInvariance, WayFollows, PTL

\* A_star returns true exactly if end_point can be reached, on a map of any
\* size.
THEOREM AStarEndsRight == SearchSpec => [](program = "A_star" => EndsRight)
<1>1. SearchInv => (program = "A_star" => EndsRight)
  <2> SUFFICES ASSUME SearchInv, program = "A_star", result # "searching"
               PROVE  result = "true" <=> end_point \in Reachable
    BY DEF EndsRight
  <2>1. /\ GridTypeOK /\ Listed \subseteq Reachable /\ start_point \in Listed
        /\ (result = "true" => end_point \in Listed)
        /\ (result = "undefined" => open_list = <<>>) /\ result # "false"
        /\ \A p \in close_list : Neighbours(p) \subseteq Listed
        /\ end_point \notin close_list
    BY DEF SearchInv, ParentsOK, EndedOK, FrontierOK
  <2>2. CASE result = "true"
    BY <2>1, <2>2
  <2>3. CASE result # "true"
    <3>1. open_list = <<>>
      BY <2>1, <2>3 DEF GridTypeOK
    <3>2. Listed = close_list
      BY <3>1 DEF Listed, Range
    <3>3. Reachable \subseteq close_list
      BY <2>1, <3>2, ReachableLeast
    <3> QED BY <2>1, <2>3, <3>3
  <2> QED BY <2>2, <2>3
<1> QED BY <1>1, SearchInvariance, PTL

\* Neither program returns true when end_point cannot be reached.
THEOREM FoundIsReachable == SearchSpec => [](result = "true" => end_point \in Reachable)
<1>1. SearchInv => (result = "true" => end_point \in Reachable)
  BY DEF SearchInv, EndedOK
<1> QED BY <1>1, SearchInvariance, PTL

-----------------------------------------------------------------------------
(* The red-black tree: one field of a node set *)

Sides == {LEFT, RIGHT}
TreeNode(D) == [data : Int, red : BOOLEAN, parent : D \union {Null}, child : [Sides -> D]]
Heaps(D) == [D -> TreeNode(D)]

\* There are two sides, each the other of the other.
LEMMA SideFacts ==
  /\ LEFT # RIGHT /\ LEFT \in Sides /\ RIGHT \in Sides
  /\ \A dir \in Sides : Other(dir) \in Sides /\ Other(dir) # dir /\ Other(Other(dir)) = dir
                        /\ \A d \in Sides : d = dir \/ d = Other(dir)
BY DEF LEFT, RIGHT, Sides, Other

\* The heap with one field of a node changed.
WithParent(h, n, p) == [h EXCEPT ![n].parent = p]
WithChild(h, n, dir, c) == [h EXCEPT ![n].child[dir] = c]
WithData(h, n, data) == [h EXCEPT ![n].data = data]

\* The four fields, and a node with one of them changed.
LEMMA NodeFields ==
  ASSUME NEW D, NEW m \in TreeNode(D)
  PROVE  /\ m.data \in Int /\ m.red \in BOOLEAN /\ m.parent \in D \union {Null} /\ m.child \in [Sides -> D]
         /\ m = [data |-> m.data, red |-> m.red, parent |-> m.parent, child |-> m.child]
BY DEF TreeNode

\* What painting a node changes.
LEMMA SetRed ==
  ASSUME NEW D, NEW h \in Heaps(D), NEW n \in D, NEW red \in BOOLEAN
  PROVE  /\ Painted(h, n, red) \in Heaps(D)
         /\ \A x \in D : /\ Painted(h, n, red)[x].data = h[x].data /\ Painted(h, n, red)[x].parent = h[x].parent
                         /\ Painted(h, n, red)[x].child = h[x].child
                         /\ Painted(h, n, red)[x].red = IF x = n THEN red ELSE h[x].red
<1> DEFINE r == Painted(h, n, red)
<1>0. r = [h EXCEPT ![n].red = red]
  BY DEF Painted
<1> HIDE DEF r
<1>1. h \in [D -> TreeNode(D)]
  BY DEF Heaps
<1>2. \A x \in D : h[x] \in TreeNode(D)
  BY <1>1
<1>3. \A x \in D : r[x] = IF x = n THEN [h[n] EXCEPT !.red = red] ELSE h[x]
  BY <1>0, <1>1
<1> DEFINE m == h[n]
<1>4. m \in TreeNode(D)
  BY <1>2
<1> HIDE DEF m
<1>5. [m EXCEPT !.red = red] = [data |-> m.data, red |-> red, parent |-> m.parent, child |-> m.child]
  BY <1>4, NodeFields
<1>6. r[n] = [data |-> m.data, red |-> red, parent |-> m.parent, child |-> m.child]
  BY <1>3, <1>5 DEF m
<1>7. r[n] \in TreeNode(D)
  BY <1>4, <1>6, NodeFields DEF TreeNode
<1>8. \A x \in D : r[x] \in TreeNode(D)
  BY <1>2, <1>3, <1>7
<1>9. r = [x \in D |-> r[x]]
  BY <1>0, <1>1, Zenon
<1>10. r \in Heaps(D)
  BY <1>8, <1>9 DEF Heaps
<1> QED BY <1>3, <1>6, <1>10 DEF m, r

\* What setting the parent of a node changes.
LEMMA SetParent ==
  ASSUME NEW D, NEW h \in Heaps(D), NEW n \in D, NEW p \in D \union {Null}
  PROVE  /\ WithParent(h, n, p) \in Heaps(D)
         /\ \A x \in D : /\ WithParent(h, n, p)[x].data = h[x].data /\ WithParent(h, n, p)[x].red = h[x].red
                         /\ WithParent(h, n, p)[x].child = h[x].child
                         /\ WithParent(h, n, p)[x].parent = IF x = n THEN p ELSE h[x].parent
<1> DEFINE r == WithParent(h, n, p)
<1>0. r = [h EXCEPT ![n].parent = p]
  BY DEF WithParent
<1> HIDE DEF r
<1>1. h \in [D -> TreeNode(D)]
  BY DEF Heaps
<1>2. \A x \in D : h[x] \in TreeNode(D)
  BY <1>1
<1>3. \A x \in D : r[x] = IF x = n THEN [h[n] EXCEPT !.parent = p] ELSE h[x]
  BY <1>0, <1>1
<1> DEFINE m == h[n]
<1>4. m \in TreeNode(D)
  BY <1>2
<1> HIDE DEF m
<1>5. [m EXCEPT !.parent = p] = [data |-> m.data, red |-> m.red, parent |-> p, child |-> m.child]
  BY <1>4, NodeFields
<1>6. r[n] = [data |-> m.data, red |-> m.red, parent |-> p, child |-> m.child]
  BY <1>3, <1>5 DEF m
<1>7. r[n] \in TreeNode(D)
  BY <1>4, <1>6, NodeFields DEF TreeNode
<1>8. \A x \in D : r[x] \in TreeNode(D)
  BY <1>2, <1>3, <1>7
<1>9. r = [x \in D |-> r[x]]
  BY <1>0, <1>1, Zenon
<1>10. r \in Heaps(D)
  BY <1>8, <1>9 DEF Heaps
<1> QED BY <1>3, <1>6, <1>10 DEF m, r

\* What setting the data of a node changes.
LEMMA SetData ==
  ASSUME NEW D, NEW h \in Heaps(D), NEW n \in D, NEW data \in Int
  PROVE  /\ WithData(h, n, data) \in Heaps(D)
         /\ \A x \in D : /\ WithData(h, n, data)[x].parent = h[x].parent /\ WithData(h, n, data)[x].red = h[x].red
                         /\ WithData(h, n, data)[x].child = h[x].child
                         /\ WithData(h, n, data)[x].data = IF x = n THEN data ELSE h[x].data
<1> DEFINE r == WithData(h, n, data)
<1>0. r = [h EXCEPT ![n].data = data]
  BY DEF WithData
<1> HIDE DEF r
<1>1. h \in [D -> TreeNode(D)]
  BY DEF Heaps
<1>2. \A x \in D : h[x] \in TreeNode(D)
  BY <1>1
<1>3. \A x \in D : r[x] = IF x = n THEN [h[n] EXCEPT !.data = data] ELSE h[x]
  BY <1>0, <1>1
<1> DEFINE m == h[n]
<1>4. m \in TreeNode(D)
  BY <1>2
<1> HIDE DEF m
<1>5. [m EXCEPT !.data = data] = [data |-> data, red |-> m.red, parent |-> m.parent, child |-> m.child]
  BY <1>4, NodeFields
<1>6. r[n] = [data |-> data, red |-> m.red, parent |-> m.parent, child |-> m.child]
  BY <1>3, <1>5 DEF m
<1>7. r[n] \in TreeNode(D)
  BY <1>4, <1>6, NodeFields DEF TreeNode
<1>8. \A x \in D : r[x] \in TreeNode(D)
  BY <1>2, <1>3, <1>7
<1>9. r = [x \in D |-> r[x]]
  BY <1>0, <1>1, Zenon
<1>10. r \in Heaps(D)
  BY <1>8, <1>9 DEF Heaps
<1> QED BY <1>3, <1>6, <1>10 DEF m, r

\* What setting a child of a node changes.
LEMMA SetChild ==
  ASSUME NEW D, NEW h \in Heaps(D), NEW n \in D, NEW dir \in Sides, NEW c \in D
  PROVE  /\ WithChild(h, n, dir, c) \in Heaps(D)
         /\ \A x \in D : /\ WithChild(h, n, dir, c)[x].data = h[x].data /\ WithChild(h, n, dir, c)[x].red = h[x].red
                         /\ WithChild(h, n, dir, c)[x].parent = h[x].parent
                         /\ \A d \in Sides : WithChild(h, n, dir, c)[x].child[d] = IF x = n /\ d = dir THEN c ELSE h[x].child[d]
<1> DEFINE r == WithChild(h, n, dir, c)
<1>0. r = [h EXCEPT ![n].child[dir] = c]
  BY DEF WithChild
<1> HIDE DEF r
<1>1. h \in [D -> TreeNode(D)]
  BY DEF Heaps
<1>2. \A x \in D : h[x] \in TreeNode(D)
  BY <1>1
<1>3. \A x \in D : r[x] = IF x = n THEN [h[n] EXCEPT !.child[dir] = c] ELSE h[x]
  BY <1>0, <1>1
<1> DEFINE m == h[n]
           k == [m.child EXCEPT ![dir] = c]
<1>4. m \in TreeNode(D)
  BY <1>2
<1> HIDE DEF m
<1>5. [m EXCEPT !.child[dir] = c] = [data |-> m.data, red |-> m.red, parent |-> m.parent, child |-> k]
  BY <1>4, NodeFields
<1>6. k \in [Sides -> D] /\ \A d \in Sides : k[d] = IF d = dir THEN c ELSE m.child[d]
  BY <1>4, NodeFields
<1> HIDE DEF k
<1>7. r[n] = [data |-> m.data, red |-> m.red, parent |-> m.parent, child |-> k]
  BY <1>3, <1>5 DEF m
<1>8. r[n] \in TreeNode(D)
  BY <1>4, <1>6, <1>7, NodeFields DEF TreeNode
<1>9. \A x \in D : r[x] \in TreeNode(D)
  BY <1>2, <1>3, <1>8
<1>10. r = [x \in D |-> r[x]]
  BY <1>0, <1>1, Zenon
<1>11. r \in Heaps(D)
  BY <1>9, <1>10 DEF Heaps
<1>12. \A d \in Sides : r[n].child[d] = IF d = dir THEN c ELSE h[n].child[d]
  BY <1>6, <1>7 DEF m
<1> QED BY <1>3, <1>7, <1>11, <1>12 DEF m, r

\* What Rotate_Node does to the fields when it finds n and turns it.
\* What Rotate_Node sets: n goes down on side dir, up comes up, bump goes over.
FieldsTurned(D, h, dir, n, up, bump, p, r) ==
  /\ r \in Heaps(D)
  /\ \A x \in D :
       /\ r[x].data = h[x].data /\ r[x].red = h[x].red
       /\ r[x].parent = IF x = up THEN p ELSE IF x = n THEN up
                        ELSE IF x = bump /\ x # Nill THEN n ELSE h[x].parent
       /\ \A d \in Sides :
            r[x].child[d] = IF x = p /\ d = Dir(h, n) THEN up
                            ELSE IF x = n /\ d = Other(dir) THEN bump
                            ELSE IF x = up /\ d = dir THEN n ELSE h[x].child[d]

\* The fields of all nodes after Rotate_Node.
LEMMA RotateFields ==
  ASSUME NEW D, NEW h \in Heaps(D), Nill \in D, NEW data, NEW dir \in Sides,
         NEW n \in D, Get_Node(h, data) = n, n # Null, h[n].parent \in D,
         NEW up, up = h[n].child[Other(dir)], up # Nill, up # n, h[n].parent # n, h[n].parent # up,
         NEW bump, bump = h[up].child[dir], bump # n, bump # up,
         NEW r, r = Rotate_Node(h, data, dir)
  PROVE  FieldsTurned(D, h, dir, n, up, bump, h[n].parent, r)
<1> DEFINE p == h[n].parent
           o == Other(dir)
           e == Dir(h, n)
           g == IF bump = Nill THEN h ELSE WithParent(h, bump, n)
           h1 == WithChild(g, p, e, up)
           h2 == WithParent(h1, up, p)
           h3 == WithParent(h2, n, up)
           h4 == WithChild(h3, n, o, bump)
           h5 == WithChild(h4, up, dir, n)
<1>1. o \in Sides /\ e \in Sides /\ o # dir
  BY SideFacts DEF Dir
<1>2. /\ up \in D /\ bump \in D /\ p \in D /\ p # n /\ p # up
      /\ up \in D \union {Null} /\ p \in D \union {Null} /\ n \in D \union {Null}
  <2>1. \A x \in D : h[x].child \in [Sides -> D]
    BY NodeFields DEF Heaps
  <2>2. up \in D
    BY <1>1, <2>1
  <2> QED BY <2>1, <2>2
<1>3. r = h5
  BY Zenon DEF Rotate_Node, Null, Nill, WithParent, WithChild
<1> HIDE DEF p, o, e
<1>4. /\ g \in Heaps(D)
      /\ \A x \in D : /\ g[x].data = h[x].data /\ g[x].red = h[x].red
                      /\ g[x].child = h[x].child
                      /\ g[x].parent = IF x = bump /\ bump # Nill THEN n ELSE h[x].parent
  <2>1. h \in Heaps(D) /\ bump \in D /\ n \in D \union {Null}
    BY <1>2, Zenon
  <2>2. CASE bump = Nill
    BY <2>2
  <2>3. CASE bump # Nill
    <3>1. g = WithParent(h, bump, n)
      BY <2>3
    <3> HIDE DEF g
    <3>2. /\ WithParent(h, bump, n) \in Heaps(D)
          /\ \A x \in D : /\ WithParent(h, bump, n)[x].data = h[x].data
                          /\ WithParent(h, bump, n)[x].red = h[x].red
                          /\ WithParent(h, bump, n)[x].child = h[x].child
                          /\ WithParent(h, bump, n)[x].parent = IF x = bump THEN n ELSE h[x].parent
      BY ONLY <2>1, SetParent
    <3> QED BY ONLY <2>3, <3>1, <3>2
  <2> QED BY <2>2, <2>3, Zenon
<1> HIDE DEF g
<1>5. /\ h1 \in Heaps(D)
      /\ \A x \in D : /\ h1[x].data = g[x].data /\ h1[x].red = g[x].red /\ h1[x].parent = g[x].parent
                      /\ \A d \in Sides : h1[x].child[d] = IF x = p /\ d = e THEN up ELSE g[x].child[d]
  <2>1. g \in Heaps(D) /\ p \in D /\ e \in Sides /\ up \in D
    BY <1>1, <1>2, <1>4, Zenon
  <2> QED BY ONLY <2>1, SetChild
<1> HIDE DEF h1
<1>6. /\ h2 \in Heaps(D)
      /\ \A x \in D : /\ h2[x].data = h1[x].data /\ h2[x].red = h1[x].red /\ h2[x].child = h1[x].child
                      /\ h2[x].parent = IF x = up THEN p ELSE h1[x].parent
  <2>1. h1 \in Heaps(D) /\ up \in D /\ p \in D \union {Null}
    BY <1>2, <1>5, Zenon
  <2> QED BY ONLY <2>1, SetParent
<1> HIDE DEF h2
<1>7. /\ h3 \in Heaps(D)
      /\ \A x \in D : /\ h3[x].data = h2[x].data /\ h3[x].red = h2[x].red /\ h3[x].child = h2[x].child
                      /\ h3[x].parent = IF x = n THEN up ELSE h2[x].parent
  <2>1. h2 \in Heaps(D) /\ n \in D /\ up \in D \union {Null}
    BY <1>2, <1>6, Zenon
  <2> QED BY ONLY <2>1, SetParent
<1> HIDE DEF h3
<1>8. /\ h4 \in Heaps(D)
      /\ \A x \in D : /\ h4[x].data = h3[x].data /\ h4[x].red = h3[x].red /\ h4[x].parent = h3[x].parent
                      /\ \A d \in Sides : h4[x].child[d] = IF x = n /\ d = o THEN bump ELSE h3[x].child[d]
  <2>1. h3 \in Heaps(D) /\ n \in D /\ o \in Sides /\ bump \in D
    BY <1>1, <1>2, <1>7, Zenon
  <2> QED BY ONLY <2>1, SetChild
<1> HIDE DEF h4
<1>9. /\ h5 \in Heaps(D)
      /\ \A x \in D : /\ h5[x].data = h4[x].data /\ h5[x].red = h4[x].red /\ h5[x].parent = h4[x].parent
                      /\ \A d \in Sides : h5[x].child[d] = IF x = up /\ d = dir THEN n ELSE h4[x].child[d]
  <2>1. h4 \in Heaps(D) /\ up \in D /\ dir \in Sides /\ n \in D
    BY <1>2, <1>8, Zenon
  <2> QED BY ONLY <2>1, SetChild
<1> HIDE DEF h5
<1>10. ASSUME NEW x \in D
       PROVE  /\ r[x].data = h[x].data /\ r[x].red = h[x].red
              /\ r[x].parent = IF x = up THEN p ELSE IF x = n THEN up
                               ELSE IF x = bump /\ x # Nill THEN n ELSE h[x].parent
              /\ \A d \in Sides : r[x].child[d] = IF x = p /\ d = e THEN up
                                                 ELSE IF x = n /\ d = o THEN bump
                                                 ELSE IF x = up /\ d = dir THEN n ELSE h[x].child[d]
  <2>1. h5[x].data = h4[x].data /\ h5[x].red = h4[x].red /\ h5[x].parent = h4[x].parent
    BY <1>9, Zenon
  <2>2. h4[x].data = h3[x].data /\ h4[x].red = h3[x].red /\ h4[x].parent = h3[x].parent
    BY <1>8, Zenon
  <2>3. /\ h3[x].data = h2[x].data /\ h3[x].red = h2[x].red
        /\ h3[x].parent = IF x = n THEN up ELSE h2[x].parent
    BY <1>7
  <2>4. /\ h2[x].data = h1[x].data /\ h2[x].red = h1[x].red
        /\ h2[x].parent = IF x = up THEN p ELSE h1[x].parent
    BY <1>6
  <2>5. h1[x].data = g[x].data /\ h1[x].red = g[x].red /\ h1[x].parent = g[x].parent
    BY <1>5
  <2>6. /\ g[x].data = h[x].data /\ g[x].red = h[x].red
        /\ g[x].parent = IF x = bump /\ bump # Nill THEN n ELSE h[x].parent
    BY <1>4, Zenon
  <2>7. r[x].data = h[x].data /\ r[x].red = h[x].red
    BY <1>3, <2>1, <2>2, <2>3, <2>4, <2>5, <2>6, Zenon
  <2>8. r[x].parent = IF x = up THEN p ELSE IF x = n THEN up
                      ELSE IF x = bump /\ x # Nill THEN n ELSE h[x].parent
    BY <1>3, <2>1, <2>2, <2>3, <2>4, <2>5, <2>6, Zenon
  <2>9. ASSUME NEW d \in Sides
        PROVE  r[x].child[d] = IF x = p /\ d = e THEN up
                               ELSE IF x = n /\ d = o THEN bump
                               ELSE IF x = up /\ d = dir THEN n ELSE h[x].child[d]
    <3>1. h5[x].child[d] = IF x = up /\ d = dir THEN n ELSE h4[x].child[d]
      BY <1>9
    <3>2. h4[x].child[d] = IF x = n /\ d = o THEN bump ELSE h3[x].child[d]
      BY <1>8, Zenon
    <3>3. h3[x].child = h2[x].child /\ h2[x].child = h1[x].child /\ g[x].child = h[x].child
      BY <1>4, <1>6, <1>7, Zenon
    <3>4. h1[x].child[d] = IF x = p /\ d = e THEN up ELSE g[x].child[d]
      BY <1>5, Zenon
    <3> QED BY <1>2, <1>3, <3>1, <3>2, <3>3, <3>4, Zenon
  <2> QED BY <2>7, <2>8, <2>9, Zenon
<1> QED BY <1>3, <1>9, <1>10, Zenon DEF FieldsTurned, p, o, e

-----------------------------------------------------------------------------
(* What a tree is *)

\* sub[x] is the set of the nodes below x, and x.
Rooted(h, T, sub) ==
  /\ IsFiniteSet(T) /\ Nill \in T /\ Null \notin T
  /\ h[Nill].data = IntMax /\ h[Nill].child[RIGHT] = Nill
  /\ sub \in [T -> SUBSET (T \ {Nill})] /\ sub[Nill] = {} /\ sub[Root(h)] = T \ {Nill}

Joined(h, T) ==
  /\ \A x \in T, d \in Sides :
       h[x].child[d] \in T /\ (h[x].child[d] # Nill => h[h[x].child[d]].parent = x)
  /\ \A x \in T \ {Nill} : h[x].parent \in T /\ \E d \in Sides : h[h[x].parent].child[d] = x

Parted(h, T, sub) ==
  \A x \in T \ {Nill}, d \in Sides :
    /\ sub[x] = {x} \union sub[h[x].child[d]] \union sub[h[x].child[Other(d)]]
    /\ x \notin sub[h[x].child[d]]
    /\ sub[h[x].child[d]] \intersect sub[h[x].child[Other(d)]] = {}

\* y is to the side d of x.
Beside(h, x, d, y) == IF d = LEFT THEN h[y].data < h[x].data ELSE h[x].data < h[y].data

Ordered(h, T, sub) ==
  /\ \A x \in T \ {Nill} : h[x].data \in Int /\ h[x].data < IntMax
  /\ \A x, y \in T \ {Nill} : h[x].data = h[y].data => x = y
  /\ \A x \in T \ {Nill}, d \in Sides : \A y \in sub[h[x].child[d]] : Beside(h, x, d, y)

Nested(h, T, sub) ==
  \A x \in T : \A y \in sub[x] : sub[y] \subseteq sub[x] /\ (y # x => h[y].parent \in sub[x])

Tree(h, T, sub) ==
  /\ Rooted(h, T, sub) /\ Joined(h, T) /\ Parted(h, T, sub)
  /\ Ordered(h, T, sub) /\ Nested(h, T, sub)

\* The shape and the data are all that makes a tree.
LEMMA SameTree ==
  ASSUME NEW h, NEW r, NEW T, NEW sub, Tree(h, T, sub),
         \A x \in T : /\ r[x].data = h[x].data /\ (x # Nill => r[x].parent = h[x].parent)
                      /\ \A d \in Sides : r[x].child[d] = h[x].child[d]
  PROVE  Tree(r, T, sub)
<1>1. Rooted(h, T, sub) /\ Joined(h, T) /\ Parted(h, T, sub) /\ Ordered(h, T, sub) /\ Nested(h, T, sub)
  BY DEF Tree
<1>2. Rooted(r, T, sub)
  BY <1>1, SideFacts DEF Rooted, Root
<1>3. Joined(r, T)
  <2>1. ASSUME NEW x \in T, NEW d \in Sides
        PROVE  r[x].child[d] \in T /\ (r[x].child[d] # Nill => r[r[x].child[d]].parent = x)
    <3>1. h[x].child[d] \in T /\ (h[x].child[d] # Nill => h[h[x].child[d]].parent = x)
      BY <1>1 DEF Joined
    <3> QED BY <3>1
  <2>2. ASSUME NEW x \in T \ {Nill}
        PROVE  r[x].parent \in T /\ \E d \in Sides : r[r[x].parent].child[d] = x
    <3>1. h[x].parent \in T /\ \E d \in Sides : h[h[x].parent].child[d] = x
      BY <1>1 DEF Joined
    <3> QED BY <3>1
  <2> QED BY <2>1, <2>2 DEF Joined
<1>4. Parted(r, T, sub)
  <2> SUFFICES ASSUME NEW x \in T \ {Nill}, NEW d \in Sides
      PROVE  /\ sub[x] = {x} \union sub[r[x].child[d]] \union sub[r[x].child[Other(d)]]
             /\ x \notin sub[r[x].child[d]]
             /\ sub[r[x].child[d]] \intersect sub[r[x].child[Other(d)]] = {}
    BY DEF Parted
  <2>1. r[x].child[d] = h[x].child[d] /\ r[x].child[Other(d)] = h[x].child[Other(d)]
    BY SideFacts
  <2> QED BY <1>1, <2>1 DEF Parted
<1>5. Ordered(r, T, sub)
  <2>1. \A x \in T \ {Nill}, d \in Sides : \A y \in sub[r[x].child[d]] : Beside(r, x, d, y)
    <3> TAKE x \in T \ {Nill}, d \in Sides
    <3> TAKE y \in sub[r[x].child[d]]
    <3>1. y \in sub[h[x].child[d]]
      OBVIOUS
    <3>2. h[x].child[d] \in T
      BY <1>1 DEF Joined
    <3>3. y \in T
      BY <1>1, <3>1, <3>2 DEF Rooted
    <3>4. Beside(h, x, d, y)
      BY <1>1, <3>1 DEF Ordered
    <3>5. r[y].data = h[y].data /\ r[x].data = h[x].data
      BY <3>3
    <3> QED BY <3>4, <3>5 DEF Beside
  <2>2. \A x \in T \ {Nill} : r[x].data \in Int /\ r[x].data < IntMax
    BY <1>1 DEF Ordered
  <2>3. \A x, y \in T \ {Nill} : r[x].data = r[y].data => x = y
    BY <1>1 DEF Ordered
  <2> QED BY <2>1, <2>2, <2>3 DEF Ordered
<1>6. Nested(r, T, sub)
  <2>1. \A x \in T : sub[x] \subseteq T \ {Nill}
    BY <1>1 DEF Rooted
  <2> QED BY <1>1, <2>1 DEF Nested
<1> QED BY <1>2, <1>3, <1>4, <1>5, <1>6 DEF Tree

\* A node, its children and what is below them.
LEMMA Below ==
  ASSUME NEW h, NEW T, NEW sub, Tree(h, T, sub), NEW x \in T \ {Nill}, NEW d \in Sides,
         NEW c, c = h[x].child[d], NEW o, o = h[x].child[Other(d)]
  PROVE  /\ x \in sub[x] /\ c \in T /\ o \in T /\ sub[c] \subseteq sub[x] /\ sub[o] \subseteq sub[x]
         /\ x \notin sub[c] /\ x \notin sub[o]
         /\ sub[x] = {x} \union sub[c] \union sub[o] /\ sub[c] \intersect sub[o] = {}
         /\ sub[x] \subseteq T \ {Nill}
         /\ c # Nill => c \in sub[c] /\ c # x /\ h[c].parent = x /\ c # o
<1>1. Rooted(h, T, sub) /\ Joined(h, T) /\ Parted(h, T, sub)
  BY DEF Tree
<1>2. Other(d) \in Sides /\ Other(Other(d)) = d
  BY SideFacts
<1>3. c \in T /\ o \in T
  BY <1>1, <1>2 DEF Joined
<1>4. /\ sub[x] = {x} \union sub[c] \union sub[o] /\ sub[c] \intersect sub[o] = {}
      /\ x \notin sub[c] /\ x \notin sub[o]
  <2>1. /\ sub[x] = {x} \union sub[c] \union sub[o] /\ x \notin sub[c] /\ sub[c] \intersect sub[o] = {}
    BY <1>1 DEF Parted
  <2>2. x \notin sub[o]
    BY <1>1, <1>2 DEF Parted
  <2> QED BY <2>1, <2>2
<1>5. sub[x] \subseteq T \ {Nill}
  BY <1>1 DEF Rooted
<1>6. ASSUME c # Nill PROVE c \in sub[c] /\ h[c].parent = x
  <2>1. c \in T \ {Nill}
    BY <1>3, <1>6
  <2>2. sub[c] = {c} \union sub[h[c].child[d]] \union sub[h[c].child[Other(d)]]
    BY <1>1, <2>1 DEF Parted
  <2> QED BY <1>1, <1>6, <2>2, Zenon DEF Joined
<1> QED BY <1>3, <1>4, <1>5, <1>6, Zenon

\* The same of one child alone.
LEMMA Child ==
  ASSUME NEW h, NEW T, NEW sub, Tree(h, T, sub), NEW x \in T \ {Nill}, NEW d \in Sides
  PROVE  /\ x \in sub[x] /\ h[x].child[d] \in T /\ h[x].child[d] # x /\ x \notin sub[h[x].child[d]]
         /\ h[x].child[d] # Nill => h[x].child[d] \in sub[h[x].child[d]] /\ h[h[x].child[d]].parent = x
<1> DEFINE c == h[x].child[d]
           o == h[x].child[Other(d)]
<1>1. /\ x \in sub[x] /\ c \in T /\ x \notin sub[c]
      /\ c # Nill => c \in sub[c] /\ c # x /\ h[c].parent = x
  BY Below
<1>2. x # Nill
  OBVIOUS
<1> HIDE DEF c
<1>3. c # x
  BY ONLY <1>1, <1>2
<1> QED BY ONLY <1>1, <1>3, Zenon DEF c

\* A node is on one side of its parent.
LEMMA OneSide ==
  ASSUME NEW h, NEW T, NEW sub, Tree(h, T, sub), NEW x \in T \ {Nill}, NEW p, p = h[x].parent
  PROVE  /\ p \in T /\ Dir(h, x) \in Sides /\ h[p].child[Dir(h, x)] = x
         /\ h[p].child[Other(Dir(h, x))] # x
         /\ \A d \in Sides : h[p].child[d] = x => d = Dir(h, x)
         /\ p = Nill => x = Root(h) /\ Dir(h, x) = LEFT
         /\ p # Nill => x # p /\ p \notin sub[x] /\ sub[x] \subseteq sub[p] /\ x \in sub[p]
<1>1. Rooted(h, T, sub) /\ Joined(h, T) /\ Parted(h, T, sub)
  BY DEF Tree
<1>2. p \in T
  BY <1>1 DEF Joined
<1>3. PICK d \in Sides : h[p].child[d] = x
  BY <1>1 DEF Joined
<1>4. d # Other(d) /\ Other(d) \in Sides /\ \A e \in Sides : e = d \/ e = Other(d)
  BY SideFacts
<1>5. h[p].child[Other(d)] # x
  <2>1. CASE p = Nill
    <3>1. d = LEFT
      BY <1>1, <1>3, <2>1, SideFacts DEF Rooted, Sides
    <3>2. h[p].child[Other(d)] = Nill
      BY <1>1, <2>1, <3>1, SideFacts DEF Rooted, Other
    <3> QED BY <3>2
  <2>2. CASE p # Nill
    <3>1. p \in T \ {Nill}
      BY <1>2, <2>2
    <3>2. x # Nill => x # h[p].child[Other(d)]
      BY <1>3, <3>1, Below
    <3> QED BY <3>2
  <2> QED BY <2>1, <2>2
<1>6. Dir(h, x) = d
  BY <1>3, <1>4, <1>5 DEF Dir, Sides, Other
<1>7. p = Nill => x = Root(h) /\ d = LEFT
  BY <1>1, <1>3, SideFacts DEF Rooted, Root, Sides
<1>8. ASSUME p # Nill PROVE x # p /\ p \notin sub[x] /\ sub[x] \subseteq sub[p] /\ x \in sub[p]
  <2>1. p \in T \ {Nill}
    BY <1>2, <1>8
  <2>2. x # Nill => x \in sub[x] /\ x # p
    BY <1>3, <2>1, Below
  <2>3. p \notin sub[x] /\ sub[x] \subseteq sub[p]
    BY <1>3, <2>1, Below
  <2> QED BY <2>2, <2>3
<1> QED BY <1>2, <1>3, <1>4, <1>5, <1>6, <1>7, <1>8

-----------------------------------------------------------------------------
(* The search from the root *)

\* A loop over the nodes ends where it stays, if it gets nearer to something
\* as long as it moves.
LEMMA LoopArrives ==
  ASSUME NEW h, NEW D, D = DOMAIN h, IsFiniteSet(D), NEW next \in [D -> D], NEW first \in D,
         NEW G \in SUBSET D, NEW m \in [D -> Nat], first \in G, m[first] <= Cardinality(D),
         \A x \in G : next[x] \in G /\ (next[x] = x \/ m[next[x]] < m[x])
  PROVE  LoopEnd(h, next, first) \in G /\ next[LoopEnd(h, next, first)] = LoopEnd(h, next, first)
<1> DEFINE N == Turns(h)
           OneOn(g, k) == IF k = 0 THEN first ELSE next[g[k - 1]]
           F == [c \in 1 .. N |-> next]
           at == CHOOSE g : g = [k \in 0 .. N |-> OneOn(g, k)]
<1>1. N \in Nat /\ Cardinality(D) <= N
  BY FS_CardinalityType DEF Turns
<1>2. LoopEnd(h, next, first) = at[N]
  BY DEF LoopEnd
<1>3. F \in [1 .. N -> [D -> D]]
  OBVIOUS
<1> HIDE DEF N
<1>4. PICK f \in [0 .. N -> D] : f[0] = first /\ \A c \in 1 .. N : f[c] = F[c][f[c - 1]]
  <2> HIDE DEF F
  <2>1. Runs(D, N, F, first)
    BY <1>1, <1>3, LoopRuns
  <2> QED BY <2>1, Zenon DEF Runs
<1>5. \A c \in 0 .. N : f[c] = OneOn(f, c)
  <2> TAKE c \in 0 .. N
  <2>1. CASE c = 0
    BY <1>4, <2>1
  <2>2. CASE c # 0
    <3>1. c \in 1 .. N
      BY <1>1, <2>2
    <3> QED BY <1>4, <2>2, <3>1
  <2> QED BY <2>1, <2>2
<1>6. f = [c \in 0 .. N |-> OneOn(f, c)]
  <2> HIDE DEF OneOn
  <2> QED BY <1>5
<1>7. at = [c \in 0 .. N |-> OneOn(at, c)]
  <2> HIDE DEF OneOn
  <2> QED BY <1>6, Zenon
<1>8. \A c \in 0 .. N : at[c] = OneOn(at, c)
  <2> HIDE DEF OneOn
  <2> QED BY <1>7, Zenon
<1> HIDE DEF at, F
<1> DEFINE P == {k \in 0 .. N : at[k] \in G /\ (next[at[k]] = at[k] \/ m[at[k]] + k <= N)}
<1>9. 0 \in P
  <2>1. at[0] = first
    BY <1>1, <1>8
  <2>2. m[first] \in Nat /\ Cardinality(D) \in Nat
    BY FS_CardinalityType
  <2> QED BY <1>1, <2>1, <2>2
<1>10. ASSUME NEW k \in 1 .. N, k - 1 \in P PROVE k \in P
  <2> DEFINE x == at[k - 1]
             y == at[k]
  <2>1. k \in 0 .. N /\ k # 0 /\ y = next[x]
    BY <1>1, <1>8
  <2>2. x \in G /\ (next[x] = x \/ m[x] + (k - 1) <= N)
    BY <1>10
  <2>3. y \in G /\ (y = x \/ m[y] < m[x])
    BY <2>1, <2>2
  <2>4. m[x] \in Nat /\ m[y] \in Nat
    BY <2>2, <2>3, Zenon
  <2>5. CASE y = x
    BY <2>1, <2>2, <2>5, Zenon
  <2>6. CASE y # x
    <3>1. m[y] + k <= N
      BY <1>1, <2>1, <2>2, <2>3, <2>4, <2>6
    <3> QED BY <2>1, <2>3, <3>1, Zenon
  <2> QED BY <2>5, <2>6
<1>11. N \in P
  <2> HIDE DEF P
  <2>1. \A k \in 1 .. N : k - 1 \in P => k \in P
    BY <1>10
  <2>2. \A k \in 0 .. N : k \in P
    BY <1>1, <1>9, <2>1, Steps, Zenon
  <2> QED BY <1>1, <2>2
<1>12. at[N] \in G /\ (next[at[N]] = at[N] \/ m[at[N]] + N <= N)
  BY <1>11
<1>13. next[at[N]] = at[N]
  <2> SUFFICES ASSUME next[at[N]] # at[N] PROVE FALSE
    OBVIOUS
  <2>1. m[at[N]] \in Nat /\ m[next[at[N]]] \in Nat /\ m[next[at[N]]] < m[at[N]]
    BY <1>12
  <2> QED BY <1>1, <1>12, <2>1
<1> QED BY <1>2, <1>12, <1>13

\* How much is below a node, and that it is less below a child.
Weight(D, T, sub) == [x \in D |-> IF x \in T THEN Cardinality(sub[x]) ELSE 0]

\* Weight is a measure for LoopArrives: a walk down gets nearer to a leaf.
LEMMA WeightFacts ==
  ASSUME NEW h, NEW D, NEW T \in SUBSET D, NEW sub, Tree(h, T, sub)
  PROVE  /\ Weight(D, T, sub) \in [D -> Nat]
         /\ \A x \in T : IsFiniteSet(sub[x]) /\ Weight(D, T, sub)[x] = Cardinality(sub[x])
         /\ IsFiniteSet(D) => \A x \in T : Weight(D, T, sub)[x] <= Cardinality(D)
         /\ \A x \in T \ {Nill}, d \in Sides :
              Weight(D, T, sub)[h[x].child[d]] < Weight(D, T, sub)[x]
<1>1. IsFiniteSet(T) /\ sub \in [T -> SUBSET (T \ {Nill})]
  BY DEF Tree, Rooted
<1>2. ASSUME NEW x \in T PROVE IsFiniteSet(sub[x]) /\ Cardinality(sub[x]) \in Nat /\ sub[x] \subseteq T
  <2>1. sub[x] \subseteq T
    BY <1>1
  <2> QED BY <1>1, <2>1, FS_Subset, FS_CardinalityType
<1>3. \A x \in T : Weight(D, T, sub)[x] = Cardinality(sub[x])
  BY DEF Weight
<1>4. Weight(D, T, sub) \in [D -> Nat]
  BY <1>2 DEF Weight
<1>5. ASSUME IsFiniteSet(D), NEW x \in T PROVE Weight(D, T, sub)[x] <= Cardinality(D)
  <2>1. sub[x] \subseteq D
    BY <1>2
  <2> QED BY <1>3, <1>5, <2>1, FS_Subset
<1>6. ASSUME NEW x \in T \ {Nill}, NEW d \in Sides
      PROVE  Weight(D, T, sub)[h[x].child[d]] < Weight(D, T, sub)[x]
  <2> DEFINE c == h[x].child[d]
  <2>1. c \in T /\ sub[c] \subseteq sub[x] /\ x \in sub[x] /\ x \notin sub[c]
    BY Below
  <2> HIDE DEF c
  <2>2. Cardinality(sub[c]) < Cardinality(sub[x])
    <3>1. Cardinality(sub[c]) <= Cardinality(sub[x])
      BY <1>2, <2>1, FS_Subset
    <3>2. Cardinality(sub[c]) # Cardinality(sub[x])
      BY <1>2, <2>1, FS_Subset
    <3> QED BY <1>2, <2>1, <3>1, <3>2
  <2> QED BY <1>3, <2>1, <2>2 DEF c
<1> QED BY <1>2, <1>3, <1>4, <1>5, <1>6

\* The children of nodes of a heap are nodes of it.
LEMMA HeapFacts ==
  ASSUME NEW D, NEW h \in Heaps(D)
  PROVE  /\ DOMAIN h = D
         /\ \A x \in D : /\ h[x].data \in Int /\ h[x].red \in BOOLEAN /\ h[x].parent \in D \union {Null}
                         /\ h[x].child \in [Sides -> D]
                         /\ \A d \in Sides : h[x].child[d] \in D
<1>1. h \in [D -> TreeNode(D)]
  BY DEF Heaps
<1>2. \A x \in D : h[x] \in TreeNode(D)
  BY <1>1
<1>3. \A x \in D : /\ h[x].data \in Int /\ h[x].red \in BOOLEAN /\ h[x].parent \in D \union {Null}
                   /\ h[x].child \in [Sides -> D]
  BY <1>2, NodeFields
<1> QED BY <1>1, <1>3

\* Below a node, what has other data is on the side the search takes.
LEMMA SearchSide ==
  ASSUME NEW h, NEW T, NEW sub, Tree(h, T, sub), NEW x \in T \ {Nill}, NEW y \in sub[x] \ {x}
  PROVE  Toward(h, x, h[y].data) \in Sides /\ y \in sub[h[x].child[Toward(h, x, h[y].data)]]
<1>1. Ordered(h, T, sub) /\ Rooted(h, T, sub)
  BY DEF Tree
<1>2. y \in T \ {Nill}
  BY <1>1 DEF Rooted
<1>3. sub[x] = {x} \union sub[h[x].child[LEFT]] \union sub[h[x].child[RIGHT]]
  <2>1. Other(LEFT) = RIGHT
    BY DEF Other
  <2> QED BY <2>1, SideFacts, Below
<1>4. h[x].data \in Int /\ h[y].data \in Int
  BY <1>1, <1>2 DEF Ordered
<1>5. CASE y \in sub[h[x].child[LEFT]]
  <2>1. Beside(h, x, LEFT, y)
    BY <1>1, <1>5, SideFacts DEF Ordered
  <2>2. h[y].data < h[x].data
    BY <2>1 DEF Beside
  <2>3. Toward(h, x, h[y].data) = LEFT
    BY <1>4, <2>2 DEF Toward
  <2> QED BY <1>5, <2>3, SideFacts
<1>6. CASE y \in sub[h[x].child[RIGHT]]
  <2>1. Beside(h, x, RIGHT, y)
    BY <1>1, <1>6, SideFacts DEF Ordered
  <2>2. h[x].data < h[y].data
    BY <2>1, SideFacts DEF Beside
  <2>3. Toward(h, x, h[y].data) = RIGHT
    BY <1>4, <2>2 DEF Toward
  <2> QED BY <1>6, <2>3, SideFacts
<1> QED BY <1>3, <1>5, <1>6

\* Get_Node finds the node that holds data, and null if there is none.
LEMMA GetNodeFinds ==
  ASSUME NEW D, IsFiniteSet(D), NEW h \in Heaps(D), NEW T \in SUBSET D, NEW sub, Tree(h, T, sub), NEW v
  PROVE  /\ \A x \in T \ {Nill} : h[x].data = v => Get_Node(h, v) = x
         /\ (\A x \in T \ {Nill} : h[x].data # v) => Get_Node(h, v) = Null
<1> DEFINE next == [n \in D |-> IF n = Nill \/ h[n].data = v THEN n ELSE h[n].child[Toward(h, n, v)]]
           found == LoopEnd(h, next, Root(h))
           G == {y \in T : \A x \in T \ {Nill} : h[x].data = v => x \in sub[y]}
           m == Weight(D, T, sub)
<1>1. DOMAIN h = D /\ \A x \in D, d \in Sides : h[x].child[d] \in D
  BY HeapFacts
<1>2. Get_Node(h, v) = IF found = Nill THEN Null ELSE found
  BY <1>1 DEF Get_Node
<1>3. Rooted(h, T, sub) /\ Joined(h, T) /\ Ordered(h, T, sub)
  BY DEF Tree
<1>4. \A x : Toward(h, x, v) \in Sides
  BY SideFacts DEF Toward
<1>5. next \in [D -> D]
  BY <1>1, <1>4
<1>6. Root(h) \in D /\ Root(h) \in G
  <2>1. Root(h) \in T
    BY <1>3, SideFacts DEF Root, Joined, Rooted
  <2>2. sub[Root(h)] = T \ {Nill}
    BY <1>3 DEF Rooted
  <2> QED BY <2>1, <2>2
<1>7. m \in [D -> Nat] /\ m[Root(h)] <= Cardinality(D)
  <2>1. Root(h) \in T
    BY <1>6
  <2> QED BY <2>1, WeightFacts, Zenon
<1>8. ASSUME NEW y \in G PROVE next[y] \in G /\ (next[y] = y \/ m[next[y]] < m[y])
  <2>1. CASE y = Nill \/ h[y].data = v
    BY <2>1
  <2>2. CASE y # Nill /\ h[y].data # v
    <3> DEFINE c == h[y].child[Toward(h, y, v)]
    <3>1. y \in T \ {Nill} /\ next[y] = c
      BY <2>2
    <3>2. c \in T /\ m[c] < m[y]
      BY <1>4, <3>1, Below, WeightFacts
    <3>3. ASSUME NEW x \in T \ {Nill}, h[x].data = v PROVE x \in sub[c]
      <4>1. x \in sub[y] \ {y}
        BY <2>2, <3>3
      <4> QED BY <3>1, <3>3, <4>1, SearchSide
    <3>4. c \in G
      BY <3>2, <3>3
    <3> QED BY <3>1, <3>2, <3>4
  <2> QED BY <2>1, <2>2
<1>9. found \in G /\ next[found] = found
  <2> HIDE DEF next, G, m
  <2>1. G \in SUBSET D
    BY DEF G
  <2>2. \A y \in G : next[y] \in G /\ (next[y] = y \/ m[next[y]] < m[y])
    BY <1>8
  <2> QED BY ONLY <1>1, <1>5, <1>6, <1>7, <2>1, <2>2, IsFiniteSet(D), LoopArrives
<1> HIDE DEF found
<1>10. found \in T /\ (found = Nill \/ h[found].data = v)
  <2>1. found \in T
    BY <1>9
  <2> SUFFICES ASSUME found # Nill, h[found].data # v PROVE FALSE
    BY <2>1
  <2>2. found = h[found].child[Toward(h, found, v)]
    BY <1>9, <2>1
  <2>3. found \in T \ {Nill}
    BY <2>1
  <2> QED BY <1>4, <2>2, <2>3, Below
<1>11. ASSUME NEW x \in T \ {Nill}, h[x].data = v PROVE Get_Node(h, v) = x
  <2>1. x \in sub[found]
    BY <1>9, <1>11
  <2>2. found # Nill
    BY <1>3, <2>1 DEF Rooted
  <2>3. found = x
    BY <1>3, <1>10, <1>11, <2>2 DEF Ordered
  <2> QED BY <1>2, <2>2, <2>3
<1>12. ASSUME \A x \in T \ {Nill} : h[x].data # v PROVE Get_Node(h, v) = Null
  BY <1>2, <1>10, <1>12
<1> QED BY <1>11, <1>12

-----------------------------------------------------------------------------
(* Rotate_Node *)

\* What is to one side of what is to that side.
LEMMA BesideFacts ==
  ASSUME NEW h, NEW T, NEW sub, Tree(h, T, sub), NEW d \in Sides,
         NEW x \in T \ {Nill}, NEW y \in T \ {Nill}, NEW z \in T \ {Nill}
  PROVE  /\ Beside(h, x, d, y) => Beside(h, y, Other(d), x)
         /\ Beside(h, x, d, y) /\ Beside(h, y, d, z) => Beside(h, x, d, z)
<1>1. h[x].data \in Int /\ h[y].data \in Int /\ h[z].data \in Int
  BY DEF Tree, Ordered
<1>2. (d = LEFT /\ Other(d) = RIGHT) \/ (d = RIGHT /\ Other(d) = LEFT)
  BY SideFacts DEF Other, Sides
<1> QED BY <1>1, <1>2, SideFacts DEF Beside

\* What r is when Rotate_Node has turned n in h.
Rotates(D, h, T, dir, n, up, bump, p, r) ==
  /\ r \in Heaps(D) /\ \E s \in [T -> SUBSET T] : Tree(r, T, s)
  /\ up \in T \ {Nill} /\ p \in T /\ bump \in T /\ up # n /\ up # p /\ n # p /\ bump # n /\ bump # up
  /\ \A x \in D :
       /\ r[x].data = h[x].data /\ r[x].red = h[x].red
       /\ r[x].parent = IF x = up THEN p ELSE IF x = n THEN up
                        ELSE IF x = bump /\ x # Nill THEN n ELSE h[x].parent
       /\ \A d \in Sides :
            r[x].child[d] = IF x = p /\ d = Dir(h, n) THEN up
                            ELSE IF x = n /\ d = Other(dir) THEN bump
                            ELSE IF x = up /\ d = dir THEN n ELSE h[x].child[d]

\* Rotate_Node turns the node it is called for, and the tree stays one.
LEMMA RotateKeeps ==
  ASSUME NEW D, IsFiniteSet(D), NEW h \in Heaps(D), NEW T \in SUBSET D, NEW sub, Tree(h, T, sub),
         NEW dir \in Sides, NEW n \in T \ {Nill},
         NEW up, up = h[n].child[Other(dir)], up # Nill,
         NEW bump, bump = h[up].child[dir], NEW p, p = h[n].parent,
         NEW r, r = Rotate_Node(h, h[n].data, dir)
  PROVE  Rotates(D, h, T, dir, n, up, bump, p, r)
<1> DEFINE o == Other(dir)
           e == Dir(h, n)
           near == h[n].child[dir]
           far == h[up].child[o]
           s == [x \in T |-> IF x = up THEN sub[n]
                             ELSE IF x = n THEN {n} \union sub[near] \union sub[bump] ELSE sub[x]]
<1>0. Rooted(h, T, sub) /\ Joined(h, T) /\ Parted(h, T, sub) /\ Ordered(h, T, sub) /\ Nested(h, T, sub)
  BY DEF Tree
<1>1. /\ o \in Sides /\ o # dir /\ Other(o) = dir /\ \A d \in Sides : d = dir \/ d = o
      /\ e \in Sides
  BY SideFacts DEF Dir
<1>2. /\ n \in sub[n] /\ near \in T /\ up \in T \ {Nill} /\ n \notin sub[near] /\ n \notin sub[up]
      /\ sub[n] = {n} \union sub[near] \union sub[up] /\ sub[near] \intersect sub[up] = {}
      /\ sub[n] \subseteq T \ {Nill} /\ up # n /\ near # n /\ near # up /\ h[up].parent = n
      /\ near \notin sub[up]
      /\ (near # Nill => near \in sub[near] /\ h[near].parent = n)
  <2>0. near = h[n].child[dir]
    OBVIOUS
  <2> HIDE DEF near
  <2>1. /\ n \in sub[n] /\ near \in T /\ up \in T /\ n \notin sub[near] /\ n \notin sub[up]
        /\ sub[n] = {n} \union sub[near] \union sub[up] /\ sub[near] \intersect sub[up] = {}
        /\ sub[n] \subseteq T \ {Nill}
        /\ (near # Nill => near \in sub[near] /\ near # n /\ h[near].parent = n /\ near # up)
    BY ONLY <2>0, Tree(h, T, sub), n \in T \ {Nill}, dir \in Sides, up = h[n].child[Other(dir)], Below
  <2>2. up # n /\ h[up].parent = n
    BY <1>1, Below
  <2>3. near \notin sub[up]
    <3>1. Nill \notin sub[up]
      BY <1>0, <2>1 DEF Rooted
    <3> QED BY <2>1, <3>1
  <2> QED BY <2>1, <2>2, <2>3
<1>3. /\ up \in sub[up] /\ bump \in T /\ far \in T /\ up \notin sub[bump] /\ up \notin sub[far]
      /\ sub[up] = {up} \union sub[bump] \union sub[far] /\ sub[bump] \intersect sub[far] = {}
      /\ (bump # Nill => bump \in sub[bump] /\ bump # up /\ h[bump].parent = up /\ bump # far)
      /\ (far # Nill => far \in sub[far] /\ far # up /\ h[far].parent = up)
  <2>0. far = h[up].child[Other(dir)] /\ up \in T \ {Nill}
    BY <1>2, Zenon
  <2> HIDE DEF far
  <2>1. /\ up \in sub[up] /\ bump \in T /\ far \in T /\ up \notin sub[bump] /\ up \notin sub[far]
        /\ sub[up] = {up} \union sub[bump] \union sub[far] /\ sub[bump] \intersect sub[far] = {}
        /\ (bump # Nill => bump \in sub[bump] /\ bump # up /\ h[bump].parent = up /\ bump # far)
    BY ONLY <2>0, Tree(h, T, sub), dir \in Sides, bump = h[up].child[dir], Below
  <2>2. far # Nill => far \in sub[far] /\ far # up /\ h[far].parent = up
    BY ONLY <1>1, <2>0, Tree(h, T, sub), dir \in Sides, Child
  <2> QED BY <2>1, <2>2, Zenon
<1>4. bump # n /\ bump # up /\ far # n /\ far # up
  <2>1. n # Nill /\ up # Nill
    OBVIOUS
  <2>2. bump \in sub[up] \/ bump = Nill
    BY <1>3, Zenon
  <2>3. far \in sub[up] \/ far = Nill
    BY <1>3, Zenon
  <2> QED BY <1>2, <1>3, <2>1, <2>2, <2>3, Zenon
<1>5. /\ p \in T /\ h[p].child[e] = n /\ \A d \in Sides : h[p].child[d] = n => d = e
      /\ p # n /\ p # up
      /\ p = Nill => n = Root(h) /\ e = LEFT
  <2>1. /\ p \in T /\ h[p].child[e] = n /\ \A d \in Sides : h[p].child[d] = n => d = e
        /\ p = Nill => n = Root(h) /\ e = LEFT
        /\ p # Nill => n # p /\ p \notin sub[n]
    BY OneSide
  <2> QED BY <1>2, <1>3, <2>1, Zenon
<1>6. Get_Node(h, h[n].data) = n
  BY GetNodeFinds
<1>7. Null \notin T
  BY <1>0 DEF Rooted
<1> HIDE DEF o, e, near, far
<1>8. /\ r \in Heaps(D)
      /\ \A x \in D :
              /\ r[x].data = h[x].data /\ r[x].red = h[x].red
              /\ r[x].parent = IF x = up THEN p ELSE IF x = n THEN up
                               ELSE IF x = bump /\ x # Nill THEN n ELSE h[x].parent
              /\ \A d \in Sides :
                   r[x].child[d] = IF x = p /\ d = Dir(h, n) THEN up
                                   ELSE IF x = n /\ d = Other(dir) THEN bump
                                   ELSE IF x = up /\ d = dir THEN n ELSE h[x].child[d]
  <2>1. /\ h \in Heaps(D) /\ Nill \in D /\ dir \in Sides /\ n \in D /\ Get_Node(h, h[n].data) = n
        /\ n # Null /\ h[n].parent \in D /\ up = h[n].child[Other(dir)] /\ up # Nill /\ up # n
        /\ h[n].parent # n /\ h[n].parent # up /\ bump = h[up].child[dir] /\ bump # n /\ bump # up
        /\ r = Rotate_Node(h, h[n].data, dir) /\ p = h[n].parent
    BY <1>0, <1>2, <1>4, <1>5, <1>6, <1>7, Zenon DEF Rooted
  <2>2. FieldsTurned(D, h, dir, n, up, bump, h[n].parent, r)
    BY ONLY <2>1, RotateFields
  <2>3. FieldsTurned(D, h, dir, n, up, bump, p, r)
    BY ONLY <2>2, p = h[n].parent
  <2> QED BY ONLY <2>3, Zenon DEF FieldsTurned
<1>9. \A x \in T : r[x].data = h[x].data
  BY <1>8, Zenon
<1>10. /\ r[n].child[dir] = near /\ r[n].child[o] = bump /\ r[up].child[dir] = n /\ r[up].child[o] = far
       /\ r[p].child[e] = up
  <2>1. n \in D /\ up \in D /\ p \in D /\ n # p /\ up # p /\ up # n
    BY <1>2, <1>5, Zenon
  <2>2. \A x \in D, d \in Sides :
          r[x].child[d] = IF x = p /\ d = e THEN up ELSE IF x = n /\ d = o THEN bump
                          ELSE IF x = up /\ d = dir THEN n ELSE h[x].child[d]
    BY <1>8, Zenon DEF e, o
  <2> QED BY <1>1, <2>1, <2>2 DEF near, far
<1>11. \A x \in T \ {n, up}, d \in Sides :
         r[x].child[d] = IF x = p /\ d = e THEN up ELSE h[x].child[d]
  BY <1>8 DEF e
<1>12. \A x \in T : r[x].parent = IF x = up THEN p ELSE IF x = n THEN up
                                  ELSE IF x = bump /\ x # Nill THEN n ELSE h[x].parent
  BY <1>8, Zenon
<1>13. /\ s[up] = sub[n] /\ s[n] = {n} \union sub[near] \union sub[bump]
       /\ \A x \in T \ {n, up} : s[x] = sub[x]
  BY <1>2, Zenon
<1>14. s \in [T -> SUBSET (T \ {Nill})]
  <2>1. \A x \in T : sub[x] \in SUBSET (T \ {Nill})
    BY <1>0 DEF Rooted
  <2> QED BY <1>2, <1>3, <2>1, Zenon
<1> HIDE DEF s
<1>15. \A x \in T \ {n, up}, d \in Sides : h[x].child[d] = n => x = p /\ d = e
  <2> SUFFICES ASSUME NEW x \in T \ {n, up}, NEW d \in Sides, h[x].child[d] = n PROVE x = p /\ d = e
    OBVIOUS
  <2>1. x = p
    BY <1>0 DEF Joined
  <2> QED BY <1>5, <2>1
<1>16. \A x \in T \ {n, up}, d \in Sides : h[x].child[d] # up
  BY <1>0, <1>2 DEF Joined
<1>17. \A x \in T \ {n, up}, d \in Sides : r[x].child[d] \in T /\ s[r[x].child[d]] = sub[h[x].child[d]]
  <2> TAKE x \in T \ {n, up}, d \in Sides
  <2>1. h[x].child[d] \in T
    BY <1>0 DEF Joined
  <2>2. CASE x = p /\ d = e
    BY <1>2, <1>5, <1>11, <1>13, <2>2, Zenon
  <2>3. CASE ~(x = p /\ d = e)
    BY <1>11, <1>13, <1>15, <1>16, <2>1, <2>3
  <2> QED BY <2>2, <2>3, Zenon
<1>18. s[near] = sub[near] /\ s[bump] = sub[bump] /\ s[far] = sub[far]
  BY <1>2, <1>3, <1>4, <1>13, Zenon
<1>19. s[n] \subseteq sub[n]
  BY <1>2, <1>3, <1>13, Zenon
<1>20. Rooted(r, T, s)
  <2>1. IsFiniteSet(T) /\ Nill \in T /\ Null \notin T /\ h[Nill].data = IntMax /\ h[Nill].child[RIGHT] = Nill
        /\ sub[Nill] = {} /\ sub[h[Nill].child[LEFT]] = T \ {Nill}
    BY <1>0 DEF Rooted, Root
  <2>2. Nill \in T \ {n, up}
    BY <1>2, <2>1
  <2>3. r[Nill].data = IntMax /\ s[Nill] = {}
    BY <1>9, <1>13, <2>1, <2>2, Zenon
  <2>4. s[Root(r)] = T \ {Nill}
    BY <1>17, <2>1, <2>2, SideFacts DEF Root
  <2>5. r[Nill].child[RIGHT] = Nill
    BY <1>5, <1>11, <2>1, <2>2, SideFacts
  <2> QED BY <1>14, <2>1, <2>3, <2>4, <2>5 DEF Rooted
<1>21. Joined(r, T)
  <2>1. ASSUME NEW x \in T, NEW d \in Sides
        PROVE  r[x].child[d] \in T /\ (r[x].child[d] # Nill => r[r[x].child[d]].parent = x)
    <3>1. CASE x = n
      <4>1. near # Nill => r[near].parent = n
        BY <1>2, <1>4, <1>12, Zenon
      <4>2. bump # Nill => r[bump].parent = n
        BY <1>3, <1>4, <1>12, Zenon
      <4>3. r[x].child[d] = near \/ r[x].child[d] = bump
        BY <1>1, <1>10, <3>1, Zenon
      <4>4. near \in T /\ bump \in T
        BY <1>2, <1>3, Zenon
      <4> QED BY <3>1, <4>1, <4>2, <4>3, <4>4, Zenon
    <3>2. CASE x = up
      <4>1. r[n].parent = up
        BY <1>2, <1>12, Zenon
      <4>2. far # Nill => r[far].parent = up
        BY <1>3, <1>4, <1>12, Zenon
      <4>3. r[x].child[d] = n \/ r[x].child[d] = far
        BY <1>1, <1>10, <3>2, Zenon
      <4>4. n \in T /\ far \in T
        BY <1>3, Zenon
      <4> QED BY <3>2, <4>1, <4>2, <4>3, <4>4, Zenon
    <3>3. CASE x \in T \ {n, up}
      <4>1. CASE x = p /\ d = e
        BY <1>2, <1>10, <1>12, <4>1, Zenon
      <4>2. CASE ~(x = p /\ d = e)
        <5> DEFINE c == h[x].child[d]
        <5>1. r[x].child[d] = c /\ c # n /\ c # up
          BY <1>11, <1>15, <1>16, <3>3, <4>2
        <5>2. c \in T /\ (c # Nill => h[c].parent = x)
          BY <1>0 DEF Joined
        <5>3. c # Nill => c # bump
          BY <1>3, <3>3, <5>2, Zenon
        <5> HIDE DEF c
        <5> QED BY <1>12, <5>1, <5>2, <5>3, Zenon
      <4> QED BY <4>1, <4>2, Zenon
    <3> QED BY <3>1, <3>2, <3>3, Zenon
  <2>2. ASSUME NEW x \in T \ {Nill}
        PROVE  r[x].parent \in T /\ \E d \in Sides : r[r[x].parent].child[d] = x
    <3>1. CASE x = up
      BY <1>1, <1>5, <1>10, <1>12, <3>1, Zenon
    <3>2. CASE x = n
      BY <1>2, <1>10, <1>12, <3>2, Zenon
    <3>3. CASE x = bump
      BY <1>1, <1>4, <1>10, <1>12, <3>3, Zenon
    <3>4. CASE x \notin {up, n, bump}
      <4>1. r[x].parent = h[x].parent
        BY <1>12, <3>4, Zenon
      <4>2. h[x].parent \in T
        BY <1>0 DEF Joined
      <4>3. PICK d \in Sides : h[h[x].parent].child[d] = x
        BY <1>0 DEF Joined
      <4>4. CASE h[x].parent = n
        BY <1>1, <1>10, <3>4, <4>1, <4>2, <4>3, <4>4, Zenon DEF near, o
      <4>5. CASE h[x].parent = up
        BY <1>1, <1>10, <3>4, <4>1, <4>2, <4>3, <4>5, Zenon DEF far, o
      <4>6. CASE h[x].parent \notin {n, up}
        <5>1. ~(h[x].parent = p /\ d = e)
          BY <1>5, <3>4, <4>3, Zenon
        <5> QED BY <1>11, <4>1, <4>2, <4>3, <4>6, <5>1
      <4> QED BY <4>4, <4>5, <4>6, Zenon
    <3> QED BY <3>1, <3>2, <3>3, <3>4, Zenon
  <2> QED BY <2>1, <2>2, Zenon DEF Joined
<1>22. Parted(r, T, s)
  <2> DEFINE Part(x, d) == /\ s[x] = {x} \union s[r[x].child[d]] \union s[r[x].child[Other(d)]]
                           /\ x \notin s[r[x].child[d]]
                           /\ s[r[x].child[d]] \intersect s[r[x].child[Other(d)]] = {}
  <2>1. Part(n, dir) /\ Part(n, o)
    <3>1. Other(dir) = o
      BY DEF o
    <3>2. s[n] = {n} \union s[near] \union s[bump] /\ n \notin s[near] /\ n \notin s[bump]
      BY <1>2, <1>3, <1>13, <1>18, Zenon
    <3>3. s[near] \intersect s[bump] = {}
      BY <1>2, <1>3, <1>18, Zenon
    <3> QED BY <1>1, <1>10, <3>1, <3>2, <3>3, Zenon
  <2>2. Part(up, dir) /\ Part(up, o)
    <3>1. Other(dir) = o
      BY DEF o
    <3>2. s[up] = {up} \union s[n] \union s[far] /\ up \notin s[n] /\ up \notin s[far]
          /\ s[n] \intersect s[far] = {}
      <4>1. s[up] = {n} \union sub[near] \union {up} \union sub[bump] \union sub[far]
        BY <1>2, <1>3, <1>13, Zenon
      <4>2. sub[near] \intersect sub[far] = {} /\ up \notin sub[near] /\ n \notin sub[far] /\ sub[bump] \subseteq sub[up]
        BY <1>2, <1>3, Zenon
      <4>3. s[n] = {n} \union sub[near] \union sub[bump] /\ s[far] = sub[far]
        BY <1>13, <1>18, Zenon
      <4>4. s[up] = {up} \union s[n] \union s[far]
        BY <4>1, <4>3, Zenon
      <4>5. up \notin s[n] /\ up \notin s[far]
        BY <1>2, <1>3, <4>2, <4>3, Zenon
      <4>6. s[n] \intersect s[far] = {}
        BY ONLY <1>3, <4>2, <4>3
      <4> QED BY <4>4, <4>5, <4>6
    <3> QED BY <1>1, <1>10, <3>1, <3>2, Zenon
  <2>3. ASSUME NEW x \in (T \ {Nill}) \ {n, up}, NEW d \in Sides PROVE Part(x, d)
    <3>1. Other(d) \in Sides
      BY SideFacts
    <3>2. s[r[x].child[d]] = sub[h[x].child[d]] /\ s[r[x].child[Other(d)]] = sub[h[x].child[Other(d)]]
      BY <1>17, <3>1, Zenon
    <3>3. /\ sub[x] = {x} \union sub[h[x].child[d]] \union sub[h[x].child[Other(d)]]
          /\ x \notin sub[h[x].child[d]] /\ sub[h[x].child[d]] \intersect sub[h[x].child[Other(d)]] = {}
      BY <1>0, Zenon DEF Parted
    <3>4. s[x] = sub[x]
      BY <1>13, Zenon
    <3> QED BY ONLY <3>2, <3>3, <3>4, Zenon
  <2>4. \A x \in T \ {Nill}, d \in Sides : Part(x, d)
    <3> HIDE DEF Part
    <3> QED BY <1>1, <2>1, <2>2, <2>3
  <2> QED BY <2>4, Zenon DEF Parted
<1>23. Ordered(r, T, s)
  <2>1. \A x \in T \ {Nill} : r[x].data \in Int /\ r[x].data < IntMax
    BY <1>0, <1>9 DEF Ordered
  <2>2. \A x, y \in T \ {Nill} : r[x].data = r[y].data => x = y
    BY <1>0, <1>9 DEF Ordered
  <2>3. ASSUME NEW x \in T \ {Nill}, NEW d \in Sides, NEW y \in s[r[x].child[d]]
        PROVE  y \in T \ {Nill} /\ Beside(h, x, d, y)
    <3>1. CASE x = n /\ d = dir
      <4>1. y \in sub[near]
        BY <1>10, <1>18, <2>3, <3>1, Zenon
      <4> QED BY <1>0, <1>2, <3>1, <4>1, Zenon DEF Ordered, near
    <3>2. CASE x = n /\ d = o
      <4>1. y \in sub[up]
        BY <1>3, <1>10, <1>18, <2>3, <3>2, Zenon
      <4> QED BY <1>0, <1>1, <1>2, <3>2, <4>1, Zenon DEF Ordered, o
    <3>3. CASE x = up /\ d = o
      <4>1. y \in sub[far]
        BY <1>10, <1>18, <2>3, <3>3, Zenon
      <4> QED BY <1>0, <1>1, <1>2, <1>3, <3>3, <4>1, Zenon DEF Ordered, far
    <3>4. CASE x = up /\ d = dir
      <4>1. y \in {n} \union sub[near] \union sub[bump]
        BY <1>10, <1>13, <2>3, <3>4, Zenon
      <4>2. y \in T \ {Nill}
        BY <1>2, <1>3, <4>1, Zenon
      <4>3. Beside(h, n, o, up)
        BY <1>0, <1>1, <1>2, <1>3, Zenon DEF Ordered, o
      <4>4. Beside(h, up, dir, n)
        BY <1>1, <1>2, <4>3, BesideFacts
      <4>5. CASE y = n
        BY <3>4, <4>2, <4>4, <4>5, Zenon
      <4>6. CASE y \in sub[near]
        <5>1. Beside(h, n, dir, y)
          BY <1>0, <4>6 DEF Ordered, near
        <5> QED BY <1>2, <3>4, <4>2, <4>4, <5>1, BesideFacts
      <4>7. CASE y \in sub[bump]
        <5>1. Beside(h, up, dir, y)
          BY <1>0, <1>2, <4>7, Zenon DEF Ordered
        <5> QED BY <3>4, <4>2, <5>1, Zenon
      <4> QED BY <4>1, <4>5, <4>6, <4>7, Zenon
    <3>5. CASE x \notin {n, up}
      <4>1. y \in sub[h[x].child[d]] /\ h[x].child[d] \in T
        BY <1>0, <1>17, <2>3, <3>5 DEF Joined
      <4>2. y \in T \ {Nill}
        BY <1>0, <4>1 DEF Rooted
      <4> QED BY <1>0, <4>1, <4>2 DEF Ordered
    <3> QED BY <1>1, <3>1, <3>2, <3>3, <3>4, <3>5
  <2>4. \A x \in T \ {Nill}, d \in Sides : \A y \in s[r[x].child[d]] : Beside(r, x, d, y)
    <3> TAKE x \in T \ {Nill}, d \in Sides
    <3> TAKE y \in s[r[x].child[d]]
    <3>1. y \in T /\ Beside(h, x, d, y)
      BY <2>3
    <3>2. r[x].data = h[x].data /\ r[y].data = h[y].data
      BY <1>9, <3>1
    <3> QED BY <3>1, <3>2 DEF Beside
  <2> QED BY <2>1, <2>2, <2>4, Zenon DEF Ordered
<1>24. Nested(r, T, s)
  <2> DEFINE Old(x, y) == sub[y] \subseteq sub[x] /\ (y # x => h[y].parent \in sub[x])
  <2>0. \A x \in T : \A y \in sub[x] : Old(x, y) /\ y \in T
    BY <1>0 DEF Nested, Rooted
  <2>1. ASSUME NEW x \in T, NEW y \in s[x] PROVE s[y] \subseteq s[x]
    <3>1. CASE x = up
      <4>1. y \in sub[n] /\ s[x] = sub[n]
        BY <1>13, <2>1, <3>1, Zenon
      <4>2. sub[y] \subseteq sub[n] /\ y \in T
        BY <1>2, <2>0, <4>1, Zenon
      <4> QED BY <1>13, <1>19, <4>1, <4>2, Zenon
    <3>2. CASE x = n
      <4>1. CASE y = n
        BY <3>2, <4>1
      <4>2. CASE y # n
        <5>1. y \in sub[near] \/ y \in sub[bump]
          BY <1>13, <2>1, <3>2, <4>2, Zenon
        <5>2. y \in T /\ (sub[y] \subseteq sub[near] \/ sub[y] \subseteq sub[bump])
          BY <1>2, <1>3, <2>0, <5>1, Zenon
        <5>3. y # up
          BY <1>2, <1>3, <5>1, Zenon
        <5> QED BY <1>13, <3>2, <4>2, <5>2, <5>3, Zenon
      <4> QED BY <4>1, <4>2
    <3>3. CASE x \notin {n, up}
      <4>1. y \in sub[x] /\ s[x] = sub[x]
        BY <1>13, <2>1, <3>3, Zenon
      <4>2. sub[y] \subseteq sub[x] /\ y \in T /\ (y # x => h[y].parent \in sub[x])
        BY <2>0, <4>1
      <4>3. CASE y = up
        <5>1. n \in sub[x]
          BY <1>2, <3>3, <4>2, <4>3, Zenon
        <5> QED BY <1>2, <1>13, <2>0, <4>1, <4>3, <5>1, Zenon
      <4>4. CASE y = n
        BY <1>19, <4>1, <4>2, <4>4
      <4>5. CASE y \notin {n, up}
        BY <1>13, <4>1, <4>2, <4>5, Zenon
      <4> QED BY <4>3, <4>4, <4>5
    <3> QED BY <3>1, <3>2, <3>3
  <2>2. ASSUME NEW x \in T, NEW y \in s[x], y # x PROVE r[y].parent \in s[x]
    <3>0. y \in T
      BY <1>14
    <3>1. CASE x = up
      <4>1. y \in sub[n] /\ s[x] = sub[n] /\ y # up
        BY <1>13, <2>2, <3>1, Zenon
      <4>2. CASE y = n \/ (y = bump /\ y # Nill)
        BY <1>2, <1>3, <1>4, <1>12, <3>0, <4>1, <4>2, Zenon
      <4>3. CASE y # n /\ ~(y = bump /\ y # Nill)
        <5>1. h[y].parent \in sub[n]
          BY <2>0, <4>1, <4>3
        <5> QED BY <1>12, <3>0, <4>1, <4>3, <5>1, Zenon
      <4> QED BY <4>2, <4>3
    <3>2. CASE x = n
      <4>1. (y \in sub[near] \/ y \in sub[bump]) /\ y # n
        BY <1>13, <2>2, <3>2, Zenon
      <4>2. n \in s[n] /\ sub[near] \subseteq s[n] /\ sub[bump] \subseteq s[n] /\ y # up
        BY <1>2, <1>3, <1>13, <4>1, Zenon
      <4>3. CASE y = bump /\ y # Nill
        BY <1>12, <3>0, <3>2, <4>1, <4>2, <4>3, Zenon
      <4>4. CASE ~(y = bump /\ y # Nill)
        <5>1. r[y].parent = h[y].parent
          BY <1>12, <3>0, <4>1, <4>2, <4>4, Zenon
        <5>2. CASE y = near
          <6>1. y # Nill
            BY <1>0, <4>1, <1>2, <1>3, Zenon DEF Rooted
          <6> QED BY <1>2, <3>2, <4>2, <5>1, <5>2, <6>1, Zenon
        <5>3. CASE y # near /\ y \in sub[near]
          <6>1. h[y].parent \in sub[near]
            BY <1>2, <2>0, <5>3
          <6> QED BY <3>2, <4>2, <5>1, <6>1, Zenon
        <5>4. CASE y # bump /\ y \in sub[bump]
          <6>1. h[y].parent \in sub[bump]
            BY <1>3, <2>0, <5>4, Zenon
          <6> QED BY <3>2, <4>2, <5>1, <6>1, Zenon
        <5>5. y # Nill
          BY <1>0, <4>1, <1>2, <1>3 DEF Rooted
        <5> QED BY <4>1, <4>4, <5>2, <5>3, <5>4, <5>5, Zenon
      <4> QED BY <4>3, <4>4
    <3>3. CASE x \notin {n, up}
      <4>1. y \in sub[x] /\ s[x] = sub[x]
        BY <1>13, <2>2, <3>3, Zenon
      <4>2. h[y].parent \in sub[x]
        BY <2>0, <2>2, <4>1
      <4>3. CASE y = up
        <5>1. n \in sub[x] /\ n # x
          BY <1>2, <3>3, <4>2, <4>3, Zenon
        <5>2. p \in sub[x]
          BY <2>0, <5>1
        <5> QED BY <1>12, <3>0, <4>1, <4>3, <5>2
      <4>4. CASE y = n
        <5>1. up \in sub[x]
          <6>1. n \in sub[x] /\ up \in sub[n]
            BY <1>2, <1>3, <4>1, <4>4, Zenon
          <6> QED BY <2>0, <6>1
        <5> QED BY <1>2, <1>12, <3>0, <4>1, <4>4, <5>1, Zenon
      <4>5. CASE y = bump /\ y # Nill /\ y # n
        <5>1. up \in sub[x] /\ up # x
          BY <1>3, <3>3, <4>2, <4>5, Zenon
        <5>2. n \in sub[x]
          BY <1>2, <2>0, <5>1
        <5> QED BY <1>4, <1>12, <3>0, <4>1, <4>5, <5>2, Zenon
      <4>6. CASE y # up /\ y # n /\ ~(y = bump /\ y # Nill)
        BY <1>12, <3>0, <4>1, <4>2, <4>6, Zenon
      <4> QED BY <4>3, <4>4, <4>5, <4>6
    <3> QED BY <3>1, <3>2, <3>3
  <2> QED BY <2>1, <2>2 DEF Nested
<1>25. Tree(r, T, s)
  BY <1>20, <1>21, <1>22, <1>23, <1>24 DEF Tree
<1>26. s \in [T -> SUBSET T]
  <2>1. SUBSET (T \ {Nill}) \subseteq SUBSET T
    OBVIOUS
  <2> QED BY <1>14, <2>1
<1>27. \E z \in [T -> SUBSET T] : Tree(r, T, z)
  BY <1>25, <1>26
<1> QED BY <1>2, <1>3, <1>4, <1>5, <1>8, <1>27, Zenon DEF Rotates

-----------------------------------------------------------------------------
(* Black nodes on a path, and repainting *)

\* nb[x] is the number of black nodes on each path from x down.
EvenAt(h, nb, x) ==
  \A d \in Sides : /\ h[x].red => nb[x] = nb[h[x].child[d]]
                   /\ ~h[x].red => nb[x] = nb[h[x].child[d]] + 1
Even(h, T, nb) ==
  nb \in [T -> Nat \ {0}] /\ nb[Nill] = 1 /\ \A x \in T \ {Nill} : EvenAt(h, nb, x)

\* No red node has a red child, but for the child n.
RedBut(h, T, n) ==
  \A x \in T \ {Nill}, d \in Sides :
    h[x].child[d] = n \/ ~h[x].red \/ ~h[h[x].child[d]].red

Balanced(h, T, nb) ==
  /\ Even(h, T, nb) /\ ~h[Nill].red /\ ~h[Root(h)].red
  /\ \A x \in T \ {Nill}, d \in Sides : ~h[x].red \/ ~h[h[x].child[d]].red

Settled(h, T) ==
  \E sub \in [T -> SUBSET T], nb \in [T -> Nat] : Tree(h, T, sub) /\ Balanced(h, T, nb)

SameData(h, r, D) == \A x \in D : r[x].data = h[x].data

Blacken(h, n) == Painted(h, n, FALSE)
Redden(h, n) == Painted(h, n, TRUE)

\* r is h with n black.
PaintsBlack(D, h, n, r) ==
  /\ r \in Heaps(D) /\ ~r[n].red
  /\ \A x \in D : /\ r[x].data = h[x].data /\ r[x].parent = h[x].parent /\ r[x].child = h[x].child
                  /\ x # n => r[x].red = h[x].red

\* What painting a node changes.
LEMMA PaintBlack ==
  ASSUME NEW D, NEW h \in Heaps(D), NEW n \in D, NEW r, r = Blacken(h, n)
  PROVE  PaintsBlack(D, h, n, r)
<1>1. PICK b \in BOOLEAN : b = FALSE
  BY Zenon
<1>2. r = Painted(h, n, b)
  BY <1>1, Zenon DEF Blacken
<1>3. /\ Painted(h, n, b) \in Heaps(D)
      /\ \A x \in D : /\ Painted(h, n, b)[x].data = h[x].data /\ Painted(h, n, b)[x].parent = h[x].parent
                      /\ Painted(h, n, b)[x].child = h[x].child
                      /\ Painted(h, n, b)[x].red = IF x = n THEN b ELSE h[x].red
  BY ONLY h \in Heaps(D), n \in D, b \in BOOLEAN, SetRed
<1>4. r[n].red = b
  BY <1>2, <1>3
<1>5. ~r[n].red
  BY <1>1, <1>4, Zenon
<1> QED BY <1>2, <1>3, <1>5 DEF PaintsBlack

\* r is h with n red.
PaintsRed(D, h, n, r) ==
  /\ r \in Heaps(D) /\ r[n].red
  /\ \A x \in D : /\ r[x].data = h[x].data /\ r[x].parent = h[x].parent /\ r[x].child = h[x].child
                  /\ x # n => r[x].red = h[x].red

\* What painting a node red changes, for the cases that do it.
LEMMA PaintRed ==
  ASSUME NEW D, NEW h \in Heaps(D), NEW n \in D, NEW r, r = Redden(h, n)
  PROVE  PaintsRed(D, h, n, r)
<1>1. PICK b \in BOOLEAN : b = TRUE
  BY Zenon
<1>2. r = Painted(h, n, b)
  BY <1>1 DEF Redden
<1>3. /\ Painted(h, n, b) \in Heaps(D)
      /\ \A x \in D : /\ Painted(h, n, b)[x].data = h[x].data /\ Painted(h, n, b)[x].parent = h[x].parent
                      /\ Painted(h, n, b)[x].child = h[x].child
                      /\ Painted(h, n, b)[x].red = IF x = n THEN b ELSE h[x].red
  BY ONLY h \in Heaps(D), n \in D, b \in BOOLEAN, SetRed
<1>4. r[n].red = b
  BY <1>2, <1>3
<1>5. r[n].red
  BY <1>1, <1>4, Zenon
<1> QED BY <1>2, <1>3, <1>5 DEF PaintsRed

-----------------------------------------------------------------------------
(* Insert_Balance *)

\* n is red, and its parent may be.
InsertState(h, D, n, sub, nb) ==
  /\ Tree(h, D, sub) /\ Even(h, D, nb) /\ n \in D \ {Nill} /\ h[n].red /\ ~h[Nill].red
  /\ RedBut(h, D, n) /\ (Root(h) = n \/ ~h[Root(h)].red)

\* A rotation ends it.
Outer(h, n) ==
  /\ h[h[n].parent].red /\ ~h[GetUnclePointer(h, n)].red
  /\ Dir(h, n) = Dir(h, h[n].parent)

\* It is done in b turns.
InsertGood(h, D, n, b) ==
  \E sub \in [D -> SUBSET D], nb \in [D -> Nat] :
    /\ InsertState(h, D, n, sub, nb)
    /\ \/ b >= Cardinality(D) - Cardinality(sub[n]) + 2
       \/ b >= 1 /\ Outer(h, n)

\* A root becomes black.
LEMMA InsertRoot ==
  ASSUME NEW D, NEW h \in Heaps(D), NEW n, NEW sub, NEW nb, InsertState(h, D, n, sub, nb), n = Root(h),
         NEW r, r = Blacken(h, n)
  PROVE  r \in Heaps(D) /\ SameData(h, r, D) /\ \E s \in [D -> SUBSET D], c \in [D -> Nat] : Tree(r, D, s) /\ Balanced(r, D, c)
<1>1. /\ Tree(h, D, sub) /\ Even(h, D, nb) /\ n \in D \ {Nill} /\ h[n].red /\ ~h[Nill].red
      /\ RedBut(h, D, n)
  BY DEF InsertState
<1>2. Rooted(h, D, sub) /\ Joined(h, D)
  BY <1>1 DEF Tree
<1>3. /\ r \in Heaps(D)
      /\ \A x \in D : /\ r[x].data = h[x].data /\ r[x].parent = h[x].parent /\ r[x].child = h[x].child
                      /\ x # n => r[x].red = h[x].red
      /\ ~r[n].red
  BY ONLY <1>1, h \in Heaps(D), r = Blacken(h, n), PaintBlack DEF PaintsBlack
<1>4. Tree(r, D, sub)
  <2>1. \A x \in D : /\ r[x].data = h[x].data /\ (x # Nill => r[x].parent = h[x].parent)
                     /\ \A d \in Sides : r[x].child[d] = h[x].child[d]
    BY <1>3
  <2> QED BY ONLY <1>1, <2>1, SameTree
<1> DEFINE c == [x \in D |-> IF x = n THEN nb[n] + 1 ELSE nb[x]]
<1>5. nb \in [D -> Nat \ {0}] /\ nb[Nill] = 1 /\ \A x \in D \ {Nill} : EvenAt(h, nb, x)
  BY <1>1 DEF Even
<1>6. c \in [D -> Nat \ {0}] /\ c[Nill] = 1 /\ c[n] = nb[n] + 1 /\ \A x \in D \ {n} : c[x] = nb[x]
  BY <1>1, <1>2, <1>5 DEF Rooted
<1> HIDE DEF c
<1>7. h[n].parent = Nill
  BY <1>1, <1>2, SideFacts DEF Joined, Rooted, Root
<1>8. \A x \in D \ {Nill}, d \in Sides : h[x].child[d] \in D \ {n}
  BY <1>1, <1>2, <1>7 DEF Joined
<1>9. ASSUME NEW x \in D \ {Nill}, NEW d \in Sides
      PROVE  (r[x].red => c[x] = c[r[x].child[d]]) /\ (~r[x].red => c[x] = c[r[x].child[d]] + 1)
  <2>1. r[x].child[d] = h[x].child[d] /\ c[h[x].child[d]] = nb[h[x].child[d]] /\ nb[h[x].child[d]] \in Nat
    BY <1>3, <1>5, <1>6, <1>8
  <2>2. (h[x].red => nb[x] = nb[h[x].child[d]]) /\ (~h[x].red => nb[x] = nb[h[x].child[d]] + 1)
    BY <1>5 DEF EvenAt
  <2>3. CASE x = n
    <3>1. nb[x] = nb[h[x].child[d]] /\ c[x] = nb[x] + 1 /\ ~r[x].red
      BY <1>1, <1>3, <1>6, <2>2, <2>3
    <3> QED BY <2>1, <3>1
  <2>4. CASE x # n
    BY <1>3, <1>6, <2>1, <2>2, <2>4
  <2> QED BY <2>3, <2>4
<1>10. Even(r, D, c)
  BY <1>6, <1>9 DEF Even, EvenAt
<1>11. \A x \in D \ {Nill}, d \in Sides : ~r[x].red \/ ~r[r[x].child[d]].red
  <2> TAKE x \in D \ {Nill}, d \in Sides
  <2>1. h[x].child[d] \in D \ {n} /\ r[x].child[d] = h[x].child[d]
    BY <1>3, <1>8
  <2>2. ~h[x].red \/ ~h[h[x].child[d]].red
    BY <1>1, <2>1 DEF RedBut
  <2>3. r[h[x].child[d]].red = h[h[x].child[d]].red
    BY <1>3, <2>1
  <2>4. ~r[x].red \/ r[x].red = h[x].red
    BY <1>3
  <2> QED BY <2>1, <2>2, <2>3, <2>4
<1>12. Root(r) = n /\ ~r[n].red /\ ~r[Nill].red
  BY <1>1, <1>2, <1>3, Zenon DEF Root, Rooted
<1>13. Balanced(r, D, c)
  BY <1>10, <1>11, <1>12 DEF Balanced
<1>14. sub \in [D -> SUBSET D] /\ c \in [D -> Nat]
  BY <1>2, <1>6 DEF Rooted
<1> QED BY <1>3, <1>4, <1>13, <1>14 DEF SameData

\* Under a black parent all is well.
LEMMA InsertBlack ==
  ASSUME NEW D, NEW h, NEW n, NEW sub, NEW nb, InsertState(h, D, n, sub, nb), n # Root(h), ~h[h[n].parent].red
  PROVE  Balanced(h, D, nb)
<1>1. /\ Tree(h, D, sub) /\ Even(h, D, nb) /\ n \in D \ {Nill} /\ ~h[Nill].red
      /\ RedBut(h, D, n) /\ ~h[Root(h)].red
  BY DEF InsertState
<1>2. Joined(h, D)
  BY <1>1 DEF Tree
<1>3. ASSUME NEW x \in D \ {Nill}, NEW d \in Sides PROVE ~h[x].red \/ ~h[h[x].child[d]].red
  <2>1. CASE h[x].child[d] = n
    <3>1. h[n].parent = x
      BY <1>1, <1>2, <2>1 DEF Joined
    <3> QED BY <3>1
  <2>2. CASE h[x].child[d] # n
    BY <1>1, <2>2 DEF RedBut
  <2> QED BY <2>1, <2>2
<1> QED BY <1>1, <1>3 DEF Balanced

\* Parent, grandparent and uncle of a red node under a red one.
Family(D, h, n, sub, p, g, u, dir) ==
  /\ p \in D \ {Nill} /\ g \in D \ {Nill} /\ u \in D /\ dir \in Sides /\ Dir(h, n) \in Sides
  /\ n # p /\ n # g /\ p # g /\ u # n /\ u # p /\ u # g
  /\ h[p].child[Dir(h, n)] = n /\ h[p].child[Other(Dir(h, n))] # n
  /\ h[g].child[dir] = p /\ h[g].child[Other(dir)] = u /\ h[p].parent = g /\ p # Root(h)
  /\ ~h[g].red /\ ~h[Root(h)].red /\ (u # Nill => h[u].parent = g)
  /\ g \notin sub[n] /\ sub[n] \subseteq sub[g] /\ g \in sub[g]

\* Who is who around a red node under a red one.
LEMMA InsertFamily ==
  ASSUME NEW D, NEW h, NEW n, NEW sub, NEW nb, InsertState(h, D, n, sub, nb), n # Root(h), h[h[n].parent].red,
         NEW p, p = h[n].parent, NEW g, g = GetGrandpaPointer(h, n), NEW u, u = GetUnclePointer(h, n),
         NEW dir, dir = Dir(h, p)
  PROVE  Family(D, h, n, sub, p, g, u, dir)
<1>1. /\ Tree(h, D, sub) /\ Even(h, D, nb) /\ n \in D \ {Nill} /\ h[n].red /\ ~h[Nill].red
      /\ RedBut(h, D, n) /\ ~h[Root(h)].red
  BY DEF InsertState
<1>2. Rooted(h, D, sub) /\ Joined(h, D)
  BY <1>1 DEF Tree
<1>3. /\ p \in D \ {Nill} /\ Dir(h, n) \in Sides /\ h[p].child[Dir(h, n)] = n
      /\ h[p].child[Other(Dir(h, n))] # n
      /\ n # p /\ p \notin sub[n] /\ sub[n] \subseteq sub[p] /\ n \in sub[p]
  <2>1. p # Nill
    BY <1>1
  <2> QED BY <1>1, <2>1, OneSide
<1>4. p # Root(h)
  BY <1>1
<1>5. g = h[p].parent
  BY DEF GetGrandpaPointer
<1>6. /\ g \in D /\ dir \in Sides /\ h[g].child[dir] = p /\ h[g].child[Other(dir)] # p
      /\ g = Nill => p = Root(h)
      /\ g # Nill => p # g /\ g \notin sub[p] /\ sub[p] \subseteq sub[g] /\ p \in sub[g]
  BY ONLY <1>1, <1>3, <1>5, dir = Dir(h, p), OneSide
<1>7. g \in D \ {Nill} /\ p # g /\ g \notin sub[p] /\ sub[p] \subseteq sub[g]
  BY <1>4, <1>6
<1>8. u = h[g].child[Other(dir)]
  BY DEF GetUnclePointer
<1>9. Other(dir) \in Sides /\ Other(Other(dir)) = dir
  BY <1>6, SideFacts
<1>10. u \in D /\ u # p /\ u # g /\ (u # Nill => h[u].parent = g) /\ g \in sub[g]
  <2>1. u \in D /\ g \in sub[g] /\ (u # Nill => u # g /\ h[u].parent = g)
    BY ONLY <1>1, <1>7, <1>8, <1>9, Below
  <2> QED BY <1>6, <1>7, <1>8, <2>1, Zenon
<1>11. u # n
  BY <1>1, <1>7, <1>10
<1>12. ~h[g].red
  <2>1. h[g].child[dir] = n \/ ~h[g].red \/ ~h[h[g].child[dir]].red
    BY <1>1, <1>6, <1>7, Zenon DEF RedBut
  <2> QED BY <1>3, <1>6, <2>1, Zenon
<1>13. n # g /\ g \notin sub[n] /\ sub[n] \subseteq sub[g]
  BY <1>3, <1>7
<1> QED BY <1>1, <1>3, <1>4, <1>5, <1>6, <1>7, <1>8, <1>10, <1>11, <1>12, <1>13, Zenon DEF Family

\* r is h with the balance to be restored at g.
Recoloured(D, h, n, sub, g, r) ==
  /\ r \in Heaps(D) /\ SameData(h, r, D) /\ \E c \in [D -> Nat] : InsertState(r, D, g, sub, c)
  /\ Cardinality(sub[n]) < Cardinality(sub[g])

\* A red uncle and a red parent become black, and the grandparent red.
LEMMA InsertRecolour ==
  ASSUME NEW D, NEW h \in Heaps(D), NEW n, NEW sub, NEW nb, InsertState(h, D, n, sub, nb), n # Root(h), h[h[n].parent].red,
         NEW p, p = h[n].parent, NEW g, g = GetGrandpaPointer(h, n), NEW u, u = GetUnclePointer(h, n), h[u].red,
         NEW r, r = [h EXCEPT ![p].red = FALSE, ![u].red = FALSE, ![g].red = TRUE]
  PROVE  Recoloured(D, h, n, sub, g, r)
<1> DEFINE dir == Dir(h, p)
<1>1. /\ Tree(h, D, sub) /\ Even(h, D, nb) /\ n \in D \ {Nill} /\ h[n].red /\ ~h[Nill].red
      /\ RedBut(h, D, n)
  BY Zenon DEF InsertState
<1>2. Rooted(h, D, sub) /\ Joined(h, D)
  BY <1>1, Zenon DEF Tree
<1>3. /\ p \in D \ {Nill} /\ g \in D \ {Nill} /\ u \in D /\ dir \in Sides
      /\ n # p /\ n # g /\ p # g /\ u # n /\ u # p /\ u # g
      /\ h[g].child[dir] = p /\ h[g].child[Other(dir)] = u /\ h[p].parent = g
      /\ ~h[g].red /\ ~h[Root(h)].red /\ (u # Nill => h[u].parent = g)
      /\ g \notin sub[n] /\ sub[n] \subseteq sub[g] /\ g \in sub[g]
  <2>1. Family(D, h, n, sub, p, g, u, dir)
    BY InsertFamily, Zenon
  <2> QED BY <2>1, Zenon DEF Family
<1> HIDE DEF dir
<1>4. u # Nill
  BY <1>1, Zenon
<1>5. /\ r \in Heaps(D)
      /\ \A x \in D : /\ r[x].data = h[x].data /\ r[x].parent = h[x].parent /\ r[x].child = h[x].child
                      /\ x \notin {g, p, u} => r[x].red = h[x].red
      /\ r[g].red /\ ~r[p].red /\ ~r[u].red
  <2> DEFINE h1 == Blacken(h, p)
             h2 == Blacken(h1, u)
             h3 == Redden(h2, g)
  <2>1. r = h3
    BY Zenon DEF Painted, Blacken, Redden
  <2>2. /\ h1 \in Heaps(D)
        /\ \A x \in D : /\ h1[x].data = h[x].data /\ h1[x].parent = h[x].parent /\ h1[x].child = h[x].child
                        /\ x # p => h1[x].red = h[x].red
        /\ ~h1[p].red
    <3>1. p \in D /\ h1 = Blacken(h, p)
      BY <1>3, Zenon
    <3> HIDE DEF h1
    <3> QED BY ONLY <3>1, h \in Heaps(D), PaintBlack DEF PaintsBlack
  <2> HIDE DEF h1
  <2>3. /\ h2 \in Heaps(D)
        /\ \A x \in D : /\ h2[x].data = h1[x].data /\ h2[x].parent = h1[x].parent /\ h2[x].child = h1[x].child
                        /\ x # u => h2[x].red = h1[x].red
        /\ ~h2[u].red
    <3>1. u \in D /\ h1 \in Heaps(D) /\ h2 = Blacken(h1, u)
      BY <1>3, <2>2, Zenon
    <3> HIDE DEF h2
    <3> QED BY ONLY <3>1, PaintBlack DEF PaintsBlack
  <2> HIDE DEF h2
  <2>4. /\ h3 \in Heaps(D)
        /\ \A x \in D : /\ h3[x].data = h2[x].data /\ h3[x].parent = h2[x].parent /\ h3[x].child = h2[x].child
                        /\ x # g => h3[x].red = h2[x].red
        /\ h3[g].red
    <3>1. g \in D /\ h2 \in Heaps(D) /\ h3 = Redden(h2, g)
      BY <1>3, <2>3, Zenon
    <3> HIDE DEF h3
    <3> QED BY ONLY <3>1, PaintRed DEF PaintsRed
  <2> HIDE DEF h3
  <2>5. \A x \in D : x \notin {g, p, u} => r[x].red = h[x].red
    BY ONLY <2>1, <2>2, <2>3, <2>4
  <2>6. r[p].red = h1[p].red /\ r[u].red = h2[u].red
    BY ONLY <1>3, <2>1, <2>2, <2>3, <2>4
  <2>7. \A x \in D : r[x].data = h[x].data /\ r[x].parent = h[x].parent /\ r[x].child = h[x].child
    BY ONLY <2>1, <2>2, <2>3, <2>4
  <2> QED BY <2>1, <2>2, <2>3, <2>4, <2>5, <2>6, <2>7, Zenon
<1>6. Tree(r, D, sub)
  <2>1. \A x \in D : /\ r[x].data = h[x].data /\ (x # Nill => r[x].parent = h[x].parent)
                     /\ \A d \in Sides : r[x].child[d] = h[x].child[d]
    BY <1>5, Zenon
  <2> QED BY ONLY <1>1, <2>1, SameTree
<1> DEFINE c == [x \in D |-> IF x = p \/ x = u THEN nb[x] + 1 ELSE nb[x]]
<1>7. nb \in [D -> Nat \ {0}] /\ nb[Nill] = 1 /\ \A x \in D \ {Nill} : EvenAt(h, nb, x)
  BY <1>1, Zenon DEF Even
<1>8. /\ c \in [D -> Nat \ {0}] /\ c[Nill] = 1
      /\ \A x \in D : c[x] = IF x = p \/ x = u THEN nb[x] + 1 ELSE nb[x]
  <2>1. Nill \in D
    BY <1>2, Zenon DEF Rooted
  <2> QED BY <1>3, <1>4, <1>7, <2>1
<1> HIDE DEF c
<1>9. ASSUME NEW x \in D \ {Nill}, NEW d \in Sides
      PROVE  (r[x].red => c[x] = c[r[x].child[d]]) /\ (~r[x].red => c[x] = c[r[x].child[d]] + 1)
  <2> DEFINE k == h[x].child[d]
  <2>1. r[x].child[d] = k /\ k \in D /\ nb[k] \in Nat /\ nb[x] \in Nat
        /\ (k # Nill => h[k].parent = x /\ k # x)
    <3>1. k \in D /\ (k # Nill => h[k].parent = x /\ k # x)
      BY ONLY <1>1, x \in D \ {Nill}, d \in Sides, Child
    <3> QED BY <1>5, <1>7, <3>1, Zenon
  <2>2. (h[x].red => nb[x] = nb[k]) /\ (~h[x].red => nb[x] = nb[k] + 1)
    BY <1>7, Zenon DEF EvenAt
  <2>3. CASE x = g
    <3>1. k = p \/ k = u
      BY <1>3, <2>3, SideFacts
    <3> HIDE DEF k
    <3>2. c[k] = nb[k] + 1 /\ c[x] = nb[x] /\ r[x].red /\ ~h[x].red
      <4>1. x \in D /\ x # p /\ x # u /\ r[g].red /\ ~h[g].red
        BY <1>3, <1>4, <1>5, <2>3, Zenon
      <4>2. c[k] = nb[k] + 1 /\ c[x] = nb[x]
        BY ONLY <1>8, <2>1, <3>1, <4>1
      <4> QED BY ONLY <2>3, <4>1, <4>2
    <3> QED BY <2>1, <2>2, <3>2, Zenon
  <2>4. CASE x # g
    <3>1. k # p /\ k # u
      BY <1>3, <1>4, <2>1, <2>4, Zenon
    <3> HIDE DEF k
    <3>2. c[k] = nb[k]
      BY <1>8, <2>1, <3>1, Zenon
    <3>3. CASE x = p \/ x = u
      <4>1. h[x].red /\ ~r[x].red /\ c[x] = nb[x] + 1
        BY <1>5, <1>8, <3>3, Zenon
      <4> QED BY <2>1, <2>2, <3>2, <4>1, Zenon
    <3>4. CASE ~(x = p \/ x = u)
      <4>1. r[x].red = h[x].red /\ c[x] = nb[x]
        BY <1>5, <1>8, <2>4, <3>4, Zenon
      <4> QED BY <2>1, <2>2, <3>2, <4>1, Zenon
    <3> QED BY <3>3, <3>4, Zenon
  <2> QED BY <2>3, <2>4, Zenon
<1>10. Even(r, D, c)
  BY <1>8, <1>9, Zenon DEF Even, EvenAt
<1>11. RedBut(r, D, g)
  <2> SUFFICES ASSUME NEW x \in D \ {Nill}, NEW d \in Sides, r[x].child[d] # g, r[x].red
               PROVE  ~r[r[x].child[d]].red
    BY Zenon DEF RedBut
  <2> DEFINE k == h[x].child[d]
  <2>1. r[x].child[d] = k /\ k \in D /\ k # g
    <3>1. k \in D
      BY ONLY <1>1, x \in D \ {Nill}, d \in Sides, Child
    <3>2. r[x].child[d] = k
      BY <1>5, Zenon
    <3> QED BY <3>1, <3>2, Zenon
  <2>2. x # p /\ x # u
    BY <1>3, <1>5, Zenon
  <2>3. CASE x = g
    <3>1. k = p \/ k = u
      BY <1>3, <2>3, SideFacts
    <3> HIDE DEF k
    <3> QED BY <1>3, <1>5, <2>1, <3>1, Zenon
  <2>4. CASE x # g
    <3>1. h[x].red
      BY <1>5, <2>2, <2>4, Zenon
    <3>2. k # n
      <4>1. k # Nill => h[k].parent = x
        BY ONLY <1>1, x \in D \ {Nill}, d \in Sides, Child
      <4> QED BY <1>1, <1>2, <2>2, <4>1, Zenon
    <3>3. ~h[k].red
      BY <1>1, <3>1, <3>2, Zenon DEF RedBut
    <3> HIDE DEF k
    <3> QED BY <1>5, <2>1, <3>3, Zenon
  <2> QED BY <2>3, <2>4, Zenon
<1>12. Root(r) = Root(h) /\ Root(h) \in D /\ Nill \in D
  BY <1>2, <1>5, SideFacts, Zenon DEF Root, Rooted, Joined
<1>13. Root(r) = g \/ ~r[Root(r)].red
  BY <1>3, <1>5, <1>12, Zenon
<1>14. r[g].red /\ ~r[Nill].red
  BY <1>1, <1>3, <1>4, <1>5, <1>12, Zenon
<1>15. InsertState(r, D, g, sub, c)
  BY <1>3, <1>6, <1>10, <1>11, <1>13, <1>14, Zenon DEF InsertState
<1>16. Cardinality(sub[n]) < Cardinality(sub[g])
  <2>1. IsFiniteSet(D) /\ sub[g] \subseteq D
    BY <1>2, <1>3, Zenon DEF Rooted
  <2>2. IsFiniteSet(sub[g])
    BY <2>1, FS_Subset, Zenon
  <2>3. IsFiniteSet(sub[n]) /\ Cardinality(sub[n]) <= Cardinality(sub[g]) /\ Cardinality(sub[n]) # Cardinality(sub[g])
    BY <1>3, <2>2, FS_Subset, Zenon
  <2> QED BY <2>2, <2>3, FS_CardinalityType
<1>17. c \in [D -> Nat]
  BY <1>8, Zenon
<1> QED BY <1>5, <1>15, <1>16, <1>17, Zenon DEF SameData, Recoloured

-----------------------------------------------------------------------------
(* Rotations that keep the numbers of black nodes *)

\* r is h with n turned down on side dir and up in its place.
Shape(h, r, T, dir, n, up) ==
  /\ \A x \in T : r[x].data = h[x].data
  /\ \A x \in T \ {n, up}, d \in Sides :
       (h[x].child[d] = n /\ r[x].child[d] = up) \/ (h[x].child[d] # n /\ r[x].child[d] = h[x].child[d])
  /\ r[n].child[dir] = h[n].child[dir] /\ r[n].child[Other(dir)] = h[up].child[dir]
  /\ r[up].child[dir] = n /\ r[up].child[Other(dir)] = h[up].child[Other(dir)]
  /\ r[n].parent = up /\ r[up].parent = h[n].parent
  /\ \A x \in T \ {n, up} : (x # h[up].child[dir] \/ x = Nill) => r[x].parent = h[x].parent

SameColour(h, r, T) == \A x \in T : r[x].red = h[x].red

\* Painting leaves all but colours.
Alike(h, r, T) ==
  \A x \in T : /\ r[x].data = h[x].data /\ r[x].parent = h[x].parent
               /\ \A d \in Sides : r[x].child[d] = h[x].child[d]

\* Painting leaves a tree a tree.
LEMMA AlikeTree ==
  ASSUME NEW h, NEW r, NEW T, NEW sub, Tree(h, T, sub), Alike(h, r, T)
  PROVE  Tree(r, T, sub)
<1>1. \A x \in T : /\ r[x].data = h[x].data /\ (x # Nill => r[x].parent = h[x].parent)
                   /\ \A d \in Sides : r[x].child[d] = h[x].child[d]
  BY DEF Alike
<1> QED BY <1>1, SameTree

\* Turning what is painted, and painting what is turned, are turned.
LEMMA ShapeAlike ==
  ASSUME NEW h, NEW k, NEW r, NEW t, NEW T, NEW sub, Tree(h, T, sub),
         Alike(h, k, T), Alike(r, t, T), NEW dir \in Sides,
         NEW n \in T \ {Nill}, NEW up \in T \ {Nill}, Shape(k, r, T, dir, n, up)
  PROVE  Shape(h, t, T, dir, n, up)
<1>1. Other(dir) \in Sides
  BY SideFacts
<1>2. \A x \in T : /\ k[x].data = h[x].data /\ k[x].parent = h[x].parent
                   /\ \A d \in Sides : k[x].child[d] = h[x].child[d]
  BY DEF Alike
<1>3. \A x \in T : /\ t[x].data = r[x].data /\ t[x].parent = r[x].parent
                   /\ \A d \in Sides : t[x].child[d] = r[x].child[d]
  BY DEF Alike
<1>4. \A x \in T : t[x].data = h[x].data
  BY <1>2, <1>3 DEF Shape
<1>5. ASSUME NEW x \in T \ {n, up}, NEW d \in Sides
      PROVE  (h[x].child[d] = n /\ t[x].child[d] = up) \/ (h[x].child[d] # n /\ t[x].child[d] = h[x].child[d])
  <2>1. (k[x].child[d] = n /\ r[x].child[d] = up) \/ (k[x].child[d] # n /\ r[x].child[d] = k[x].child[d])
    BY DEF Shape
  <2> QED BY <1>2, <1>3, <2>1
<1>6. /\ t[n].child[dir] = h[n].child[dir] /\ t[n].child[Other(dir)] = h[up].child[dir]
      /\ t[up].child[dir] = n /\ t[up].child[Other(dir)] = h[up].child[Other(dir)]
      /\ t[n].parent = up /\ t[up].parent = h[n].parent
  <2>1. /\ r[n].child[dir] = k[n].child[dir] /\ r[n].child[Other(dir)] = k[up].child[dir]
        /\ r[up].child[dir] = n /\ r[up].child[Other(dir)] = k[up].child[Other(dir)]
        /\ r[n].parent = up /\ r[up].parent = k[n].parent
    BY DEF Shape
  <2> QED BY <1>1, <1>2, <1>3, <2>1
<1>7. ASSUME NEW x \in T \ {n, up}, x # h[up].child[dir] \/ x = Nill PROVE t[x].parent = h[x].parent
  <2>1. x # k[up].child[dir] \/ x = Nill
    BY <1>2, <1>7
  <2>2. r[x].parent = k[x].parent
    BY <2>1 DEF Shape
  <2> QED BY <1>2, <1>3, <2>2
<1> QED BY <1>4, <1>5, <1>6, <1>7 DEF Shape

\* r is the heap h, a tree in which n has been turned.
Turned(D, h, T, dir, n, up, r) ==
  /\ r \in Heaps(D) /\ \E s \in [T -> SUBSET T] : Tree(r, T, s)
  /\ up \in T \ {Nill} /\ up # n /\ h[n].parent # up /\ h[n].parent # n
  /\ SameColour(h, r, D) /\ SameData(h, r, D) /\ Shape(h, r, T, dir, n, up)

\* What Rotate_Node makes of a tree.
LEMMA RotateShape ==
  ASSUME NEW D, IsFiniteSet(D), NEW h \in Heaps(D), NEW T \in SUBSET D, NEW sub, Tree(h, T, sub),
         NEW dir \in Sides, NEW n \in T \ {Nill},
         NEW up, up = h[n].child[Other(dir)], up # Nill,
         NEW r, r = Rotate_Node(h, h[n].data, dir)
  PROVE  Turned(D, h, T, dir, n, up, r)
<1> DEFINE p == h[n].parent
           o == Other(dir)
           bump == h[up].child[dir]
<1>1. /\ r \in Heaps(D) /\ \E s \in [T -> SUBSET T] : Tree(r, T, s)
      /\ up \in T \ {Nill} /\ p \in T /\ bump \in T /\ up # n /\ up # p /\ n # p /\ bump # n /\ bump # up
      /\ \A x \in D :
              /\ r[x].data = h[x].data /\ r[x].red = h[x].red
              /\ r[x].parent = IF x = up THEN p ELSE IF x = n THEN up
                               ELSE IF x = bump /\ x # Nill THEN n ELSE h[x].parent
              /\ \A d \in Sides :
                   r[x].child[d] = IF x = p /\ d = Dir(h, n) THEN up
                                   ELSE IF x = n /\ d = Other(dir) THEN bump
                                   ELSE IF x = up /\ d = dir THEN n ELSE h[x].child[d]
  <2>1. bump = h[up].child[dir] /\ p = h[n].parent
    OBVIOUS
  <2> HIDE DEF bump, p
  <2>2. Rotates(D, h, T, dir, n, up, bump, p, r)
    BY <2>1, RotateKeeps, Zenon
  <2> QED BY ONLY <2>2 DEF Rotates
<1>2. o \in Sides /\ o # dir
  BY SideFacts
<1>3. /\ Dir(h, n) \in Sides /\ h[p].child[Dir(h, n)] = n /\ \A d \in Sides : h[p].child[d] = n => d = Dir(h, n)
  BY OneSide
<1>4. Joined(h, T) /\ Rooted(h, T, sub)
  BY DEF Tree
<1>5. ASSUME NEW x \in T \ {n, up}, NEW d \in Sides
      PROVE  (h[x].child[d] = n /\ r[x].child[d] = up) \/ (h[x].child[d] # n /\ r[x].child[d] = h[x].child[d])
  <2>1. r[x].child[d] = IF x = p /\ d = Dir(h, n) THEN up ELSE h[x].child[d]
    <3>1. r[x].child[d] = IF x = p /\ d = Dir(h, n) THEN up
                                   ELSE IF x = n /\ d = Other(dir) THEN bump
                                   ELSE IF x = up /\ d = dir THEN n ELSE h[x].child[d]
      BY <1>1
    <3> QED BY ONLY <3>1, <1>5
  <2>2. h[x].child[d] = n => x = p /\ d = Dir(h, n)
    <3>1. h[x].child[d] = n => x = p
      BY <1>4 DEF Joined
    <3> QED BY <1>3, <3>1
  <2> QED BY ONLY <2>1, <2>2, <1>3
<1>6. r[n].child[dir] = h[n].child[dir] /\ r[n].child[o] = bump
  <2>1. \A d \in Sides : r[n].child[d] = IF n = p /\ d = Dir(h, n) THEN up
                                   ELSE IF n = n /\ d = Other(dir) THEN bump
                                   ELSE IF n = up /\ d = dir THEN n ELSE h[n].child[d]
    BY <1>1, Zenon
  <2>2. \A d \in Sides : r[n].child[d] = IF d = o THEN bump ELSE h[n].child[d]
    BY ONLY <1>1, <2>1
  <2> QED BY ONLY <1>2, <2>2, dir \in Sides
<1>7. r[up].child[dir] = n /\ r[up].child[o] = h[up].child[o]
  <2>1. \A d \in Sides : r[up].child[d] = IF up = p /\ d = Dir(h, n) THEN up
                                   ELSE IF up = n /\ d = Other(dir) THEN bump
                                   ELSE IF up = up /\ d = dir THEN n ELSE h[up].child[d]
    BY <1>1, Zenon
  <2>2. \A d \in Sides : r[up].child[d] = IF d = dir THEN n ELSE h[up].child[d]
    BY ONLY <1>1, <2>1
  <2> QED BY ONLY <1>2, <2>2, dir \in Sides
<1>8. \A x \in T : r[x].parent = IF x = up THEN p ELSE IF x = n THEN up
                               ELSE IF x = bump /\ x # Nill THEN n ELSE h[x].parent
  BY <1>1, Zenon
<1>9. r[n].parent = up /\ r[up].parent = p
  BY ONLY <1>1, <1>8, n \in T \ {Nill}
<1>10. \A x \in T \ {n, up} : (x # bump \/ x = Nill) => r[x].parent = h[x].parent
  BY ONLY <1>8
<1>11. \A x \in T : r[x].data = h[x].data
  BY <1>1, Zenon
<1>12. Shape(h, r, T, dir, n, up)
  BY ONLY <1>5, <1>6, <1>7, <1>9, <1>10, <1>11 DEF Shape, o, p, bump
<1>13. SameColour(h, r, D) /\ SameData(h, r, D)
  BY <1>1, Zenon DEF SameColour, SameData
<1> QED BY <1>1, <1>12, <1>13, Zenon DEF Turned

-----------------------------------------------------------------------------
Blk(h, x) == IF h[x].red THEN 0 ELSE 1
Lack(x, d, p, e) == IF x = p /\ d = e THEN 1 ELSE 0

\* As Even, but that a black node is missing on the side e of p.
EvenWith(h, T, nb, p, e) ==
  /\ nb \in [T -> Nat \ {0}] /\ nb[Nill] = 1
  /\ \A x \in T \ {Nill}, d \in Sides : nb[x] = nb[h[x].child[d]] + Blk(h, x) + Lack(x, d, p, e)

\* A black node counts 1, a red one 0.
LEMMA BlkFacts ==
  ASSUME NEW h, NEW x
  PROVE  /\ Blk(h, x) \in 0 .. 1 /\ (Blk(h, x) = 0 <=> h[x].red) /\ (Blk(h, x) = 1 <=> ~h[x].red)
<1>1. CASE h[x].red
  BY <1>1 DEF Blk
<1>2. CASE ~h[x].red
  BY <1>2 DEF Blk
<1> QED BY <1>1, <1>2

\* With no side short, the numbers are those of a balanced tree.
LEMMA EvenIsEven ==
  ASSUME NEW h, NEW T, NEW sub, NEW nb, Tree(h, T, sub)
  PROVE  Even(h, T, nb) <=> EvenWith(h, T, nb, Nill, LEFT)
<1>1. ASSUME NEW x \in T \ {Nill}, NEW d \in Sides PROVE h[x].child[d] \in T /\ Lack(x, d, Nill, LEFT) = 0
  BY Below DEF Lack
<1>2. ASSUME Even(h, T, nb) PROVE EvenWith(h, T, nb, Nill, LEFT)
  <2>1. nb \in [T -> Nat \ {0}] /\ nb[Nill] = 1
    BY <1>2 DEF Even
  <2>2. ASSUME NEW x \in T \ {Nill}, NEW d \in Sides
        PROVE  nb[x] = nb[h[x].child[d]] + Blk(h, x) + Lack(x, d, Nill, LEFT)
    <3>1. (h[x].red => nb[x] = nb[h[x].child[d]]) /\ (~h[x].red => nb[x] = nb[h[x].child[d]] + 1)
      BY <1>2 DEF Even, EvenAt
    <3>2. nb[h[x].child[d]] \in Nat
      BY <1>1, <2>1
    <3> QED BY <1>1, <3>1, <3>2, BlkFacts
  <2> QED BY <2>1, <2>2 DEF EvenWith
<1>3. ASSUME EvenWith(h, T, nb, Nill, LEFT) PROVE Even(h, T, nb)
  <2>1. nb \in [T -> Nat \ {0}] /\ nb[Nill] = 1
    BY <1>3 DEF EvenWith
  <2>2. ASSUME NEW x \in T \ {Nill}, NEW d \in Sides
        PROVE  (h[x].red => nb[x] = nb[h[x].child[d]]) /\ (~h[x].red => nb[x] = nb[h[x].child[d]] + 1)
    <3>1. nb[x] = nb[h[x].child[d]] + Blk(h, x) + Lack(x, d, Nill, LEFT)
      BY <1>3 DEF EvenWith
    <3>2. nb[h[x].child[d]] \in Nat
      BY <1>1, <2>1
    <3> QED BY <1>1, <3>1, <3>2, BlkFacts
  <2> QED BY <2>1, <2>2 DEF Even, EvenAt
<1> QED BY <1>2, <1>3

-----------------------------------------------------------------------------
\* n and up change colours as they change places.
Exchanged(h, t, T, n, up) ==
  /\ (t[n].red <=> h[up].red) /\ (t[up].red <=> h[n].red)
  /\ \A x \in T \ {n, up} : t[x].red <=> h[x].red

\* If up was red the paths stay even.
LEMMA ExchangeEven ==
  ASSUME NEW h, NEW T, NEW sub, Tree(h, T, sub), NEW dir \in Sides, NEW n \in T \ {Nill},
         NEW up, up = h[n].child[Other(dir)], up # Nill, h[up].red,
         NEW t, Shape(h, t, T, dir, n, up), Exchanged(h, t, T, n, up),
         NEW nb, NEW p, NEW e, EvenWith(h, T, nb, p, e), p # up, p = n => e = dir,
         NEW c, c = [x \in T |-> IF x = n THEN nb[up] ELSE IF x = up THEN nb[n] ELSE nb[x]]
  PROVE  EvenWith(t, T, c, p, e)
<1> DEFINE o == Other(dir)
           near == h[n].child[dir]
           bump == h[up].child[dir]
           far == h[up].child[o]
<1>1. /\ nb \in [T -> Nat \ {0}] /\ nb[Nill] = 1
      /\ \A x \in T \ {Nill}, d \in Sides : nb[x] = nb[h[x].child[d]] + Blk(h, x) + Lack(x, d, p, e)
  BY DEF EvenWith
<1>2. o \in Sides /\ o # dir /\ Other(o) = dir /\ \A d \in Sides : d = dir \/ d = o
  BY SideFacts
<1>3. up \in T \ {Nill} /\ up # n /\ h[up].parent = n /\ near \in T /\ near # up /\ near # n
  <2>1. /\ n \in sub[n] /\ up \in T /\ near \in T /\ n \notin sub[near]
        /\ up # n /\ h[up].parent = n /\ up # near
    BY ONLY <1>2, Tree(h, T, sub), n \in T \ {Nill}, up = h[n].child[Other(dir)], up # Nill, Below, near = h[n].child[Other(o)]
  <2>2. near # n
    BY <2>1
  <2> QED BY <2>1, <2>2
<1>4. bump \in T /\ far \in T /\ bump # n /\ far # n /\ bump # up /\ far # up
  <2>1. bump \in T /\ far \in T /\ up \in sub[up] /\ up \notin sub[bump] /\ up \notin sub[far]
        /\ sub[bump] \subseteq sub[up] /\ sub[far] \subseteq sub[up]
    BY ONLY <1>3, Tree(h, T, sub), dir \in Sides, Below DEF bump, far, o
  <2>2. n \in sub[n] /\ n \notin sub[up]
    BY <1>2, Below
  <2>3. n \notin sub[bump] /\ n \notin sub[far]
    BY <2>1, <2>2, Zenon
  <2> QED BY <2>1, <2>2, <2>3, Zenon
<1>5. /\ t[n].child[dir] = near /\ t[n].child[o] = bump /\ t[up].child[dir] = n /\ t[up].child[o] = far
      /\ \A x \in T \ {n, up}, d \in Sides :
           (h[x].child[d] = n /\ t[x].child[d] = up) \/ (h[x].child[d] # n /\ t[x].child[d] = h[x].child[d])
  BY Zenon DEF Shape
<1>6. nb[n] = nb[near] + Blk(h, n) + Lack(n, dir, p, e) /\ nb[n] = nb[up] + Blk(h, n)
  <2>1. Lack(n, o, p, e) = 0
    BY <1>2 DEF Lack
  <2>2. nb[n] = nb[near] + Blk(h, n) + Lack(n, dir, p, e)
    BY <1>1
  <2>3. nb[n] = nb[up] + Blk(h, n) + Lack(n, o, p, e)
    BY <1>1, <1>2
  <2> HIDE DEF near, o
  <2>4. Blk(h, n) \in 0 .. 1 /\ nb[up] \in Nat
    BY <1>1, <1>3, BlkFacts
  <2> QED BY ONLY <2>1, <2>2, <2>3, <2>4
<1>7. nb[up] = nb[bump] /\ nb[up] = nb[far]
  <2>1. Lack(up, dir, p, e) = 0 /\ Lack(up, o, p, e) = 0 /\ Blk(h, up) = 0
    BY BlkFacts DEF Lack
  <2>2. nb[up] = nb[bump] + Blk(h, up) + Lack(up, dir, p, e) /\ nb[up] = nb[far] + Blk(h, up) + Lack(up, o, p, e)
    BY <1>1, <1>2, <1>3, Zenon
  <2>3. nb[bump] \in Nat /\ nb[far] \in Nat
    BY <1>1, <1>4, Zenon
  <2> HIDE DEF bump, far, o
  <2> QED BY ONLY <2>1, <2>2, <2>3
<1> HIDE DEF near, bump, far, o
<1>8. /\ c[n] = nb[up] /\ c[up] = nb[n] /\ \A x \in T \ {n, up} : c[x] = nb[x]
      /\ c \in [T -> Nat \ {0}] /\ c[Nill] = 1
  <2>1. Nill \in T
    BY DEF Tree, Rooted
  <2> QED BY <1>1, <1>3, <2>1, Zenon
<1>9. Blk(t, n) = 0 /\ Blk(t, up) = Blk(h, n) /\ \A x \in T \ {n, up} : Blk(t, x) = Blk(h, x)
  <2>1. t[n].red /\ (t[up].red <=> h[n].red) /\ \A x \in T \ {n, up} : t[x].red <=> h[x].red
    BY DEF Exchanged
  <2> QED BY ONLY <2>1, BlkFacts
<1>10. Lack(up, dir, p, e) = 0 /\ Lack(up, o, p, e) = 0 /\ Lack(n, o, p, e) = 0 /\ Lack(n, dir, p, e) \in 0 .. 1
  BY <1>2 DEF Lack
<1>11. Blk(h, n) \in 0 .. 1
  BY BlkFacts
<1>12. ASSUME NEW x \in T \ {Nill}, NEW d \in Sides
       PROVE  c[x] = c[t[x].child[d]] + Blk(t, x) + Lack(x, d, p, e)
  <2>1. CASE x = n /\ d = dir
    <3>1. c[near] = nb[near] /\ nb[near] \in Nat /\ nb[up] \in Nat /\ nb[n] \in Nat
      BY <1>1, <1>3, <1>8, Zenon
    <3> QED BY ONLY <2>1, <3>1, <1>5, <1>6, <1>8, <1>9, <1>10, <1>11
  <2>2. CASE x = n /\ d = o
    <3>1. c[bump] = nb[bump] /\ nb[bump] \in Nat
      BY <1>1, <1>4, <1>8, Zenon
    <3> QED BY ONLY <2>2, <3>1, <1>5, <1>7, <1>8, <1>9, <1>10
  <2>3. CASE x = up /\ d = dir
    <3>1. nb[up] \in Nat
      BY <1>1, <1>3
    <3> QED BY ONLY <2>3, <3>1, <1>5, <1>6, <1>8, <1>9, <1>10, <1>11
  <2>4. CASE x = up /\ d = o
    <3>1. c[far] = nb[far] /\ nb[far] \in Nat
      BY <1>1, <1>4, <1>8, Zenon
    <3> QED BY ONLY <2>4, <3>1, <1>5, <1>6, <1>7, <1>8, <1>9, <1>10, <1>11
  <2>5. CASE x \notin {n, up}
    <3> DEFINE k == h[x].child[d]
    <3>1. nb[x] = nb[k] + Blk(h, x) + Lack(x, d, p, e) /\ k \in T /\ (k # Nill => h[k].parent = x)
      <4>1. k \in T /\ (k # Nill => h[k].parent = x)
        BY Below
      <4> QED BY <1>1, <4>1, Zenon
    <3>2. k # up
      BY <1>3, <2>5, <3>1, Zenon
    <3>3. c[t[x].child[d]] = nb[k]
      <4>1. (k = n /\ t[x].child[d] = up) \/ (k # n /\ t[x].child[d] = k)
        BY <1>5, <2>5, Zenon
      <4> HIDE DEF k
      <4> QED BY ONLY <1>8, <3>1, <3>2, <4>1
    <3> HIDE DEF k
    <3> QED BY ONLY <1>8, <1>9, <2>5, <3>1, <3>3, x \in T \ {Nill}
  <2> QED BY <1>2, <2>1, <2>2, <2>3, <2>4, <2>5, Zenon
<1> QED BY <1>8, <1>12, Zenon DEF EvenWith

\* The nodes around a turn.
LEMMA AroundTurn ==
  ASSUME NEW h, NEW T, NEW sub, Tree(h, T, sub), NEW dir \in Sides, NEW n \in T \ {Nill},
         NEW up, up = h[n].child[Other(dir)], up # Nill,
         NEW near, near = h[n].child[dir], NEW bump, bump = h[up].child[dir], NEW far, far = h[up].child[Other(dir)]
  PROVE  /\ up \in T \ {Nill} /\ up # n /\ h[up].parent = n
         /\ near \in T /\ near # up /\ near # n /\ bump \in T /\ bump # n /\ bump # up
         /\ far \in T /\ far # n /\ far # up
         /\ \A x \in T \ {n, up}, d \in Sides : h[x].child[d] \in T /\ h[x].child[d] # up
         /\ \A d \in Sides : h[n].child[d] # n /\ h[up].child[d] # n /\ h[up].child[d] # up
<1>1. Other(dir) \in Sides /\ Other(dir) # dir /\ Other(Other(dir)) = dir /\ \A d \in Sides : d = dir \/ d = Other(dir)
  BY SideFacts
<1>2. /\ n \in sub[n] /\ up \in T /\ near \in T /\ n \notin sub[near] /\ n \notin sub[up]
      /\ up # n /\ h[up].parent = n /\ up # near
  <2>1. near = h[n].child[Other(Other(dir))]
    BY <1>1
  <2> QED BY ONLY <1>1, <2>1, Tree(h, T, sub), n \in T \ {Nill}, up = h[n].child[Other(dir)], up # Nill, Below
<1>3. /\ bump \in T /\ far \in T /\ up \in sub[up] /\ up \notin sub[bump] /\ up \notin sub[far]
      /\ sub[bump] \subseteq sub[up] /\ sub[far] \subseteq sub[up]
  <2>1. up \in T \ {Nill}
    BY <1>2
  <2> QED BY ONLY <2>1, Tree(h, T, sub), dir \in Sides, bump = h[up].child[dir], far = h[up].child[Other(dir)], Below
<1>4. near # n /\ bump # n /\ far # n /\ bump # up /\ far # up
  BY ONLY <1>2, <1>3
<1>5. Joined(h, T)
  BY DEF Tree
<1>6. ASSUME NEW x \in T \ {n, up}, NEW d \in Sides PROVE h[x].child[d] \in T /\ h[x].child[d] # up
  BY <1>2, <1>5 DEF Joined
<1>7. \A d \in Sides : h[n].child[d] = near \/ h[n].child[d] = up
  BY <1>1
<1>8. \A d \in Sides : h[up].child[d] = bump \/ h[up].child[d] = far
  BY <1>1
<1> QED BY ONLY <1>2, <1>3, <1>4, <1>6, <1>7, <1>8, up # Nill

\* No red node but w has a red child.
RedFree(h, T, w) ==
  \A x \in T \ {Nill}, d \in Sides : x = w \/ ~h[x].red \/ ~h[h[x].child[d]].red

\* A rotation that exchanges two colours leaves no red child of a red node.
LEMMA ExchangeRed ==
  ASSUME NEW h, NEW T, NEW sub, Tree(h, T, sub), NEW dir \in Sides, NEW n \in T \ {Nill},
         NEW up, up = h[n].child[Other(dir)], up # Nill, ~h[n].red,
         NEW near, near = h[n].child[dir], ~h[near].red, NEW bump, bump = h[up].child[dir], ~h[bump].red,
         NEW t, Shape(h, t, T, dir, n, up), Exchanged(h, t, T, n, up), RedFree(h, T, up)
  PROVE  RedFree(t, T, Nill)
<1> DEFINE far == h[up].child[Other(dir)]
<1>1. /\ up \in T \ {Nill} /\ up # n
      /\ near \in T /\ near # up /\ near # n /\ bump \in T /\ bump # n /\ bump # up
      /\ \A x \in T \ {n, up}, d \in Sides : h[x].child[d] \in T /\ h[x].child[d] # up
  <2>1. far = h[up].child[Other(dir)]
    BY Zenon
  <2> HIDE DEF far
  <2> QED BY <2>1, AroundTurn
<1>2. Other(dir) \in Sides /\ \A d \in Sides : d = dir \/ d = Other(dir)
  BY SideFacts, Zenon
<1>3. /\ ~t[up].red /\ \A x \in T \ {n, up} : t[x].red <=> h[x].red
  BY Zenon DEF Exchanged
<1>4. /\ t[n].child[dir] = near /\ t[n].child[Other(dir)] = bump
      /\ \A x \in T \ {n, up}, d \in Sides :
           (h[x].child[d] = n /\ t[x].child[d] = up) \/ (h[x].child[d] # n /\ t[x].child[d] = h[x].child[d])
  BY Zenon DEF Shape
<1>5. ~t[near].red /\ ~t[bump].red
  BY <1>1, <1>3, Zenon
<1>6. ASSUME NEW x \in T \ {Nill}, NEW d \in Sides PROVE ~t[x].red \/ ~t[t[x].child[d]].red
  <2>1. CASE x = n
    <3>1. t[n].child[d] = near \/ t[n].child[d] = bump
      BY <1>2, <1>4, Zenon
    <3> QED BY ONLY <3>1, <1>5, <2>1
  <2>2. CASE x = up
    BY <1>3, <2>2, Zenon
  <2>3. CASE x \notin {n, up}
    <3>1. x \in T \ {n, up} /\ (~h[x].red \/ ~h[h[x].child[d]].red)
      BY <2>3, Zenon DEF RedFree
    <3>2. CASE h[x].child[d] = n
      <4>1. t[x].child[d] = up
        BY <1>4, <3>1, <3>2, Zenon
      <4> QED BY <1>3, <4>1, Zenon
    <3>3. CASE h[x].child[d] # n
      <4>1. t[x].child[d] = h[x].child[d] /\ h[x].child[d] \in T \ {n, up}
        BY <1>1, <1>4, <3>1, <3>3, Zenon
      <4>2. (t[x].red <=> h[x].red) /\ (t[h[x].child[d]].red <=> h[h[x].child[d]].red)
        BY <1>3, <3>1, <4>1, Zenon
      <4> QED BY <3>1, <4>1, <4>2, Zenon
    <3> QED BY <3>2, <3>3, Zenon
  <2> QED BY <2>1, <2>2, <2>3, Zenon
<1> QED BY <1>6, Zenon DEF RedFree

\* The root after a turn.
LEMMA TurnRoot ==
  ASSUME NEW h, NEW T, NEW sub, Tree(h, T, sub), NEW dir \in Sides, NEW n \in T \ {Nill},
         NEW up, up = h[n].child[Other(dir)], up # Nill, NEW t, Shape(h, t, T, dir, n, up)
  PROVE  /\ Nill \in T /\ Root(h) \in T /\ Root(h) # up
         /\ Root(h) = n => Root(t) = up
         /\ Root(h) # n => Root(t) = Root(h)
<1>1. Rooted(h, T, sub) /\ Joined(h, T)
  BY DEF Tree
<1>2. Nill \in T
  BY <1>1 DEF Rooted
<1>3. Root(h) \in T
  BY <1>1, <1>2, SideFacts DEF Root, Joined
<1>4. up \in T \ {Nill} /\ h[up].parent = n
  BY SideFacts, Below
<1>5. Root(h) # up
  <2>1. Root(h) # Nill => h[Root(h)].parent = Nill
    BY <1>1, <1>2, SideFacts DEF Root, Joined
  <2> QED BY <1>4, <2>1
<1>6. Nill \in T \ {n, up}
  BY <1>2, <1>4
<1>7. (Root(h) = n /\ Root(t) = up) \/ (Root(h) # n /\ Root(t) = Root(h))
  BY <1>6, SideFacts, Zenon DEF Shape, Root
<1> QED BY ONLY <1>2, <1>3, <1>5, <1>7

\* It leaves the colour of the root and of nill_node.
LEMMA ExchangeRoot ==
  ASSUME NEW h, NEW T, NEW sub, Tree(h, T, sub), NEW dir \in Sides, NEW n \in T \ {Nill},
         NEW up, up = h[n].child[Other(dir)], up # Nill,
         NEW t, Shape(h, t, T, dir, n, up), Exchanged(h, t, T, n, up)
  PROVE  (t[Root(t)].red <=> h[Root(h)].red) /\ (t[Nill].red <=> h[Nill].red)
<1>1. /\ Nill \in T /\ Root(h) \in T /\ Root(h) # up
      /\ Root(h) = n => Root(t) = up
      /\ Root(h) # n => Root(t) = Root(h)
  BY TurnRoot
<1>2. /\ (t[up].red <=> h[n].red)
      /\ \A x \in T \ {n, up} : t[x].red <=> h[x].red
  BY DEF Exchanged
<1>3. Nill \notin {n, up}
  OBVIOUS
<1> QED BY ONLY <1>1, <1>2, <1>3

-----------------------------------------------------------------------------
(* Insert_Balance: what one call leaves *)

\* t is r with a black and b red.
PaintedPair(r, t, D, a, b) ==
  /\ t \in Heaps(D) /\ Alike(r, t, D) /\ SameData(r, t, D) /\ ~t[a].red /\ t[b].red
  /\ \A x \in D \ {a, b} : t[x].red <=> r[x].red

\* Two nodes painted one after the other.
LEMMA PaintPair ==
  ASSUME NEW D, NEW r \in Heaps(D), NEW a \in D, NEW b \in D, a # b, NEW t, t = Redden(Blacken(r, a), b)
  PROVE  PaintedPair(r, t, D, a, b)
<1> DEFINE k == Blacken(r, a)
<1>1. /\ k \in Heaps(D) /\ ~k[a].red
      /\ \A x \in D : /\ k[x].data = r[x].data /\ k[x].parent = r[x].parent /\ k[x].child = r[x].child
                      /\ x # a => k[x].red = r[x].red
  <2>1. k = Blacken(r, a)
    OBVIOUS
  <2> HIDE DEF k
  <2>2. PaintsBlack(D, r, a, k)
    BY <2>1, PaintBlack
  <2> QED BY ONLY <2>2 DEF PaintsBlack
<1>2. t = Redden(k, b)
  OBVIOUS
<1> HIDE DEF k
<1>3. /\ t \in Heaps(D) /\ t[b].red
      /\ \A x \in D : /\ t[x].data = k[x].data /\ t[x].parent = k[x].parent /\ t[x].child = k[x].child
                      /\ x # b => t[x].red = k[x].red
  <2>1. PaintsRed(D, k, b, t)
    BY <1>1, <1>2, PaintRed
  <2> QED BY ONLY <2>1 DEF PaintsRed
<1>4. ~t[a].red
  <2>1. t[a].red = k[a].red
    BY ONLY <1>3, a \in D, a # b
  <2> QED BY ONLY <2>1, <1>1
<1>5. \A x \in D \ {a, b} : t[x].red <=> r[x].red
  BY ONLY <1>1, <1>3
<1>6. Alike(r, t, D) /\ SameData(r, t, D)
  BY ONLY <1>1, <1>3 DEF Alike, SameData
<1> QED BY ONLY <1>3, <1>4, <1>5, <1>6 DEF PaintedPair

\* From a balanced tree to its numbers and back.
LEMMA BalancedIs ==
  ASSUME NEW h, NEW T, NEW sub, NEW nb, Tree(h, T, sub)
  PROVE  Balanced(h, T, nb) <=> /\ EvenWith(h, T, nb, Nill, LEFT) /\ ~h[Nill].red /\ ~h[Root(h)].red
                                /\ RedFree(h, T, Nill)
<1>1. Even(h, T, nb) <=> EvenWith(h, T, nb, Nill, LEFT)
  BY EvenIsEven
<1> QED BY <1>1 DEF Balanced, RedFree

\* What a call that is the last leaves.
InsertEnded(h, t, D) == t \in Heaps(D) /\ SameData(h, t, D) /\ Settled(t, D)

\* Under a red parent and a black uncle, on the outside: one rotation does.
LEMMA InsertOuter ==
  ASSUME NEW D, IsFiniteSet(D), NEW h \in Heaps(D), NEW n, NEW sub, NEW nb, InsertState(h, D, n, sub, nb),
         n # Root(h), h[h[n].parent].red,
         NEW p, p = h[n].parent, NEW g, g = GetGrandpaPointer(h, n), NEW u, u = GetUnclePointer(h, n), ~h[u].red,
         NEW dir, dir = Dir(h, p), Dir(h, n) = dir,
         NEW r, r = Rotate_Node(h, h[g].data, Other(dir)),
         NEW t, t = Redden(Blacken(r, r[n].parent), r[r[n].parent].child[Other(dir)])
  PROVE  InsertEnded(h, t, D)
<1> DEFINE o == Other(dir)
           bump == h[p].child[o]
<1>1. /\ Tree(h, D, sub) /\ Even(h, D, nb) /\ n \in D \ {Nill} /\ h[n].red /\ ~h[Nill].red
      /\ RedBut(h, D, n)
  BY Zenon DEF InsertState
<1>2. /\ p \in D \ {Nill} /\ g \in D \ {Nill} /\ u \in D /\ dir \in Sides
      /\ n # p /\ n # g /\ p # g
      /\ h[p].child[dir] = n /\ bump # n
      /\ h[g].child[dir] = p /\ h[g].child[o] = u
      /\ ~h[g].red /\ ~h[Root(h)].red /\ h[p].red
  <2>1. Family(D, h, n, sub, p, g, u, dir)
    BY InsertFamily, Zenon
  <2> QED BY <2>1, Zenon DEF Family
<1>3. o \in Sides /\ Other(o) = dir
  BY <1>2, SideFacts, Zenon
<1> HIDE DEF bump
<1>4. r = Rotate_Node(h, h[g].data, o) /\ t = Redden(Blacken(r, r[n].parent), r[r[n].parent].child[o]) /\ D \in SUBSET D
  BY Zenon
<1>5. p = h[g].child[Other(o)] /\ u = h[g].child[o] /\ bump = h[p].child[o] /\ p # Nill
  BY <1>2, <1>3, Zenon DEF bump
<1> HIDE DEF o
<1>6. /\ r \in Heaps(D) /\ \E s \in [D -> SUBSET D] : Tree(r, D, s)
      /\ SameColour(h, r, D) /\ SameData(h, r, D) /\ Shape(h, r, D, o, g, p)
  <2>1. Turned(D, h, D, o, g, p, r)
    BY <1>1, <1>2, <1>3, <1>4, <1>5, RotateShape, Zenon
  <2> QED BY ONLY <2>1 DEF Turned
<1>7. r[n].parent = p /\ r[p].child[o] = g
  <2>1. n \in D \ {g, p} /\ h[n].parent = p /\ n # h[p].child[o]
    BY <1>1, <1>2, <1>5, Zenon
  <2>2. (n # h[p].child[o] \/ n = Nill) => r[n].parent = h[n].parent
    BY ONLY <1>6, <2>1, Zenon DEF Shape
  <2>3. r[p].child[o] = g
    BY ONLY <1>6, Zenon DEF Shape
  <2> QED BY ONLY <2>1, <2>2, <2>3
<1>8. PaintedPair(r, t, D, p, g)
  <2>1. t = Redden(Blacken(r, p), g)
    BY ONLY <1>4, <1>7
  <2> QED BY ONLY <1>2, <1>6, <2>1, PaintPair
<1>9. /\ t \in Heaps(D) /\ Alike(r, t, D) /\ SameData(r, t, D) /\ ~t[p].red /\ t[g].red
      /\ \A x \in D \ {p, g} : t[x].red <=> r[x].red
  BY ONLY <1>8 DEF PaintedPair
<1>10. Alike(h, h, D)
  BY Zenon DEF Alike
<1>11. Shape(h, t, D, o, g, p)
  BY ONLY <1>1, <1>2, <1>3, <1>6, <1>9, <1>10, ShapeAlike
<1>12. Exchanged(h, t, D, g, p)
  BY ONLY <1>2, <1>6, <1>9 DEF Exchanged, SameColour
<1>13. PICK s \in [D -> SUBSET D] : Tree(t, D, s)
  BY ONLY <1>6, <1>9, AlikeTree
<1>14. EvenWith(h, D, nb, Nill, LEFT)
  BY ONLY <1>1, EvenIsEven
<1> DEFINE c == [x \in D |-> IF x = g THEN nb[p] ELSE IF x = p THEN nb[g] ELSE nb[x]]
<1>15. EvenWith(t, D, c, Nill, LEFT)
  <2>1. c = [x \in D |-> IF x = g THEN nb[p] ELSE IF x = p THEN nb[g] ELSE nb[x]] /\ Nill # p /\ Nill # g
    BY <1>2, Zenon
  <2> HIDE DEF c
  <2> QED BY ONLY <1>1, <1>2, <1>3, <1>5, <1>11, <1>12, <1>14, <2>1, ExchangeEven
<1>16. ~h[bump].red
  <2>1. h[p].child[o] = n \/ ~h[p].red \/ ~h[h[p].child[o]].red
    BY ONLY <1>1, <1>2, <1>3, Zenon DEF RedBut
  <2> QED BY ONLY <1>2, <1>5, <2>1, Zenon
<1>17. RedFree(h, D, p)
  <2>1. Joined(h, D)
    BY <1>1, Zenon DEF Tree
  <2>2. ASSUME NEW x \in D \ {Nill}, NEW d \in Sides PROVE x = p \/ ~h[x].red \/ ~h[h[x].child[d]].red
    <3>1. h[x].child[d] = n => x = p
      BY ONLY <1>1, <2>1, p = h[n].parent, x \in D \ {Nill}, d \in Sides DEF Joined
    <3> QED BY <1>1, <3>1, Zenon DEF RedBut
  <2> QED BY <2>2, Zenon DEF RedFree
<1>18. RedFree(t, D, Nill)
  BY ONLY <1>1, <1>2, <1>3, <1>5, <1>11, <1>12, <1>16, <1>17, ~h[u].red, ExchangeRed
<1>19. ~t[Root(t)].red /\ ~t[Nill].red
  BY ONLY <1>1, <1>2, <1>3, <1>5, <1>11, <1>12, ExchangeRoot
<1>20. Balanced(t, D, c)
  BY ONLY <1>13, <1>15, <1>18, <1>19, BalancedIs
<1>21. c \in [D -> Nat]
  BY ONLY <1>15 DEF EvenWith
<1> HIDE DEF c
<1>22. Settled(t, D)
  BY ONLY <1>13, <1>20, <1>21 DEF Settled
<1>23. SameData(h, t, D)
  BY ONLY <1>6, <1>9 DEF SameData
<1> QED BY ONLY <1>9, <1>22, <1>23 DEF InsertEnded

\* On the inside: one rotation brings it to the outside.
LEMMA InsertInner ==
  ASSUME NEW D, IsFiniteSet(D), NEW h \in Heaps(D), NEW n, NEW sub, NEW nb, InsertState(h, D, n, sub, nb),
         n # Root(h), h[h[n].parent].red,
         NEW p, p = h[n].parent, NEW g, g = GetGrandpaPointer(h, n), NEW u, u = GetUnclePointer(h, n), ~h[u].red,
         NEW dir, dir = Dir(h, p), Dir(h, n) # dir,
         NEW r, r = Rotate_Node(h, h[p].data, dir)
  PROVE  /\ r \in Heaps(D) /\ SameData(h, r, D) /\ r[n].child[dir] = p /\ p \in D
         /\ InsertGood(r, D, p, 1)
<1> DEFINE o == Other(dir)
           bump == h[n].child[dir]
<1>1. /\ Tree(h, D, sub) /\ Even(h, D, nb) /\ n \in D \ {Nill} /\ h[n].red /\ ~h[Nill].red
      /\ RedBut(h, D, n)
  BY DEF InsertState
<1>2. /\ p \in D \ {Nill} /\ g \in D \ {Nill} /\ u \in D /\ dir \in Sides
      /\ n # p /\ n # g /\ p # g /\ u # n /\ u # p /\ u # g /\ Dir(h, n) \in Sides
      /\ h[p].child[Dir(h, n)] = n /\ h[p].child[Other(Dir(h, n))] # n
      /\ h[g].child[dir] = p /\ h[g].child[o] = u /\ h[p].parent = g
      /\ ~h[g].red /\ ~h[Root(h)].red /\ h[p].red /\ p # Root(h)
  <2>1. Family(D, h, n, sub, p, g, u, dir)
    BY InsertFamily
  <2> QED BY <2>1 DEF Family
<1>3. o \in Sides /\ Other(o) = dir /\ Dir(h, n) = o /\ h[p].child[o] = n /\ o # dir
  <2>1. o \in Sides /\ Other(o) = dir /\ o # dir /\ \A d \in Sides : d = dir \/ d = o
    BY <1>2, SideFacts
  <2> QED BY <1>2, <2>1
<1>4. n = h[p].child[Other(dir)] /\ n # Nill /\ r = Rotate_Node(h, h[p].data, dir) /\ D \in SUBSET D
      /\ bump = h[n].child[dir] /\ o = Other(dir)
  BY <1>1, <1>3
<1> HIDE DEF o, bump
<1>5. /\ r \in Heaps(D) /\ \E s \in [D -> SUBSET D] : Tree(r, D, s)
      /\ SameColour(h, r, D) /\ SameData(h, r, D) /\ Shape(h, r, D, dir, p, n)
  <2>1. Turned(D, h, D, dir, p, n, r)
    BY <1>1, <1>2, <1>4, RotateShape, Zenon
  <2> QED BY ONLY <2>1 DEF Turned
<1>6. PICK s \in [D -> SUBSET D] : Tree(r, D, s)
  BY <1>5, Zenon
<1>7. Exchanged(h, r, D, p, n)
  BY ONLY <1>1, <1>2, <1>5 DEF Exchanged, SameColour
<1>8. EvenWith(h, D, nb, Nill, LEFT)
  BY ONLY <1>1, EvenIsEven
<1> DEFINE c == [x \in D |-> IF x = p THEN nb[n] ELSE IF x = n THEN nb[p] ELSE nb[x]]
<1>9. Even(r, D, c)
  <2>1. c = [x \in D |-> IF x = p THEN nb[n] ELSE IF x = n THEN nb[p] ELSE nb[x]] /\ Nill # p /\ Nill # n
    BY <1>1, <1>2
  <2> HIDE DEF c
  <2>2. EvenWith(r, D, c, Nill, LEFT)
    <3>1. Nill # n /\ h[n].red /\ n = h[p].child[Other(dir)] /\ (Nill = p => LEFT = dir)
      BY ONLY <1>1, <1>2, <1>4
    <3> QED BY ONLY <1>1, <1>2, <1>5, <1>7, <1>8, <2>1, <3>1, ExchangeEven
  <2> QED BY ONLY <1>6, <2>2, EvenIsEven
<1>10. c \in [D -> Nat]
  BY ONLY <1>9 DEF Even
<1> HIDE DEF c
<1>11. /\ r[g].child[dir] = n /\ r[g].child[o] = u /\ r[n].child[dir] = p /\ r[p].child[o] = bump
       /\ r[n].parent = g /\ r[p].parent = n /\ r[p].child[dir] = h[p].child[dir] /\ r[n].child[o] = h[n].child[o]
  <2>1. g \in D \ {p, n}
    BY <1>2
  <2>2. (h[g].child[dir] = p /\ r[g].child[dir] = n) \/ (h[g].child[dir] # p /\ r[g].child[dir] = h[g].child[dir])
    BY ONLY <1>2, <1>5, <2>1 DEF Shape
  <2>3. (h[g].child[o] = p /\ r[g].child[o] = n) \/ (h[g].child[o] # p /\ r[g].child[o] = h[g].child[o])
    BY ONLY <1>3, <1>5, <2>1 DEF Shape
  <2> QED BY ONLY <1>2, <1>4, <1>5, <2>2, <2>3, Zenon DEF Shape
<1>12. \A x \in D : r[x].red <=> h[x].red
  BY ONLY <1>5 DEF SameColour
<1>13. RedBut(r, D, p)
  <2>1. /\ bump \in D /\ bump # n /\ bump # p /\ h[n].child[o] \in D /\ h[n].child[o] # n /\ h[n].child[o] # p
        /\ h[p].child[dir] \in D /\ h[p].child[dir] # n
        /\ \A x \in D \ {p, n}, d \in Sides : h[x].child[d] \in D /\ h[x].child[d] # n
    BY ONLY <1>1, <1>2, <1>4, AroundTurn
  <2>2. ~h[bump].red /\ ~h[h[n].child[o]].red /\ ~h[h[p].child[dir]].red
    BY ONLY <1>1, <1>2, <1>3, <1>4, <2>1, Zenon DEF RedBut
  <2>3. ASSUME NEW x \in D \ {Nill}, NEW d \in Sides PROVE r[x].child[d] = p \/ ~r[x].red \/ ~r[r[x].child[d]].red
    <3>1. d = dir \/ d = o
      BY <1>2, <1>4, SideFacts, Zenon
    <3>2. CASE x = n
      BY ONLY <1>11, <1>12, <2>1, <2>2, <3>1, <3>2
    <3>3. CASE x = p
      BY ONLY <1>11, <1>12, <2>1, <2>2, <3>1, <3>3
    <3>4. CASE x \notin {p, n}
      <4>1. x \in D \ {p, n} /\ h[x].child[d] \in D /\ h[x].child[d] # n
        BY ONLY <2>1, <3>4, x \in D \ {Nill}, d \in Sides
      <4>2. ~h[x].red \/ ~h[h[x].child[d]].red
        BY ONLY <1>1, <4>1, x \in D \ {Nill}, d \in Sides DEF RedBut
      <4>3. (h[x].child[d] = p /\ r[x].child[d] = n) \/ (h[x].child[d] # p /\ r[x].child[d] = h[x].child[d])
        BY ONLY <1>5, <4>1, d \in Sides DEF Shape
      <4>4. h[x].child[d] = p => x = g
        <5>1. Joined(h, D)
          BY <1>1 DEF Tree
        <5> QED BY ONLY <1>2, <4>1, <5>1, x \in D \ {Nill}, d \in Sides DEF Joined
      <4> QED BY ONLY <1>2, <1>12, <4>1, <4>2, <4>3, <4>4
    <3> QED BY <3>2, <3>3, <3>4, Zenon
  <2> QED BY <2>3, Zenon DEF RedBut
<1>14. ~r[Root(r)].red /\ ~r[Nill].red
  BY ONLY <1>1, <1>2, <1>4, <1>5, <1>7, ExchangeRoot
<1>15. InsertState(r, D, p, s, c)
  BY ONLY <1>2, <1>6, <1>9, <1>12, <1>13, <1>14 DEF InsertState
<1>16. Dir(r, n) = dir /\ Dir(r, p) = dir
  <2>1. \A d \in Sides : r[g].child[d] = n => d = Dir(r, n)
    BY ONLY <1>1, <1>6, <1>11, OneSide
  <2>2. \A d \in Sides : r[n].child[d] = p => d = Dir(r, p)
    BY ONLY <1>2, <1>6, <1>11, OneSide
  <2> QED BY ONLY <1>2, <1>11, <2>1, <2>2
<1>17. Outer(r, p)
  <2>1. GetUnclePointer(r, p) = u
    BY ONLY <1>4, <1>11, <1>16, Zenon DEF GetUnclePointer, GetGrandpaPointer
  <2> QED BY ONLY <1>1, <1>2, <1>11, <1>12, <1>16, <2>1, ~h[u].red DEF Outer
<1>18. InsertGood(r, D, p, 1)
  BY ONLY <1>6, <1>10, <1>15, <1>17 DEF InsertGood
<1> QED BY ONLY <1>2, <1>5, <1>11, <1>18

-----------------------------------------------------------------------------
(* Insert_Balance: all the calls *)

\* What is below a node is no more than there is.
LEMMA Sizes ==
  ASSUME NEW D, IsFiniteSet(D), NEW sub \in [D -> SUBSET D]
  PROVE  Cardinality(D) \in Nat /\ \A x \in D : Cardinality(sub[x]) \in Nat /\ Cardinality(sub[x]) <= Cardinality(D)
<1>1. ASSUME NEW x \in D PROVE Cardinality(sub[x]) \in Nat /\ Cardinality(sub[x]) <= Cardinality(D)
  <2>1. sub[x] \subseteq D
    OBVIOUS
  <2> HIDE DEF Cardinality
  <2> QED BY <2>1, FS_Subset, FS_CardinalityType
<1> QED BY <1>1, FS_CardinalityType

\* One more turn does no harm.
LEMMA InsertMore ==
  ASSUME NEW D, IsFiniteSet(D), NEW h, NEW n, InsertGood(h, D, n, 1), NEW b \in Nat, b >= 1
  PROVE  InsertGood(h, D, n, b)
<1>1. PICK sub \in [D -> SUBSET D], nb \in [D -> Nat] :
        /\ InsertState(h, D, n, sub, nb)
        /\ \/ 1 >= Cardinality(D) - Cardinality(sub[n]) + 2
           \/ 1 >= 1 /\ Outer(h, n)
  BY DEF InsertGood
<1>2. n \in D
  BY <1>1 DEF InsertState
<1>3. Cardinality(D) \in Nat /\ Cardinality(sub[n]) \in Nat
  BY <1>2, Sizes
<1>4. b >= Cardinality(D) - Cardinality(sub[n]) + 2 \/ (b >= 1 /\ Outer(h, n))
  BY ONLY <1>1, <1>3, b \in Nat, b >= 1
<1> QED BY ONLY <1>1, <1>4 DEF InsertGood

\* What a call leaves: a settled tree, or one call less.
InsertLeft(h, D, s, b) ==
  /\ s.heap \in Heaps(D) /\ SameData(h, s.heap, D)
  /\ (s.node = Null /\ Settled(s.heap, D)) \/ (s.node \in D /\ InsertGood(s.heap, D, s.node, b - 1))

\* One call of Insert_Balance (BinaryTree.cpp:156-206) ends well or makes a
\* call with fewer left to make.
LEMMA InsertStep ==
  ASSUME NEW D, IsFiniteSet(D), NEW h \in Heaps(D), NEW n, NEW b \in Nat, InsertGood(h, D, n, b)
  PROVE  InsertLeft(h, D, Insert_Turn(h, n), b) /\ b >= 1
<1> DEFINE p == h[n].parent
           g == GetGrandpaPointer(h, n)
           u == GetUnclePointer(h, n)
           dir == Dir(h, p)
           s == Insert_Turn(h, n)
<1>1. PICK sub \in [D -> SUBSET D], nb \in [D -> Nat] :
        /\ InsertState(h, D, n, sub, nb)
        /\ \/ b >= Cardinality(D) - Cardinality(sub[n]) + 2
           \/ b >= 1 /\ Outer(h, n)
  BY DEF InsertGood
<1>2. n \in D \ {Nill} /\ Tree(h, D, sub)
  BY <1>1 DEF InsertState
<1>3. Cardinality(D) \in Nat /\ \A x \in D : Cardinality(sub[x]) \in Nat /\ Cardinality(sub[x]) <= Cardinality(D)
  BY Sizes
<1>4. b >= 1
  BY <1>1, <1>2, <1>3
<1>5. CASE n = Root(h)
  <2>1. s = [heap |-> Blacken(h, n), node |-> Null]
    BY <1>5 DEF Insert_Turn, Blacken
  <2> DEFINE r == Blacken(h, n)
  <2>2. r = Blacken(h, n)
    OBVIOUS
  <2> HIDE DEF r
  <2>3. r \in Heaps(D) /\ SameData(h, r, D) /\ \E z \in [D -> SUBSET D], c \in [D -> Nat] : Tree(r, D, z) /\ Balanced(r, D, c)
    BY ONLY <1>1, <1>5, <2>2, h \in Heaps(D), InsertRoot
  <2>4. s.heap = r /\ s.node = Null
    BY ONLY <2>1, <2>2
  <2> HIDE DEF s
  <2>5. InsertLeft(h, D, s, b)
    BY ONLY <2>3, <2>4 DEF InsertLeft, Settled
  <2> QED BY ONLY <1>4, <2>5 DEF s
<1>6. CASE n # Root(h) /\ ~h[p].red
  <2>1. s.heap = h /\ s.node = Null
    BY <1>6, Zenon DEF Insert_Turn, Red
  <2>2. Balanced(h, D, nb)
    BY ONLY <1>1, <1>6, InsertBlack DEF p
  <2> HIDE DEF s
  <2>3. SameData(h, h, D)
    BY DEF SameData
  <2>4. InsertLeft(h, D, s, b)
    BY ONLY <1>1, <1>2, <2>1, <2>2, <2>3, h \in Heaps(D) DEF InsertLeft, Settled
  <2> QED BY ONLY <1>4, <2>4 DEF s
<1>7. CASE n # Root(h) /\ h[p].red /\ h[u].red
  <2> DEFINE r == [h EXCEPT ![p].red = FALSE, ![u].red = FALSE, ![g].red = TRUE]
  <2>1. s = [heap |-> r, node |-> g]
    BY <1>7, Zenon DEF Insert_Turn, Red
  <2>2. r = [h EXCEPT ![p].red = FALSE, ![u].red = FALSE, ![g].red = TRUE] /\ p = h[n].parent
        /\ g = GetGrandpaPointer(h, n) /\ u = GetUnclePointer(h, n)
    OBVIOUS
  <2>3. ~Outer(h, n)
    BY <1>7 DEF Outer
  <2> HIDE DEF r, p, g, u, dir, s
  <2>4. /\ r \in Heaps(D) /\ SameData(h, r, D) /\ \E c \in [D -> Nat] : InsertState(r, D, g, sub, c)
        /\ Cardinality(sub[n]) < Cardinality(sub[g])
    <3>1. Recoloured(D, h, n, sub, g, r)
      BY ONLY <1>1, <1>7, <2>2, h \in Heaps(D), InsertRecolour, Zenon DEF p
    <3> QED BY ONLY <3>1 DEF Recoloured
  <2>5. PICK c \in [D -> Nat] : InsertState(r, D, g, sub, c)
    BY <2>4
  <2>6. g \in D
    BY ONLY <2>5 DEF InsertState
  <2>7. b - 1 >= Cardinality(D) - Cardinality(sub[g]) + 2
    BY ONLY <1>1, <1>2, <1>3, <2>3, <2>4, <2>6, b \in Nat
  <2>8. InsertGood(r, D, g, b - 1)
    BY ONLY <1>1, <2>5, <2>7 DEF InsertGood
  <2>9. s.heap = r /\ s.node = g
    BY ONLY <2>1
  <2>10. InsertLeft(h, D, s, b)
    BY ONLY <2>4, <2>6, <2>8, <2>9 DEF InsertLeft
  <2> QED BY ONLY <1>4, <2>10 DEF s
<1>8. CASE n # Root(h) /\ h[p].red /\ ~h[u].red /\ Dir(h, n) = dir
  <2> DEFINE r == Rotate_Node(h, h[g].data, Other(dir))
             top == r[n].parent
             t == [r EXCEPT ![top].red = FALSE, ![r[top].child[Other(dir)]].red = TRUE]
  <2>1. s = [heap |-> t, node |-> Null]
    <3>1. p = h[n].parent /\ g = GetGrandpaPointer(h, n) /\ u = GetUnclePointer(h, n)
      OBVIOUS
    <3>2. s = IF Dir(h, n) = dir THEN [heap |-> t, node |-> Null]
              ELSE LET z == Rotate_Node(h, h[p].data, dir) IN [heap |-> z, node |-> z[n].child[dir]]
      BY <1>8, Zenon DEF Insert_Turn, Red
    <3> HIDE DEF t, s, dir
    <3> QED BY <1>8, <3>2
  <2>2. t = Redden(Blacken(r, r[n].parent), r[r[n].parent].child[Other(dir)])
    BY DEF Redden, Blacken, Painted
  <2>3. /\ r = Rotate_Node(h, h[g].data, Other(dir)) /\ p = h[n].parent /\ dir = Dir(h, p)
        /\ g = GetGrandpaPointer(h, n) /\ u = GetUnclePointer(h, n)
    OBVIOUS
  <2> HIDE DEF t, r, p, g, u, dir, s
  <2>4. InsertEnded(h, t, D)
    BY ONLY <1>1, <1>8, <2>2, <2>3, h \in Heaps(D), IsFiniteSet(D), InsertOuter, Zenon
  <2>5. s.heap = t /\ s.node = Null
    BY ONLY <2>1
  <2>6. InsertLeft(h, D, s, b)
    BY ONLY <2>4, <2>5 DEF InsertLeft, InsertEnded
  <2> QED BY ONLY <1>4, <2>6 DEF s
<1>9. CASE n # Root(h) /\ h[p].red /\ ~h[u].red /\ Dir(h, n) # dir
  <2> DEFINE r == Rotate_Node(h, h[p].data, dir)
  <2>1. s = [heap |-> r, node |-> r[n].child[dir]]
    <3> DEFINE z == Rotate_Node(h, h[g].data, Other(dir))
               top == z[n].parent
               t == [z EXCEPT ![top].red = FALSE, ![z[top].child[Other(dir)]].red = TRUE]
    <3>1. s = IF Dir(h, n) = dir THEN [heap |-> t, node |-> Null]
              ELSE [heap |-> r, node |-> r[n].child[dir]]
      BY <1>9, Zenon DEF Insert_Turn, Red
    <3> HIDE DEF t, s, dir, r
    <3> QED BY <1>9, <3>1
  <2>2. /\ r = Rotate_Node(h, h[p].data, dir) /\ p = h[n].parent /\ dir = Dir(h, p)
        /\ g = GetGrandpaPointer(h, n) /\ u = GetUnclePointer(h, n)
    OBVIOUS
  <2>3. ~Outer(h, n)
    BY <1>9 DEF Outer
  <2> HIDE DEF r, p, g, u, dir, s
  <2>4. /\ r \in Heaps(D) /\ SameData(h, r, D) /\ r[n].child[dir] = p /\ p \in D
        /\ InsertGood(r, D, p, 1)
    BY ONLY <1>1, <1>9, <2>2, h \in Heaps(D), IsFiniteSet(D), InsertInner
  <2>5. b - 1 \in Nat /\ b - 1 >= 1
    BY ONLY <1>1, <1>2, <1>3, <2>3, b \in Nat
  <2>6. InsertGood(r, D, p, b - 1)
    BY ONLY <2>4, <2>5, IsFiniteSet(D), InsertMore
  <2>7. s.heap = r /\ s.node = p
    BY ONLY <2>1, <2>4
  <2>8. InsertLeft(h, D, s, b)
    BY ONLY <2>4, <2>6, <2>7 DEF InsertLeft
  <2> QED BY ONLY <1>4, <2>8 DEF s
<1> HIDE DEF s, p, u, dir
<1> QED BY <1>5, <1>6, <1>7, <1>8, <1>9 DEF s

\* The states of the calls of a balance, and where they can go.
Calls(D) == [heap : Heaps(D), node : D \union {Null}]

\* Insert_Balance settles the tree.
LEMMA InsertSettles ==
  ASSUME NEW D, IsFiniteSet(D), Null \notin D, NEW h \in Heaps(D), NEW n, InsertGood(h, D, n, Turns(h)),
         NEW r, r = Insert_Balance(h, n)
  PROVE  InsertEnded(h, r, D)
<1> DEFINE N == Turns(h)
           Turn(s) == IF s.node = Null THEN s ELSE Insert_Turn(s.heap, s.node)
           G(b) == {s \in Calls(D) : /\ SameData(h, s.heap, D)
                                     /\ \/ s.node = Null /\ Settled(s.heap, D)
                                        \/ s.node \in D /\ InsertGood(s.heap, D, s.node, b)}
           next == [s \in Calls(D) |-> IF Turn(s) \in Calls(D) THEN Turn(s) ELSE s]
           first == [heap |-> h, node |-> n]
           OneOn(a, k) == IF k = 0 THEN first ELSE Turn(a[k - 1])
           after == CHOOSE a : a = [k \in 0 .. N |-> OneOn(a, k)]
<1>1. N \in Nat
  BY HeapFacts, FS_CardinalityType DEF Turns
<1>2. r = after[N].heap
  BY DEF Insert_Balance
<1>3. first \in G(N)
  <2>1. n \in D
    BY DEF InsertGood, InsertState
  <2>2. SameData(h, h, D)
    BY DEF SameData
  <2>3. first \in Calls(D) /\ first.heap = h /\ first.node = n
    BY <2>1 DEF Calls
  <2> HIDE DEF first
  <2> QED BY <2>1, <2>2, <2>3
<1>4. ASSUME NEW b \in Nat, NEW s \in G(b) PROVE Turn(s) \in G(b - 1)
  <2>1. s.heap \in Heaps(D) /\ SameData(h, s.heap, D)
    BY DEF Calls
  <2>2. CASE s.node = Null
    <3>1. Turn(s) = s /\ Settled(s.heap, D)
      BY <2>2
    <3> HIDE DEF Turn
    <3> QED BY <2>2, <3>1
  <2>3. CASE s.node # Null
    <3> DEFINE t == Insert_Turn(s.heap, s.node)
    <3>1. Turn(s) = t /\ InsertGood(s.heap, D, s.node, b)
      BY <2>3
    <3>2. InsertLeft(s.heap, D, t, b)
      BY ONLY <2>1, <3>1, b \in Nat, IsFiniteSet(D), InsertStep
    <3>3. t.heap \in Heaps(D) /\ SameData(s.heap, t.heap, D) /\ t.node \in D \union {Null}
          /\ ((t.node = Null /\ Settled(t.heap, D)) \/ (t.node \in D /\ InsertGood(t.heap, D, t.node, b - 1)))
      BY ONLY <3>2 DEF InsertLeft
    <3>4. SameData(h, t.heap, D)
      BY ONLY <2>1, <3>3 DEF SameData
    <3>5. t \in Calls(D)
      <4>1. t = [heap |-> t.heap, node |-> t.node]
        BY Zenon DEF Insert_Turn
      <4> HIDE DEF t
      <4> QED BY ONLY <3>3, <4>1 DEF Calls
    <3> HIDE DEF t, Turn
    <3> QED BY <3>1, <3>3, <3>4, <3>5
  <2> QED BY <2>2, <2>3
<1>5. \A b : G(b) \subseteq Calls(D)
  OBVIOUS
<1> HIDE DEF G, Turn, N, first
<1>6. next \in [Calls(D) -> Calls(D)] /\ first \in Calls(D)
  BY <1>3, <1>5
<1>7. \A b \in Nat : \A s \in G(b) : next[s] = Turn(s) /\ Turn(s) \in G(b - 1)
  BY <1>4, <1>5
<1> DEFINE F == [c \in 1 .. N |-> next]
<1>8. F \in [1 .. N -> [Calls(D) -> Calls(D)]] /\ \A c \in 1 .. N : F[c] = next
  BY <1>6
<1> HIDE DEF F, next
<1>9. PICK f \in [0 .. N -> Calls(D)] : f[0] = first /\ \A c \in 1 .. N : f[c] = next[f[c - 1]]
  <2>1. Runs(Calls(D), N, F, first)
    BY <1>1, <1>6, <1>8, LoopRuns
  <2> QED BY <1>8, <2>1, Zenon DEF Runs
<1>10. \A k \in 0 .. N : f[k] \in G(N - k)
  <2> DEFINE P == {k \in 0 .. N : f[k] \in G(N - k)}
  <2>1. 0 \in P
    BY <1>1, <1>3, <1>9
  <2>2. ASSUME NEW k \in 1 .. N, k - 1 \in P PROVE k \in P
    <3>1. N - (k - 1) \in Nat /\ (N - (k - 1)) - 1 = N - k /\ k \in 0 .. N
      BY <1>1
    <3> QED BY <1>7, <1>9, <2>2, <3>1
  <2> HIDE DEF P
  <2>3. \A k \in 0 .. N : k \in P
    BY <1>1, <2>1, <2>2, Steps, Zenon
  <2> QED BY <2>3 DEF P
<1>11. \A k \in 1 .. N : f[k] = Turn(f[k - 1])
  <2> TAKE k \in 1 .. N
  <2>1. k - 1 \in 0 .. N /\ N - (k - 1) \in Nat
    BY <1>1
  <2> QED BY <1>7, <1>9, <1>10, <2>1
<1>12. \A k \in 0 .. N : f[k] = OneOn(f, k)
  <2> TAKE k \in 0 .. N
  <2>1. CASE k = 0
    BY <1>9, <2>1
  <2>2. CASE k # 0
    <3>1. k \in 1 .. N
      BY <1>1, <2>2
    <3> QED BY <1>11, <2>2, <3>1
  <2> QED BY <2>1, <2>2
<1>13. f = [k \in 0 .. N |-> OneOn(f, k)]
  <2> HIDE DEF OneOn
  <2> QED BY <1>12
<1>14. after = [k \in 0 .. N |-> OneOn(after, k)]
  <2> HIDE DEF OneOn
  <2> QED BY <1>13, Zenon
<1>15. \A k \in 0 .. N : after[k] = OneOn(after, k)
  <2> HIDE DEF OneOn
  <2> QED BY <1>14, Zenon
<1> HIDE DEF after
<1>16. \A k \in 0 .. N : after[k] = f[k]
  <2> DEFINE P == {k \in 0 .. N : after[k] = f[k]}
  <2>1. 0 \in P
    BY <1>1, <1>9, <1>15
  <2>2. ASSUME NEW k \in 1 .. N, k - 1 \in P PROVE k \in P
    <3>1. k \in 0 .. N /\ k # 0
      BY <1>1
    <3>2. after[k] = Turn(after[k - 1])
      BY <1>15, <3>1
    <3>3. after[k - 1] = f[k - 1]
      BY <2>2
    <3> QED BY <1>11, <3>1, <3>2, <3>3
  <2> HIDE DEF P
  <2>3. \A k \in 0 .. N : k \in P
    BY <1>1, <2>1, <2>2, Steps
  <2> QED BY <2>3 DEF P
<1>17. after[N] \in G(0)
  BY <1>1, <1>10, <1>16
<1> DEFINE s == after[N]
<1>18. /\ s \in Calls(D) /\ SameData(h, s.heap, D)
       /\ (s.node = Null /\ Settled(s.heap, D)) \/ (s.node \in D /\ InsertGood(s.heap, D, s.node, 0))
  BY <1>17 DEF G
<1> HIDE DEF s
<1>19. s.heap \in Heaps(D)
  BY <1>18 DEF Calls
<1>20. ~InsertGood(s.heap, D, s.node, 0)
  <2>1. 0 \in Nat /\ ~(0 >= 1)
    OBVIOUS
  <2> QED BY ONLY <1>19, <2>1, IsFiniteSet(D), InsertStep
<1>21. InsertEnded(h, s.heap, D)
  BY <1>18, <1>19, <1>20 DEF InsertEnded
<1> QED BY <1>2, <1>21 DEF s

-----------------------------------------------------------------------------
(* Real_Insert: where the new node goes *)

\* v belongs under n, if it is not n's.
PlaceOf(h, T, sub, v, n) ==
  /\ n \in T /\ (n = Nill => Root(h) = Nill)
  /\ \/ h[n].data = v /\ n # Nill
     \/ /\ h[n].data # v /\ \A x \in T \ {Nill} : h[x].data # v
        /\ h[n].child[Toward(h, n, v)] = Nill
        /\ \A a \in T \ {Nill} : n \in sub[a] \ {a} => n \in sub[h[a].child[Toward(h, a, v)]]

\* The loop of Real_Insert ends where the new node belongs.
LEMMA PlaceFound ==
  ASSUME NEW D, IsFiniteSet(D), NEW h \in Heaps(D), NEW sub, Tree(h, D, sub), NEW v \in Int, v < IntMax,
         NEW next, next = [n \in D |-> IF h[n].data = v \/ h[n].child[Toward(h, n, v)] = Nill
                                         THEN n ELSE h[n].child[Toward(h, n, v)]],
         NEW place, place = LoopEnd(h, next, Root(h))
  PROVE  PlaceOf(h, D, sub, v, place)
<1> DEFINE Side(a) == h[a].child[Toward(h, a, v)]
           G == {y \in D : /\ (y = Nill => Root(h) = Nill)
                           /\ \A x \in D \ {Nill} : h[x].data = v => x \in sub[y]
                           /\ \A a \in D \ {Nill} : y \in sub[a] \ {a} => y \in sub[Side(a)]}
           m == Weight(D, D, sub)
<1>1. DOMAIN h = D /\ \A x \in D, d \in Sides : h[x].child[d] \in D
  BY HeapFacts
<1>2. Rooted(h, D, sub) /\ Joined(h, D) /\ Ordered(h, D, sub) /\ Nested(h, D, sub)
  BY DEF Tree
<1>3. \A x : Toward(h, x, v) \in Sides
  BY SideFacts DEF Toward
<1>4. \A x \in D : Side(x) \in D
  BY <1>1, <1>3
<1>5. /\ \A x \in D : next[x] = IF h[x].data = v \/ Side(x) = Nill THEN x ELSE Side(x)
      /\ next \in [D -> D]
  BY <1>4
<1>6. Nill \in D /\ h[Nill].data = IntMax /\ sub[Nill] = {} /\ IntMax \in Int /\ \A x \in D : sub[x] \subseteq D \ {Nill}
  BY <1>2, KeysAssumption DEF Rooted
<1>7. Root(h) \in D /\ (Root(h) # Nill => h[Root(h)].parent = Nill)
  BY <1>2, <1>6, SideFacts DEF Root, Joined
<1>8. Root(h) \in G
  <2>1. sub[Root(h)] = D \ {Nill}
    BY <1>2 DEF Rooted
  <2>2. ASSUME NEW a \in D \ {Nill}, Root(h) \in sub[a] \ {a} PROVE FALSE
    <3>1. Root(h) # Nill
      BY <1>6, <2>2
    <3>2. h[Root(h)].parent \in sub[a]
      BY <1>2, <2>2 DEF Nested
    <3> QED BY <1>6, <1>7, <3>1, <3>2
  <2> QED BY <1>7, <2>1, <2>2
<1>9. m \in [D -> Nat] /\ m[Root(h)] <= Cardinality(D)
  <2>1. D \in SUBSET D
    OBVIOUS
  <2> QED BY <1>7, <2>1, WeightFacts, Zenon
<1>10. Toward(h, Nill, v) = LEFT
  BY <1>6 DEF Toward
<1>11. ASSUME NEW y \in G PROVE next[y] \in G /\ (next[y] = y \/ m[next[y]] < m[y])
  <2>1. CASE h[y].data = v \/ Side(y) = Nill
    BY <1>5, <2>1, Zenon
  <2>2. CASE h[y].data # v /\ Side(y) # Nill
    <3> DEFINE c == Side(y)
    <3>1. y # Nill
      <4>1. y = Nill => Side(y) = Root(h)
        BY <1>10 DEF Root
      <4> QED BY <2>2, <4>1
    <3>2. y \in D \ {Nill} /\ next[y] = c /\ c # Nill
      BY <1>5, <2>2, <3>1
    <3>3. c \in D /\ c \in sub[c] /\ h[c].parent = y
      BY <1>3, <3>2, Below
    <3>4. m[c] < m[y]
      <4>1. D \in SUBSET D
        OBVIOUS
      <4> QED BY <1>3, <3>2, <4>1, WeightFacts, Zenon
    <3>5. ASSUME NEW x \in D \ {Nill}, h[x].data = v PROVE x \in sub[c]
      <4>1. x \in sub[y] \ {y}
        BY <2>2, <3>5
      <4> QED BY <3>2, <3>5, <4>1, SearchSide, Zenon
    <3>6. ASSUME NEW a \in D \ {Nill}, c \in sub[a] \ {a} PROVE c \in sub[Side(a)]
      <4>1. CASE a = y
        BY <3>3, <4>1
      <4>2. CASE a # y
        <5>1. y \in sub[a]
          BY <1>2, <3>3, <3>6 DEF Nested
        <5>2. y \in sub[Side(a)]
          BY <4>2, <5>1
        <5>3. Side(a) \in D /\ y \in D /\ c \in sub[y]
          BY <1>3, <1>4, <3>2, <3>3, Below
        <5>4. sub[y] \subseteq sub[Side(a)]
          BY <1>2, <5>2, <5>3 DEF Nested
        <5> QED BY <5>3, <5>4
      <4> QED BY <4>1, <4>2
    <3> HIDE DEF Side
    <3>7. c \in G
      BY <3>2, <3>3, <3>5, <3>6
    <3> QED BY <3>2, <3>4, <3>7
  <2> QED BY <2>1, <2>2, Zenon
<1>12. place \in G /\ next[place] = place
  <2> HIDE DEF G, m
  <2>1. G \in SUBSET D
    BY DEF G
  <2>2. \A y \in G : next[y] \in G /\ (next[y] = y \/ m[next[y]] < m[y])
    BY <1>11, Zenon
  <2> QED BY ONLY <1>1, <1>5, <1>7, <1>8, <1>9, <2>1, <2>2, IsFiniteSet(D), place = LoopEnd(h, next, Root(h)), LoopArrives
<1>13. place \in D /\ (place = Nill => Root(h) = Nill)
  BY <1>12, Zenon
<1>14. CASE h[place].data = v
  <2>1. place # Nill
    BY <1>6, <1>14
  <2> QED BY <1>13, <1>14, <2>1, Zenon DEF PlaceOf
<1>15. CASE h[place].data # v
  <2>1. Side(place) = Nill
    <3> SUFFICES ASSUME Side(place) # Nill PROVE FALSE
      BY Zenon
    <3>1. place # Nill
      <4>1. place = Nill => Side(place) = Root(h)
        BY <1>10, Zenon DEF Root
      <4> QED BY <1>13, <4>1, Zenon
    <3>2. Side(place) = place
      BY <1>5, <1>12, <1>13, <1>15, Zenon
    <3>3. place \in D \ {Nill}
      BY <1>13, <3>1, Zenon
    <3>4. PICK d \in Sides : h[place].child[d] = place
      BY <1>3, <3>2, Zenon
    <3>5. place \in sub[place] /\ place \notin sub[place]
      BY ONLY <3>3, <3>4, Tree(h, D, sub), d \in Sides, Below
    <3> QED BY ONLY <3>5
  <2>2. ASSUME NEW x \in D \ {Nill}, h[x].data = v PROVE FALSE
    <3>1. x \in sub[place] \ {place}
      BY <1>12, <1>15, <2>2, Zenon
    <3>2. place \in D \ {Nill}
      BY <1>6, <1>13, <3>1
    <3>3. x \in sub[Side(place)]
      BY <2>2, <3>1, <3>2, SearchSide, Zenon
    <3> QED BY <1>6, <2>1, <3>3, Zenon
  <2>3. \A a \in D \ {Nill} : place \in sub[a] \ {a} => place \in sub[Side(a)]
    BY <1>12, Zenon
  <2> QED BY <1>13, <1>15, <2>1, <2>2, <2>3, Zenon DEF PlaceOf
<1> QED BY <1>14, <1>15, Zenon

-----------------------------------------------------------------------------
\* t is h with a red leaf v hung on the side e of n.
LeafHung(D, h, v, n, e, t) ==
  /\ t \in Heaps(D \union {v}) /\ t[v].data = v /\ t[v].red /\ t[v].parent = n
  /\ \A d \in Sides : t[v].child[d] = Nill
  /\ \A x \in D :
       /\ t[x].data = h[x].data /\ t[x].red = h[x].red /\ t[x].parent = h[x].parent
       /\ \A d \in Sides : t[x].child[d] = IF x = n /\ d = e THEN v ELSE h[x].child[d]

\* The fields of all nodes once the new one is linked.
LEMMA LeafFields ==
  ASSUME NEW D, Nill \in D, NEW h \in Heaps(D), NEW v \in Int, v \notin D, NEW n \in D,
         NEW e, e = Toward(h, n, v), NEW t, t = Linked(h, v, n)
  PROVE  LeafHung(D, h, v, n, e, t)
<1> DEFINE E == D \union {v}
           k == [h EXCEPT ![n].child[e] = v]
<1>1. DOMAIN h = D /\ e \in Sides
  BY HeapFacts, SideFacts DEF Toward
<1>2. t = [x \in E |-> IF x = v THEN AllocNode(v, n) ELSE k[x]]
  BY <1>1 DEF Linked
<1>3. /\ AllocNode(v, n) \in TreeNode(E) /\ AllocNode(v, n).data = v /\ AllocNode(v, n).parent = n
      /\ AllocNode(v, n).red /\ \A d \in Sides : AllocNode(v, n).child[d] = Nill
  <2>1. AllocNode(v, n).child \in [Sides -> E] /\ \A d \in Sides : AllocNode(v, n).child[d] = Nill
    BY DEF AllocNode, Sides
  <2>2. AllocNode(v, n).red
    BY DEF AllocNode
  <2>3. AllocNode(v, n) = [data |-> v, red |-> TRUE, parent |-> n, child |-> AllocNode(v, n).child]
        /\ AllocNode(v, n).data = v /\ AllocNode(v, n).parent = n
    BY DEF AllocNode
  <2>4. AllocNode(v, n) \in TreeNode(E)
    <3> DEFINE c == AllocNode(v, n).child
    <3>1. n \in E \union {Null} /\ c \in [Sides -> E]
      BY <2>1
    <3> HIDE DEF c
    <3>2. [data |-> v, red |-> TRUE, parent |-> n, child |-> c] \in TreeNode(E)
      BY <3>1 DEF TreeNode
    <3> QED BY <2>3, <3>2, Zenon DEF c
  <2> QED BY <2>1, <2>2, <2>3, <2>4
<1>4. ASSUME NEW x \in D
      PROVE  /\ k[x] \in TreeNode(E) /\ k[x].data = h[x].data /\ k[x].red = h[x].red /\ k[x].parent = h[x].parent
             /\ \A d \in Sides : k[x].child[d] = IF x = n /\ d = e THEN v ELSE h[x].child[d]
  <2> DEFINE y == h[x]
  <2>1. y \in TreeNode(D)
    BY DEF Heaps
  <2>2. /\ y.data \in Int /\ y.red \in BOOLEAN /\ y.parent \in D \union {Null} /\ y.child \in [Sides -> D]
        /\ y = [data |-> y.data, red |-> y.red, parent |-> y.parent, child |-> y.child]
    <3> HIDE DEF y
    <3> QED BY <2>1, NodeFields
  <2> DEFINE c == IF x = n THEN [y.child EXCEPT ![e] = v] ELSE y.child
  <2>3. c \in [Sides -> E] /\ \A d \in Sides : c[d] = IF x = n /\ d = e THEN v ELSE y.child[d]
    <3> HIDE DEF y
    <3> QED BY <1>1, <2>2
  <2>4. k[x] = [data |-> y.data, red |-> y.red, parent |-> y.parent, child |-> c]
    <3>1. k[x] = IF x = n THEN [y EXCEPT !.child = [y.child EXCEPT ![e] = v]] ELSE y
      BY <1>1
    <3> HIDE DEF y, k
    <3> QED BY <2>2, <3>1
  <2> HIDE DEF c, k
  <2>5. y.parent \in E \union {Null}
    BY <2>2
  <2>6. k[x] \in TreeNode(E)
    <3> HIDE DEF y
    <3> QED BY ONLY <2>2, <2>3, <2>4, <2>5 DEF TreeNode
  <2>7. /\ k[x].data = y.data /\ k[x].red = y.red /\ k[x].parent = y.parent /\ k[x].child = c
    BY ONLY <2>4
  <2> QED BY <2>3, <2>6, <2>7
<1> HIDE DEF k
<1>5. t[v] = AllocNode(v, n) /\ \A x \in D : t[x] = k[x]
  BY <1>2
<1>6. t \in Heaps(E)
  <2>1. ASSUME NEW x \in E PROVE t[x] \in TreeNode(E)
    <3>1. CASE x = v
      BY ONLY <1>3, <1>5, <3>1
    <3>2. CASE x # v
      <4>1. x \in D
        BY <3>2, Zenon
      <4>2. t[x] = k[x] /\ k[x] \in TreeNode(E)
        BY <1>4, <1>5, <4>1, Zenon
      <4> QED BY ONLY <4>2
    <3> QED BY ONLY <3>1, <3>2
  <2> QED BY <1>2, <2>1 DEF Heaps
<1>7. t[v].data = v /\ t[v].red /\ t[v].parent = n /\ \A d \in Sides : t[v].child[d] = Nill
  BY ONLY <1>3, <1>5
<1>8. \A x \in D :
       /\ t[x].data = h[x].data /\ t[x].red = h[x].red /\ t[x].parent = h[x].parent
       /\ \A d \in Sides : t[x].child[d] = IF x = n /\ d = e THEN v ELSE h[x].child[d]
  BY ONLY <1>4, <1>5
<1> QED BY ONLY <1>6, <1>7, <1>8 DEF LeafHung, E

-----------------------------------------------------------------------------
(* Real_Insert: the new leaf *)

\* The tree with a new leaf.
LEMMA HangTree ==
  ASSUME NEW D, IsFiniteSet(D), NEW h, NEW sub, Tree(h, D, sub), NEW v \in Int, v \notin D, v # Null, v < IntMax,
         NEW n, PlaceOf(h, D, sub, v, n), h[n].data # v, NEW e, e = Toward(h, n, v),
         NEW t, LeafHung(D, h, v, n, e, t),
         NEW s, s = [x \in D \union {v} |-> IF x = v THEN {v} ELSE IF n \in sub[x] THEN sub[x] \union {v} ELSE sub[x]]
  PROVE  Tree(t, D \union {v}, s)
<1> DEFINE E == D \union {v}
           o == Other(e)
<1>1. Rooted(h, D, sub) /\ Joined(h, D) /\ Parted(h, D, sub) /\ Ordered(h, D, sub) /\ Nested(h, D, sub)
  BY DEF Tree
<1>2. /\ Nill \in D /\ Null \notin D /\ h[Nill].data = IntMax /\ h[Nill].child[RIGHT] = Nill
      /\ sub \in [D -> SUBSET (D \ {Nill})] /\ sub[Nill] = {} /\ sub[Root(h)] = D \ {Nill} /\ IntMax \in Int
  BY <1>1, KeysAssumption DEF Rooted
<1>3. /\ n \in D /\ (n = Nill => Root(h) = Nill) /\ \A x \in D \ {Nill} : h[x].data # v
      /\ h[n].child[e] = Nill
      /\ \A a \in D \ {Nill} : n \in sub[a] \ {a} => n \in sub[h[a].child[Toward(h, a, v)]]
  BY DEF PlaceOf
<1>4. e \in Sides /\ o \in Sides /\ Other(o) = e /\ o # e /\ (\A d \in Sides : d = e \/ d = o) /\ (n = Nill => e = LEFT)
      /\ \A a : Toward(h, a, v) \in Sides
  <2>1. e \in Sides /\ \A a : Toward(h, a, v) \in Sides
    BY SideFacts DEF Toward
  <2>2. n = Nill => e = LEFT
    BY <1>2 DEF Toward
  <2> QED BY <2>1, <2>2, SideFacts
<1>5. /\ t[v].data = v /\ t[v].parent = n
      /\ \A d \in Sides : t[v].child[d] = Nill
      /\ \A x \in D :
           /\ t[x].data = h[x].data /\ t[x].parent = h[x].parent
           /\ \A d \in Sides : t[x].child[d] = IF x = n /\ d = e THEN v ELSE h[x].child[d]
  BY DEF LeafHung
<1>6. /\ s \in [E -> SUBSET (E \ {Nill})] /\ s[v] = {v} /\ s[Nill] = {}
      /\ \A x \in D : s[x] = IF n \in sub[x] THEN sub[x] \union {v} ELSE sub[x]
  <2>1. v # Nill
    BY <1>2
  <2>2. \A x \in D : sub[x] \subseteq D \ {Nill}
    BY <1>2
  <2> QED BY <1>2, <2>1, <2>2
<1>7. v # Nill /\ v \notin D /\ \A x \in D : v \notin sub[x] /\ Nill \notin sub[x] /\ sub[x] \subseteq D
  BY <1>2
<1>8. \A x \in D, d \in Sides : h[x].child[d] \in D
  BY <1>1 DEF Joined
<1> HIDE DEF o
<1>9. ASSUME n # Nill
      PROVE  n \in sub[n] /\ n \notin sub[h[n].child[o]] /\ sub[n] = {n} \union sub[h[n].child[o]]
  <2>1. n \in D \ {Nill} /\ h[n].child[Other(o)] = Nill
    BY <1>3, <1>4, <1>9
  <2>2. /\ n \in sub[n] /\ n \notin sub[h[n].child[o]]
        /\ sub[n] = {n} \union sub[h[n].child[o]] \union sub[Nill]
    BY ONLY <1>4, <2>1, Tree(h, D, sub), Below
  <2> QED BY ONLY <1>2, <2>2
\* On which side of a node the leaf is.
<1>10. ASSUME NEW x \in D \ {Nill}, NEW d \in Sides
       PROVE  /\ v \in s[t[x].child[d]] <=> (n \in sub[x] /\ d = Toward(h, x, v))
              /\ s[t[x].child[d]] \ {v} = sub[h[x].child[d]]
  <2>1. CASE x = n
    <3>1. n # Nill
      BY <2>1
    <3>2. CASE d = e
      <4>1. t[x].child[d] = v /\ h[x].child[d] = Nill
        BY <1>3, <1>5, <2>1, <3>2
      <4>2. n \in sub[x]
        BY <1>9, <2>1, <3>1
      <4>3. d = Toward(h, x, v)
        BY <2>1, <3>2
      <4> QED BY ONLY <1>2, <1>6, <4>1, <4>2, <4>3
    <3>3. CASE d # e
      <4>1. t[x].child[d] = h[x].child[d] /\ h[x].child[d] \in D /\ d = o
        BY <1>4, <1>5, <1>8, <3>3
      <4>2. n \notin sub[h[x].child[d]]
        BY <1>9, <2>1, <3>1, <4>1
      <4>3. d # Toward(h, x, v)
        BY <2>1, <3>3
      <4>4. s[h[x].child[d]] = sub[h[x].child[d]] /\ v \notin sub[h[x].child[d]]
        BY <1>6, <1>7, <4>1, <4>2, Zenon
      <4> QED BY ONLY <4>1, <4>3, <4>4
    <3> QED BY <3>2, <3>3, Zenon
  <2>2. CASE x # n
    <3> DEFINE c == h[x].child[d]
    <3>1. t[x].child[d] = c /\ c \in D
      BY <1>5, <1>8, <2>2
    <3>2. n \in sub[c] <=> (n \in sub[x] /\ d = Toward(h, x, v))
      <4>1. /\ sub[c] \subseteq sub[x] /\ sub[c] \intersect sub[h[x].child[Other(d)]] = {}
        BY Below
      <4>2. ASSUME n \in sub[x] PROVE n \in sub[h[x].child[Toward(h, x, v)]]
        BY <1>3, <2>2, <4>2
      <4>3. Toward(h, x, v) = d \/ Toward(h, x, v) = Other(d)
        BY <1>4, SideFacts
      <4> QED BY <4>1, <4>2, <4>3
    <3> HIDE DEF c
    <3>3. s[c] = IF n \in sub[c] THEN sub[c] \union {v} ELSE sub[c]
      BY <1>6, <3>1
    <3>4. v \notin sub[c]
      BY <1>7, <3>1
    <3>5. v \in s[c] <=> n \in sub[c]
      BY ONLY <3>3, <3>4
    <3>6. s[c] \ {v} = sub[c]
      BY ONLY <3>3, <3>4
    <3> QED BY ONLY <3>1, <3>2, <3>5, <3>6 DEF c
  <2> QED BY <2>1, <2>2, Zenon
<1>11. Rooted(t, E, s)
  <2>1. IsFiniteSet(E)
    BY FS_AddElement
  <2>2. t[Nill].data = IntMax /\ t[Nill].child[RIGHT] = Nill
    <3>1. RIGHT # e \/ n # Nill
      BY <1>4, SideFacts
    <3> QED BY <1>2, <1>5, <3>1, SideFacts
  <2>3. s[Root(t)] = E \ {Nill}
    <3>1. Root(t) = IF Nill = n /\ LEFT = e THEN v ELSE Root(h)
      BY <1>2, <1>5, SideFacts DEF Root
    <3>2. CASE n = Nill
      <4>1. Root(t) = v /\ Root(h) = Nill
        BY <1>3, <1>4, <3>1, <3>2
      <4>2. D \ {Nill} = {}
        BY ONLY <1>2, <4>1
      <4> QED BY ONLY <1>6, <1>7, <4>1, <4>2
    <3>3. CASE n # Nill
      <4>1. Root(t) = Root(h) /\ Root(h) \in D
        <5>1. Root(h) \in D
          BY <1>2, <1>8, SideFacts DEF Root
        <5> QED BY <3>1, <3>3, <5>1
      <4>2. n \in sub[Root(h)]
        BY <1>2, <1>3, <3>3
      <4> QED BY ONLY <1>2, <1>6, <1>7, <4>1, <4>2
    <3> QED BY <3>2, <3>3, Zenon
  <2> QED BY <1>2, <1>6, <2>1, <2>2, <2>3, Zenon DEF Rooted
<1>12. Joined(t, E)
  <2>1. ASSUME NEW x \in E, NEW d \in Sides
        PROVE  t[x].child[d] \in E /\ (t[x].child[d] # Nill => t[t[x].child[d]].parent = x)
    <3>1. CASE x = v
      BY <1>2, <1>5, <3>1
    <3>2. CASE x = n /\ d = e
      BY <1>3, <1>5, <3>2
    <3>3. CASE x # v /\ ~(x = n /\ d = e)
      <4>1. x \in D /\ t[x].child[d] = h[x].child[d] /\ h[x].child[d] \in D
        BY <1>5, <1>8, <3>3
      <4>2. h[x].child[d] # Nill => h[h[x].child[d]].parent = x
        BY <1>1, <4>1 DEF Joined
      <4> QED BY <1>5, <4>1, <4>2
    <3> QED BY <3>1, <3>2, <3>3
  <2>2. ASSUME NEW x \in E \ {Nill} PROVE t[x].parent \in E /\ \E d \in Sides : t[t[x].parent].child[d] = x
    <3>1. CASE x = v
      <4>1. t[x].parent = n /\ t[n].child[e] = v
        BY <1>3, <1>4, <1>5, <3>1
      <4> QED BY <1>3, <1>4, <3>1, <4>1
    <3>2. CASE x # v
      <4>1. x \in D \ {Nill} /\ t[x].parent = h[x].parent
        BY <1>5, <3>2
      <4>2. PICK d \in Sides : h[h[x].parent].child[d] = x
        BY <1>1, <4>1 DEF Joined
      <4>3. h[x].parent \in D
        BY <1>1, <4>1 DEF Joined
      <4>4. t[h[x].parent].child[d] = x
        BY <1>3, <1>5, <4>1, <4>2, <4>3
      <4> QED BY <4>1, <4>3, <4>4
    <3> QED BY <3>1, <3>2
  <2> QED BY <2>1, <2>2 DEF Joined
<1>13. \A d \in Sides : s[t[v].child[d]] = {}
  BY <1>5, <1>6, Zenon
<1>14. \A x \in D \ {Nill} : s[x] \ {v} = sub[x] /\ (v \in s[x] <=> n \in sub[x])
  BY <1>6, <1>7
<1>15. Parted(t, E, s)
  <2> SUFFICES ASSUME NEW x \in E \ {Nill}, NEW d \in Sides
      PROVE  /\ s[x] = {x} \union s[t[x].child[d]] \union s[t[x].child[Other(d)]]
             /\ x \notin s[t[x].child[d]]
             /\ s[t[x].child[d]] \intersect s[t[x].child[Other(d)]] = {}
    BY Zenon DEF Parted
  <2>1. Other(d) \in Sides /\ Other(d) # d
    BY SideFacts
  <2>2. CASE x = v
    BY <1>6, <1>13, <2>1, <2>2, Zenon
  <2>3. CASE x # v
    <3> DEFINE a == t[x].child[d]
               b == t[x].child[Other(d)]
               ha == h[x].child[d]
               hb == h[x].child[Other(d)]
    <3>1. x \in D \ {Nill}
      BY <2>3
    <3>2. sub[x] = {x} \union sub[ha] \union sub[hb] /\ x \notin sub[ha] /\ sub[ha] \intersect sub[hb] = {}
      BY <1>1, <3>1 DEF Parted
    <3>3. /\ v \in s[a] <=> (n \in sub[x] /\ d = Toward(h, x, v))
          /\ s[a] \ {v} = sub[ha]
      BY <1>10, <3>1, Zenon
    <3>4. /\ v \in s[b] <=> (n \in sub[x] /\ Other(d) = Toward(h, x, v))
          /\ s[b] \ {v} = sub[hb]
      BY <1>10, <2>1, <3>1, Zenon
    <3>5. s[x] \ {v} = sub[x] /\ (v \in s[x] <=> n \in sub[x])
      BY <1>14, <3>1
    <3>6. Toward(h, x, v) = d \/ Toward(h, x, v) = Other(d)
      BY <1>4, SideFacts
    <3>7. v \notin sub[ha] /\ v \notin sub[hb]
      BY <1>7, <1>8, <2>1, <3>1
    <3> HIDE DEF a, b, ha, hb
    <3>8. s[x] = {x} \union s[a] \union s[b]
      <4>1. ASSUME NEW y PROVE y \in s[x] <=> y \in {x} \union s[a] \union s[b]
        <5>1. CASE y = v
          BY ONLY <2>1, <2>3, <3>3, <3>4, <3>5, <3>6, <5>1
        <5>2. CASE y # v
          <6>1. (y \in s[x] <=> y \in sub[x]) /\ (y \in s[a] <=> y \in sub[ha]) /\ (y \in s[b] <=> y \in sub[hb])
            BY ONLY <3>3, <3>4, <3>5, <5>2
          <6> QED BY ONLY <3>2, <6>1
        <5> QED BY <5>1, <5>2
      <4> QED BY <4>1
    <3>9. x \notin s[a]
      BY ONLY <2>3, <3>2, <3>3
    <3>10. s[a] \intersect s[b] = {}
      <4>1. ASSUME NEW y \in s[a], y \in s[b] PROVE FALSE
        <5>1. y # v
          BY ONLY <2>1, <3>3, <3>4, <4>1
        <5> QED BY ONLY <3>2, <3>3, <3>4, <4>1, <5>1
      <4> QED BY <4>1, Zenon
    <3> QED BY <3>8, <3>9, <3>10, Zenon DEF a, b
  <2> QED BY <2>2, <2>3, Zenon
<1>16. Ordered(t, E, s)
  <2>1. ASSUME NEW x \in E \ {Nill} PROVE t[x].data \in Int /\ t[x].data < IntMax
    <3>1. x \in D => h[x].data \in Int /\ h[x].data < IntMax
      BY <1>1 DEF Ordered
    <3> QED BY <1>5, <3>1
  <2>2. ASSUME NEW x \in E \ {Nill}, NEW y \in E \ {Nill}, t[x].data = t[y].data PROVE x = y
    <3>1. x \in D /\ y \in D /\ h[x].data = h[y].data => x = y
      BY <1>1 DEF Ordered
    <3>2. x \in D => t[x].data = h[x].data /\ h[x].data # v
      BY <1>3, <1>5
    <3>3. y \in D => t[y].data = h[y].data /\ h[y].data # v
      BY <1>3, <1>5
    <3> QED BY <1>5, <2>2, <3>1, <3>2, <3>3
  <2>3. ASSUME NEW x \in E \ {Nill}, NEW d \in Sides, NEW y \in s[t[x].child[d]] PROVE Beside(t, x, d, y)
    <3>1. x # v
      BY <1>13, <2>3, Zenon
    <3>2. x \in D \ {Nill}
      BY <3>1
    <3>3. CASE y = v
      <4>1. d = Toward(h, x, v)
        BY <1>10, <2>3, <3>2, <3>3, Zenon
      <4>2. h[x].data \in Int /\ h[x].data # v /\ t[x].data = h[x].data /\ t[y].data = v
        BY <1>1, <1>3, <1>5, <3>2, <3>3 DEF Ordered
      <4>3. (h[x].data < v /\ d = RIGHT) \/ (v < h[x].data /\ d = LEFT)
        BY <4>1, <4>2 DEF Toward
      <4> QED BY <4>2, <4>3, SideFacts DEF Beside
    <3>4. CASE y # v
      <4>1. y \in sub[h[x].child[d]]
        <5>1. s[t[x].child[d]] \ {v} = sub[h[x].child[d]]
          BY <1>10, <3>2, Zenon
        <5> QED BY ONLY <5>1, <3>4, y \in s[t[x].child[d]]
      <4>2. Beside(h, x, d, y)
        BY <1>1, <3>2, <4>1 DEF Ordered
      <4>3. y \in D
        BY <1>7, <1>8, <3>2, <4>1
      <4>4. t[x].data = h[x].data /\ t[y].data = h[y].data
        BY <1>5, <3>2, <4>3
      <4> QED BY <4>2, <4>4 DEF Beside
    <3> QED BY <3>3, <3>4
  <2> QED BY <2>1, <2>2, <2>3, Zenon DEF Ordered
<1>17. Nested(t, E, s)
  <2> SUFFICES ASSUME NEW x \in E, NEW y \in s[x] PROVE s[y] \subseteq s[x] /\ (y # x => t[y].parent \in s[x])
    BY Zenon DEF Nested
  <2>1. CASE x = v
    BY <1>6, <2>1
  <2>2. CASE x # v
    <3>1. x \in D /\ s[x] = (IF n \in sub[x] THEN sub[x] \union {v} ELSE sub[x])
      BY <1>6, <2>2
    <3>2. CASE y = v
      <4>1. n \in sub[x]
        BY <1>7, <3>1, <3>2
      <4> QED BY <1>5, <1>6, <3>1, <3>2, <4>1
    <3>3. CASE y # v
      <4>1. y \in sub[x] /\ y \in D
        BY <1>7, <3>1, <3>3
      <4>2. sub[y] \subseteq sub[x] /\ (y # x => h[y].parent \in sub[x])
        BY <1>1, <3>1, <4>1 DEF Nested
      <4>3. s[y] = (IF n \in sub[y] THEN sub[y] \union {v} ELSE sub[y]) /\ t[y].parent = h[y].parent
        BY <1>5, <1>6, <4>1
      <4> QED BY ONLY <3>1, <4>2, <4>3
    <3> QED BY <3>2, <3>3, Zenon
  <2> QED BY <2>1, <2>2, Zenon
<1> QED BY <1>11, <1>12, <1>15, <1>16, <1>17 DEF Tree

-----------------------------------------------------------------------------
(* Real_Insert *)

\* Real_Insert adds what is not there, and leaves a settled tree.
RealInserted(h, D, v, r) ==
  \/ v \in D /\ r = h
  \/ /\ v \notin D /\ r \in Heaps(D \union {v}) /\ Settled(r, D \union {v})
     /\ r[v].data = v /\ \A x \in D : r[x].data = h[x].data

\* Real_Insert keeps a balanced search tree one.
LEMMA RealInsertSettles ==
  ASSUME NEW D, IsFiniteSet(D), NEW h \in Heaps(D), NEW sub, NEW nb, Tree(h, D, sub), Balanced(h, D, nb),
         \A x \in D \ {Nill} : h[x].data = x, NEW v \in Nat \ {0}, v < IntMax,
         NEW r, r = Real_Insert(h, v)
  PROVE  RealInserted(h, D, v, r)
<1> DEFINE next == [n \in D |-> IF h[n].data = v \/ h[n].child[Toward(h, n, v)] = Nill
                                  THEN n ELSE h[n].child[Toward(h, n, v)]]
           place == LoopEnd(h, next, Root(h))
           t == Linked(h, v, place)
           E == D \union {v}
           e == Toward(h, place, v)
<1>1. DOMAIN h = D
  BY HeapFacts
<1>2. r = IF h[place].data = v THEN h ELSE Insert_Balance(t, v)
  BY <1>1 DEF Real_Insert
<1>3. PlaceOf(h, D, sub, v, place)
  <2>1. next = [n \in D |-> IF h[n].data = v \/ h[n].child[Toward(h, n, v)] = Nill
                                  THEN n ELSE h[n].child[Toward(h, n, v)]]
        /\ place = LoopEnd(h, next, Root(h)) /\ v \in Int
    OBVIOUS
  <2> HIDE DEF place, next
  <2> QED BY <2>1, PlaceFound
<1> HIDE DEF place
<1>4. place \in D /\ (h[place].data = v => place # Nill)
  BY <1>3, KeysAssumption DEF PlaceOf, Tree, Rooted
<1>5. CASE h[place].data = v
  BY <1>2, <1>4, <1>5 DEF RealInserted
<1>6. CASE h[place].data # v
  <2>1. v \notin D
    <3>1. v # Nill /\ \A x \in D \ {Nill} : h[x].data # v
      BY <1>3, <1>6 DEF PlaceOf, Nill
    <3> QED BY <3>1
  <2>2. v # Null /\ v \in Int /\ Nill \in D /\ Null \notin D
    BY DEF Null, Tree, Rooted
  <2>3. t = Linked(h, v, place) /\ e = Toward(h, place, v) /\ r = Insert_Balance(t, v)
    BY <1>2, <1>6
  <2> HIDE DEF t, e
  <2>4. LeafHung(D, h, v, place, e, t)
    BY <1>4, <2>1, <2>2, <2>3, LeafFields
  <2> DEFINE s == [x \in E |-> IF x = v THEN {v} ELSE IF place \in sub[x] THEN sub[x] \union {v} ELSE sub[x]]
  <2>5. Tree(t, E, s)
    <3>1. s = [x \in D \union {v} |-> IF x = v THEN {v} ELSE IF place \in sub[x] THEN sub[x] \union {v} ELSE sub[x]]
      OBVIOUS
    <3> HIDE DEF s
    <3>2. Tree(t, D \union {v}, s)
      BY ONLY <1>3, <1>6, <2>1, <2>2, <2>3, <2>4, <3>1, IsFiniteSet(D), Tree(h, D, sub), v < IntMax, HangTree
    <3> QED BY <3>2
  <2> HIDE DEF s
  <2>6. /\ t \in Heaps(E) /\ t[v].data = v /\ t[v].red /\ (\A d \in Sides : t[v].child[d] = Nill)
        /\ \A x \in D :
             /\ t[x].data = h[x].data /\ t[x].red = h[x].red
             /\ \A d \in Sides : t[x].child[d] = IF x = place /\ d = e THEN v ELSE h[x].child[d]
    BY <2>4 DEF LeafHung
  <2>7. EvenWith(h, D, nb, Nill, LEFT) /\ ~h[Nill].red /\ ~h[Root(h)].red /\ RedFree(h, D, Nill)
    BY BalancedIs
  <2>8. nb \in [D -> Nat \ {0}] /\ nb[Nill] = 1
        /\ \A x \in D \ {Nill}, d \in Sides : nb[x] = nb[h[x].child[d]] + Blk(h, x) + Lack(x, d, Nill, LEFT)
    BY <2>7 DEF EvenWith
  <2>9. \A x \in D, d \in Sides : h[x].child[d] \in D
    BY DEF Tree, Joined
  <2>10. h[place].child[e] = Nill
    BY <1>3, <1>6, <2>3 DEF PlaceOf
  <2> DEFINE c == [x \in E |-> IF x = v THEN 1 ELSE nb[x]]
  <2>11. c[v] = 1 /\ (\A x \in D : c[x] = nb[x]) /\ c \in [E -> Nat \ {0}] /\ c[Nill] = 1
    <3>1. \A x \in D : c[x] = nb[x]
      BY <2>1
    <3> QED BY <2>2, <2>8, <3>1
  <2> HIDE DEF c
  <2>12. ASSUME NEW x \in E \ {Nill}, NEW d \in Sides
         PROVE  c[x] = c[t[x].child[d]] + Blk(t, x) + Lack(x, d, Nill, LEFT)
    <3>1. Lack(x, d, Nill, LEFT) = 0
      BY DEF Lack
    <3>2. CASE x = v
      <4>1. Blk(t, v) = 0 /\ t[v].child[d] = Nill
        BY <2>6, BlkFacts
      <4> QED BY ONLY <2>11, <3>1, <3>2, <4>1
    <3>3. CASE x # v
      <4>1. x \in D \ {Nill} /\ nb[x] = nb[h[x].child[d]] + Blk(h, x) + Lack(x, d, Nill, LEFT)
        BY <2>8, <3>3
      <4>2. Blk(t, x) = Blk(h, x)
        BY <2>6, <4>1 DEF Blk
      <4>3. c[t[x].child[d]] = nb[h[x].child[d]]
        <5>1. CASE x = place /\ d = e
          <6>1. t[x].child[d] = v /\ h[x].child[d] = Nill
            BY <1>4, <2>6, <2>10, <5>1
          <6> QED BY ONLY <2>8, <2>11, <6>1
        <5>2. CASE ~(x = place /\ d = e)
          <6>1. t[x].child[d] = h[x].child[d] /\ h[x].child[d] \in D
            BY <2>6, <2>9, <4>1, <5>2
          <6> QED BY ONLY <2>11, <6>1
        <5> QED BY <5>1, <5>2
      <4>4. c[x] = nb[x]
        BY <2>11, <4>1
      <4> QED BY ONLY <4>1, <4>2, <4>3, <4>4
    <3> QED BY <3>2, <3>3
  <2>13. Even(t, E, c)
    <3>1. EvenWith(t, E, c, Nill, LEFT)
      BY ONLY <2>11, <2>12 DEF EvenWith
    <3> QED BY ONLY <2>5, <3>1, EvenIsEven
  <2>14. RedBut(t, E, v)
    <3>1. ASSUME NEW x \in E \ {Nill}, NEW d \in Sides
          PROVE  t[x].child[d] = v \/ ~t[x].red \/ ~t[t[x].child[d]].red
      <4>1. CASE x = v
        <5>1. t[x].child[d] = Nill /\ ~t[Nill].red
          BY <2>2, <2>6, <2>7, <4>1
        <5> QED BY <5>1
      <4>2. CASE x # v /\ t[x].child[d] # v
        <5>1. x \in D \ {Nill} /\ t[x].child[d] = h[x].child[d] /\ h[x].child[d] \in D
          BY <2>6, <2>9, <4>2
        <5>2. ~h[x].red \/ ~h[h[x].child[d]].red
          BY <2>7, <5>1 DEF RedFree
        <5> QED BY <2>6, <5>1, <5>2
      <4> QED BY <4>1, <4>2
    <3> QED BY <3>1 DEF RedBut
  <2>15. Root(t) = v \/ ~t[Root(t)].red
    <3>1. Root(t) = v \/ Root(t) = Root(h)
      BY <2>2, <2>6, SideFacts DEF Root
    <3>2. Root(h) \in D
      BY <2>2, <2>9, SideFacts DEF Root
    <3> QED BY <2>6, <2>7, <3>1, <3>2
  <2>16. InsertState(t, E, v, s, c)
    <3>1. v \in E \ {Nill} /\ ~t[Nill].red
      BY <2>1, <2>2, <2>6, <2>7
    <3> QED BY <2>5, <2>6, <2>13, <2>14, <2>15, <3>1 DEF InsertState
  <2>17. s \in [E -> SUBSET E] /\ c \in [E -> Nat] /\ IsFiniteSet(E) /\ Null \notin E
    <3>1. s \in [E -> SUBSET (E \ {Nill})] /\ IsFiniteSet(E)
      BY <2>5 DEF Tree, Rooted
    <3>2. SUBSET (E \ {Nill}) \subseteq SUBSET E
      OBVIOUS
    <3>3. Null \notin E /\ c \in [E -> Nat]
      BY <2>2, <2>11
    <3> QED BY <3>1, <3>2, <3>3
  <2>18. InsertGood(t, E, v, Turns(t))
    <3>1. Turns(t) = Cardinality(E) + 4
      BY <2>6, HeapFacts DEF Turns
    <3>2. Cardinality(E) \in Nat /\ Cardinality(s[v]) \in Nat
      BY <2>17, Sizes
    <3>3. Turns(t) >= Cardinality(E) - Cardinality(s[v]) + 2
      BY ONLY <3>1, <3>2
    <3> QED BY ONLY <2>16, <2>17, <3>3, Zenon DEF InsertGood
  <2> HIDE DEF E
  <2>19. InsertEnded(t, r, E)
    BY ONLY <2>3, <2>6, <2>17, <2>18, InsertSettles
  <2>20. r \in Heaps(E) /\ Settled(r, E) /\ \A x \in E : r[x].data = t[x].data
    BY ONLY <2>19 DEF InsertEnded, SameData
  <2>21. \A x \in D : r[x].data = h[x].data
    BY <2>6, <2>20 DEF E
  <2>22. r[v].data = v
    BY <2>6, <2>20 DEF E
  <2> QED BY ONLY <2>1, <2>20, <2>21, <2>22 DEF RealInserted, E
<1> QED BY <1>5, <1>6

-----------------------------------------------------------------------------
(* Remove_Balance: the side that is a black too few *)

\* Red under red is only next to n, if n is red.
RedAround(h, T, n) ==
  \A x \in T \ {Nill}, d \in Sides :
    ~h[x].red \/ ~h[h[x].child[d]].red \/ (h[n].red /\ (x = n \/ h[x].child[d] = n))

\* On the side e of p, where n is, a black node is missing.
RemoveState(h, T, n, p, e, sub, nb) ==
  /\ Tree(h, T, sub) /\ EvenWith(h, T, nb, p, e) /\ n \in T /\ p \in T /\ e \in Sides /\ (p = Nill => e = LEFT)
  /\ h[n].parent = p /\ h[p].child[e] = n
  /\ ~h[Nill].red /\ RedAround(h, T, n) /\ (Root(h) = n \/ ~h[Root(h)].red)

\* The sibling, and its child away from n.
FarRed(h, n, p, e) ==
  ~h[n].red /\ ~h[h[p].child[Other(e)]].red /\ h[h[h[p].child[Other(e)]].child[Other(e)]].red
ParentRed(h, n, p, e) ==
  ~h[n].red /\ h[p].red /\ ~h[h[p].child[Other(e)]].red

\* Why b calls are enough.
RemoveBudget(h, T, n, p, e, sub, b) ==
  \/ b >= Cardinality(T) - Cardinality(sub[n]) + 3
  \/ b >= 1 /\ h[n].red
  \/ b >= 1 /\ FarRed(h, n, p, e)
  \/ b >= 2 /\ ParentRed(h, n, p, e)

RemoveGood(h, T, n, b) ==
  \/ b >= 1 /\ n = Nill /\ h[Nill].red /\ Settled(Blacken(h, Nill), T)
  \/ \E sub \in [T -> SUBSET T], nb \in [T -> Nat], p \in T, e \in Sides :
       RemoveState(h, T, n, p, e, sub, nb) /\ RemoveBudget(h, T, n, p, e, sub, b)

\* A call leaves r, and b calls are enough then.
GoesOn(D, h, T, n, r, b) == r \in Heaps(D) /\ SameData(h, r, D) /\ RemoveGood(r, T, n, b)

EndedIn(h, t, D, T) == t \in Heaps(D) /\ SameData(h, t, D) /\ Settled(t, T)

\* Who is who around a black node one black short.
Short(h, T, n, p, e, s, sub, nb) ==
  /\ Dir(h, n) = e /\ GetSiblingPointer(h, n) = s /\ Other(e) \in Sides /\ Other(Other(e)) = e /\ Other(e) # e
  /\ s \in T \ {Nill} /\ s # n /\ s # p /\ n # p /\ h[s].parent = p /\ n \notin sub[s] /\ (n # Nill => n \in sub[p])
  /\ h[s].child[e] \in T /\ h[s].child[Other(e)] \in T
  /\ nb[n] \in Nat \ {0} /\ nb[s] = nb[n] + 1 /\ nb[p] = nb[s] + Blk(h, p)
  /\ p \notin sub[n] /\ sub[n] \subseteq sub[p] /\ p \in sub[p]
  /\ RedFree(h, T, Nill) /\ ~h[Root(h)].red

\* What is known around a black node that is a black too few: its sibling is
\* no leaf.
LEMMA ShortFacts ==
  ASSUME NEW h, NEW T, NEW n, NEW p, NEW e, NEW sub, NEW nb, RemoveState(h, T, n, p, e, sub, nb),
         ~h[n].red, p # Nill, NEW s, s = h[p].child[Other(e)]
  PROVE  Short(h, T, n, p, e, s, sub, nb)
<1>1. /\ Tree(h, T, sub) /\ EvenWith(h, T, nb, p, e) /\ n \in T /\ p \in T \ {Nill} /\ e \in Sides
      /\ h[n].parent = p /\ h[p].child[e] = n
      /\ ~h[Nill].red /\ RedAround(h, T, n) /\ (Root(h) = n \/ ~h[Root(h)].red)
  BY DEF RemoveState
<1>2. Other(e) \in Sides /\ Other(Other(e)) = e /\ Other(e) # e
  BY <1>1, SideFacts
<1>3. /\ nb \in [T -> Nat \ {0}] /\ nb[Nill] = 1
      /\ \A x \in T \ {Nill}, d \in Sides : nb[x] = nb[h[x].child[d]] + Blk(h, x) + Lack(x, d, p, e)
  BY <1>1 DEF EvenWith
<1>4. /\ p \in sub[p] /\ n \in T /\ s \in T /\ sub[n] \subseteq sub[p] /\ p \notin sub[n]
      /\ sub[n] \intersect sub[s] = {}
      /\ (n # Nill => n \in sub[n] /\ n # p)
  BY ONLY <1>1, s = h[p].child[Other(e)], Below
<1>5. nb[n] \in Nat \ {0} /\ nb[s] \in Nat \ {0} /\ nb[p] \in Nat \ {0}
  BY <1>1, <1>3, <1>4
<1>6. nb[s] = nb[n] + 1 /\ nb[p] = nb[s] + Blk(h, p)
  <2>1. Lack(p, e, p, e) = 1 /\ Lack(p, Other(e), p, e) = 0
    BY <1>2 DEF Lack
  <2>2. nb[p] = nb[n] + Blk(h, p) + Lack(p, e, p, e) /\ nb[p] = nb[s] + Blk(h, p) + Lack(p, Other(e), p, e)
    BY <1>1, <1>2, <1>3
  <2>3. Blk(h, p) \in 0 .. 1
    BY BlkFacts
  <2> QED BY ONLY <1>5, <2>1, <2>2, <2>3
<1>7. s # Nill /\ s # n
  BY <1>3, <1>5, <1>6
<1>8. /\ s \in sub[s] /\ s # p /\ h[s].parent = p
  BY ONLY <1>1, <1>2, <1>7, s = h[p].child[Other(e)], Below
<1>9. n \notin sub[s] /\ n # p /\ (n # Nill => n \in sub[p])
  <2>1. Nill \notin sub[s]
    BY <1>1, <1>4 DEF Tree, Rooted
  <2> QED BY ONLY <1>1, <1>4, <2>1
<1>10. Dir(h, n) = e /\ GetSiblingPointer(h, n) = s
  <2>1. Dir(h, n) = IF h[p].child[LEFT] = n THEN LEFT ELSE RIGHT
    BY <1>1 DEF Dir
  <2>2. h[p].child[Other(e)] # n
    BY <1>7
  <2>3. (e = LEFT /\ Other(e) = RIGHT) \/ (e = RIGHT /\ Other(e) = LEFT)
    BY <1>1, SideFacts DEF Other, Sides
  <2>4. Dir(h, n) = e
    BY ONLY <1>1, <2>1, <2>2, <2>3
  <2> QED BY ONLY <1>1, <2>4, s = h[p].child[Other(e)] DEF GetSiblingPointer
<1>11. h[s].child[e] \in T /\ h[s].child[Other(e)] \in T
  BY <1>1, <1>2, <1>4, Zenon DEF Tree, Joined
<1>12. RedFree(h, T, Nill)
  BY <1>1 DEF RedAround, RedFree
<1>13. ~h[Root(h)].red
  BY <1>1
<1> QED BY ONLY <1>1, <1>2, <1>4, <1>5, <1>6, <1>7, <1>8, <1>9, <1>10, <1>11, <1>12, <1>13 DEF Short

\* Painting and then turning.
PaintTurned(D, h, k, T, dir, n, up, r) ==
  /\ r \in Heaps(D) /\ SameData(k, r, D) /\ SameColour(k, r, D) /\ \E s \in [T -> SUBSET T] : Tree(r, T, s)
  /\ Shape(h, r, T, dir, n, up)

\* A rotation of a tree in which only colours were set before.
LEMMA TurnPainted ==
  ASSUME NEW D, IsFiniteSet(D), NEW T \in SUBSET D, NEW h, NEW k \in Heaps(D), NEW sub, Tree(h, T, sub), Alike(h, k, T),
         NEW dir \in Sides, NEW n \in T \ {Nill}, NEW up, up = h[n].child[Other(dir)], up # Nill,
         NEW r, r = Rotate_Node(k, h[n].data, dir)
  PROVE  PaintTurned(D, h, k, T, dir, n, up, r)
<1>1. Tree(k, T, sub)
  BY AlikeTree
<1>2. Other(dir) \in Sides
  BY SideFacts
<1>3. up = k[n].child[Other(dir)] /\ r = Rotate_Node(k, k[n].data, dir)
  BY <1>2 DEF Alike
<1>4. Turned(D, k, T, dir, n, up, r)
  BY <1>1, <1>3, RotateShape
<1>5. /\ r \in Heaps(D) /\ \E s \in [T -> SUBSET T] : Tree(r, T, s)
      /\ up \in T \ {Nill} /\ SameColour(k, r, D) /\ SameData(k, r, D) /\ Shape(k, r, T, dir, n, up)
  BY ONLY <1>4 DEF Turned
<1>6. Alike(r, r, T)
  BY DEF Alike
<1>7. Shape(h, r, T, dir, n, up)
  BY ONLY <1>5, <1>6, Tree(h, T, sub), Alike(h, k, T), dir \in Sides, n \in T \ {Nill}, ShapeAlike
<1> QED BY ONLY <1>5, <1>7 DEF PaintTurned

\* A red node becomes the missing black one.
LEMMA RemoveRed ==
  ASSUME NEW D, NEW h \in Heaps(D), NEW T \in SUBSET D, NEW n, NEW p, NEW e, NEW sub, NEW nb,
         RemoveState(h, T, n, p, e, sub, nb), h[n].red, NEW r, r = Blacken(h, n)
  PROVE  EndedIn(h, r, D, T)
<1>1. /\ Tree(h, T, sub) /\ EvenWith(h, T, nb, p, e) /\ n \in T \ {Nill} /\ p \in T /\ e \in Sides
      /\ h[n].parent = p /\ h[p].child[e] = n
      /\ ~h[Nill].red /\ RedAround(h, T, n) /\ (Root(h) = n \/ ~h[Root(h)].red)
  BY DEF RemoveState
<1>2. PaintsBlack(D, h, n, r)
  <2>1. n \in D
    BY <1>1
  <2> QED BY <2>1, PaintBlack
<1>3. /\ r \in Heaps(D) /\ ~r[n].red
      /\ \A x \in D : /\ r[x].data = h[x].data /\ r[x].parent = h[x].parent /\ r[x].child = h[x].child
                      /\ x # n => r[x].red = h[x].red
  BY ONLY <1>2 DEF PaintsBlack
<1>4. Tree(r, T, sub)
  <2>1. Alike(h, r, T)
    BY ONLY <1>3, T \in SUBSET D DEF Alike
  <2> QED BY ONLY <1>1, <2>1, AlikeTree
<1>5. /\ nb \in [T -> Nat \ {0}] /\ nb[Nill] = 1
      /\ \A x \in T \ {Nill}, d \in Sides : nb[x] = nb[h[x].child[d]] + Blk(h, x) + Lack(x, d, p, e)
  BY <1>1 DEF EvenWith
<1> DEFINE c == [x \in T |-> IF x = n THEN nb[n] + 1 ELSE nb[x]]
<1>6. c \in [T -> Nat \ {0}] /\ c[Nill] = 1 /\ c[n] = nb[n] + 1 /\ \A x \in T \ {n} : c[x] = nb[x]
  <2>1. Nill \in T
    BY <1>1 DEF Tree, Rooted
  <2> QED BY <1>1, <1>5, <2>1
<1> HIDE DEF c
<1>7. ASSUME NEW x \in T \ {Nill}, NEW d \in Sides
      PROVE  c[x] = c[r[x].child[d]] + Blk(r, x) + Lack(x, d, Nill, LEFT)
  <2> DEFINE k == h[x].child[d]
  <2>1. r[x].child[d] = k /\ Lack(x, d, Nill, LEFT) = 0
    BY <1>3 DEF Lack
  <2>2. k \in T /\ k # x
    BY <1>1, Below
  <2>3. k = n <=> x = p /\ d = e
    <3>1. k = n => x = p
      BY <1>1 DEF Tree, Joined
    <3>2. \A a \in Sides : h[p].child[a] = n => a = Dir(h, n)
      BY <1>1, OneSide
    <3> QED BY <1>1, <3>1, <3>2
  <2>4. nb[x] = nb[k] + Blk(h, x) + Lack(x, d, p, e) /\ nb[k] \in Nat /\ nb[x] \in Nat
    BY <1>5, <2>2
  <2> HIDE DEF k
  <2>5. Blk(h, x) \in 0 .. 1 /\ Blk(r, x) \in 0 .. 1
    BY BlkFacts
  <2>6. c[k] = nb[k] + Lack(x, d, p, e)
    <3>1. CASE k = n
      <4>1. Lack(x, d, p, e) = 1
        BY <2>3, <3>1 DEF Lack
      <4> QED BY ONLY <1>6, <3>1, <4>1
    <3>2. CASE k # n
      <4>1. Lack(x, d, p, e) = 0
        BY <2>3, <3>2 DEF Lack
      <4> QED BY ONLY <1>6, <2>2, <2>4, <3>2, <4>1
    <3> QED BY <3>1, <3>2
  <2>7. Lack(x, d, p, e) \in 0 .. 1
    BY DEF Lack
  <2>8. CASE x = n
    <3>1. Blk(h, x) = 0 /\ Blk(r, x) = 1
      BY ONLY <1>3, <2>8, h[n].red, BlkFacts
    <3> QED BY ONLY <1>6, <2>1, <2>4, <2>6, <2>7, <2>8, <3>1
  <2>9. CASE x # n
    <3>1. Blk(r, x) = Blk(h, x) /\ c[x] = nb[x]
      BY <1>3, <1>6, <2>9 DEF Blk
    <3> QED BY ONLY <2>1, <2>4, <2>5, <2>6, <2>7, <3>1
  <2> QED BY <2>8, <2>9
<1>8. EvenWith(r, T, c, Nill, LEFT)
  BY ONLY <1>6, <1>7 DEF EvenWith
<1>9. RedFree(r, T, Nill)
  <2>1. ASSUME NEW x \in T \ {Nill}, NEW d \in Sides PROVE ~r[x].red \/ ~r[r[x].child[d]].red
    <3>1. h[x].child[d] \in T /\ r[x].child[d] = h[x].child[d]
      BY <1>1, <1>3 DEF Tree, Joined
    <3>2. ~h[x].red \/ ~h[h[x].child[d]].red \/ x = n \/ h[x].child[d] = n
      BY <1>1 DEF RedAround
    <3> QED BY <1>3, <3>1, <3>2
  <2> QED BY <2>1 DEF RedFree
<1>10. ~r[Nill].red /\ ~r[Root(r)].red
  <2>1. Nill \in T /\ Root(h) \in T
    BY <1>1, SideFacts DEF Tree, Rooted, Joined, Root
  <2>2. Root(r) = Root(h)
    BY <1>3, <2>1 DEF Root
  <2> QED BY <1>1, <1>3, <2>1, <2>2
<1>11. Balanced(r, T, c)
  BY ONLY <1>4, <1>8, <1>9, <1>10, BalancedIs
<1>12. sub \in [T -> SUBSET T] /\ c \in [T -> Nat]
  <2>1. sub \in [T -> SUBSET (T \ {Nill})]
    BY <1>1 DEF Tree, Rooted
  <2>2. SUBSET (T \ {Nill}) \subseteq SUBSET T
    OBVIOUS
  <2> QED BY <1>6, <2>1, <2>2
<1>13. Settled(r, T)
  BY ONLY <1>4, <1>11, <1>12 DEF Settled
<1>14. SameData(h, r, D)
  BY <1>3 DEF SameData
<1> QED BY ONLY <1>3, <1>13, <1>14 DEF EndedIn

-----------------------------------------------------------------------------
(* Remove_Balance: a red sibling, a black sibling *)

\* The ghosts have the types their lemmas ask for.
LEMMA TypedNumbers ==
  ASSUME NEW h, NEW T, NEW sub, NEW nb, NEW p, NEW e, Tree(h, T, sub), EvenWith(h, T, nb, p, e)
  PROVE  sub \in [T -> SUBSET T] /\ nb \in [T -> Nat] /\ Nill \in T
<1>1. sub \in [T -> SUBSET (T \ {Nill})] /\ Nill \in T
  BY DEF Tree, Rooted
<1>2. SUBSET (T \ {Nill}) \subseteq SUBSET T
  OBVIOUS
<1>3. nb \in [T -> Nat \ {0}]
  BY DEF EvenWith
<1> QED BY <1>1, <1>2, <1>3

\* A red sibling goes up, and the parent becomes red.
LEMMA RemoveRedSibling ==
  ASSUME NEW D, IsFiniteSet(D), NEW h \in Heaps(D), NEW T \in SUBSET D, NEW n, NEW p, NEW e, NEW sub, NEW nb,
         RemoveState(h, T, n, p, e, sub, nb), ~h[n].red, p # Nill, NEW s, s = h[p].child[Other(e)], h[s].red,
         NEW k, k = Redden(Blacken(h, s), p), NEW r, r = Rotate_Node(k, h[p].data, e)
  PROVE  GoesOn(D, h, T, n, r, 2)
<1> DEFINE bump == h[s].child[e]
<1>1. /\ Tree(h, T, sub) /\ EvenWith(h, T, nb, p, e) /\ n \in T /\ p \in T \ {Nill} /\ e \in Sides
      /\ h[n].parent = p /\ h[p].child[e] = n /\ ~h[Nill].red
  BY DEF RemoveState
<1>2. Short(h, T, n, p, e, s, sub, nb)
  BY ShortFacts
<1>3. /\ Other(e) \in Sides /\ Other(Other(e)) = e /\ Other(e) # e
      /\ s \in T \ {Nill} /\ s # n /\ s # p /\ n # p /\ h[s].parent = p /\ n \notin sub[s]
      /\ bump \in T
      /\ RedFree(h, T, Nill) /\ ~h[Root(h)].red
  BY ONLY <1>2 DEF Short
<1>4. bump = h[s].child[e]
  OBVIOUS
<1> HIDE DEF bump
<1>5. ~h[p].red /\ ~h[bump].red
  BY ONLY <1>1, <1>3, <1>4, s = h[p].child[Other(e)], h[s].red, Zenon DEF RedFree
<1>6. PaintedPair(h, k, D, s, p)
  <2>1. s \in D /\ p \in D /\ s # p
    BY <1>1, <1>3
  <2> QED BY <2>1, PaintPair
<1>7. /\ k \in Heaps(D) /\ Alike(h, k, D) /\ SameData(h, k, D) /\ ~k[s].red /\ k[p].red
      /\ \A x \in D \ {s, p} : k[x].red <=> h[x].red
  BY ONLY <1>6 DEF PaintedPair
<1>8. PaintTurned(D, h, k, T, e, p, s, r)
  <2>1. Alike(h, k, T)
    BY ONLY <1>7, T \in SUBSET D DEF Alike
  <2> QED BY ONLY <1>1, <1>3, <1>7, <2>1, IsFiniteSet(D), T \in SUBSET D, s = h[p].child[Other(e)],
              r = Rotate_Node(k, h[p].data, e), TurnPainted, Zenon
<1>9. /\ r \in Heaps(D) /\ SameData(k, r, D) /\ SameColour(k, r, D) /\ \E z \in [T -> SUBSET T] : Tree(r, T, z)
      /\ Shape(h, r, T, e, p, s)
  BY ONLY <1>8 DEF PaintTurned
<1>10. Exchanged(h, r, T, p, s)
  BY ONLY <1>1, <1>3, <1>5, <1>7, <1>9, h[s].red, T \in SUBSET D DEF Exchanged, SameColour
<1> DEFINE c == [x \in T |-> IF x = p THEN nb[s] ELSE IF x = s THEN nb[p] ELSE nb[x]]
<1>11. EvenWith(r, T, c, p, e)
  <2>1. c = [x \in T |-> IF x = p THEN nb[s] ELSE IF x = s THEN nb[p] ELSE nb[x]]
    OBVIOUS
  <2> HIDE DEF c
  <2> QED BY ONLY <1>1, <1>3, <1>9, <1>10, <2>1, h[s].red, s = h[p].child[Other(e)], ExchangeEven
<1> HIDE DEF c
<1>12. RedFree(r, T, Nill)
  <2>1. RedFree(h, T, s)
    BY ONLY <1>3 DEF RedFree
  <2> QED BY ONLY <1>1, <1>3, <1>4, <1>5, <1>9, <1>10, <2>1, ~h[n].red, s = h[p].child[Other(e)], ExchangeRed, Zenon
<1>13. ~r[Root(r)].red /\ ~r[Nill].red
  BY ONLY <1>1, <1>3, <1>9, <1>10, s = h[p].child[Other(e)], ExchangeRoot
<1>14. /\ r[p].child[e] = n /\ r[p].child[Other(e)] = bump
  BY ONLY <1>1, <1>4, <1>9 DEF Shape
<1>15. r[n].parent = p
  <2>1. n # Nill => n # bump
    <3>1. bump # Nill => bump \in sub[s]
      <4>1. sub[bump] \subseteq sub[s] /\ (bump # Nill => bump \in sub[bump])
        BY ONLY <1>1, <1>3, <1>4, Below
      <4> QED BY <4>1
    <3> QED BY <1>3, <3>1
  <2> QED BY ONLY <1>1, <1>3, <1>4, <1>9, <2>1 DEF Shape
<1>16. PICK z \in [T -> SUBSET T] : Tree(r, T, z)
  BY <1>9, Zenon
<1>17. (r[n].red <=> h[n].red) /\ (r[bump].red <=> h[bump].red) /\ r[p].red
  <2>1. bump # s /\ bump # p
    BY ONLY <1>1, <1>3, <1>4, s = h[p].child[Other(e)], AroundTurn
  <2> QED BY ONLY <1>1, <1>3, <1>10, <2>1, h[s].red DEF Exchanged
<1>18. RemoveState(r, T, n, p, e, z, c)
  <2>1. RedAround(r, T, n)
    BY ONLY <1>12 DEF RedFree, RedAround
  <2> QED BY ONLY <1>1, <1>11, <1>13, <1>14, <1>15, <1>16, <2>1 DEF RemoveState
<1>19. ParentRed(r, n, p, e)
  BY ONLY <1>5, <1>14, <1>17, ~h[n].red DEF ParentRed
<1>20. RemoveGood(r, T, n, 2)
  <2>1. c \in [T -> Nat]
    BY ONLY <1>11, <1>16, TypedNumbers
  <2>2. RemoveBudget(r, T, n, p, e, z, 2)
    BY ONLY <1>19 DEF RemoveBudget
  <2>3. p \in T
    BY ONLY <1>1
  <2> QED BY ONLY <1>1, <1>16, <1>18, <2>1, <2>2, <2>3 DEF RemoveGood
<1>21. SameData(h, r, D)
  BY ONLY <1>7, <1>9 DEF SameData
<1> QED BY ONLY <1>9, <1>20, <1>21 DEF GoesOn

\* r is h with the lack at p and no more at n.
Lifted(D, h, T, n, p, sub, r) ==
  /\ r \in Heaps(D) /\ SameData(h, r, D)
  /\ \E c \in [T -> Nat], q \in T, f \in Sides : RemoveState(r, T, p, q, f, sub, c)
  /\ r[p].red <=> h[p].red
  /\ Cardinality(sub[n]) < Cardinality(sub[p])

\* A black sibling with black children becomes red, and the lack goes up.
LEMMA RemoveBothBlack ==
  ASSUME NEW D, IsFiniteSet(D), NEW h \in Heaps(D), NEW T \in SUBSET D, NEW n, NEW p, NEW e, NEW sub, NEW nb,
         RemoveState(h, T, n, p, e, sub, nb), ~h[n].red, p # Nill, NEW s, s = h[p].child[Other(e)], ~h[s].red,
         ~h[h[s].child[e]].red, ~h[h[s].child[Other(e)]].red,
         NEW r, r = Redden(h, s)
  PROVE  Lifted(D, h, T, n, p, sub, r)
<1> DEFINE q == h[p].parent
           f == Dir(h, p)
<1>1. /\ Tree(h, T, sub) /\ EvenWith(h, T, nb, p, e) /\ n \in T /\ p \in T \ {Nill} /\ e \in Sides
      /\ h[n].parent = p /\ h[p].child[e] = n /\ ~h[Nill].red
  BY Zenon DEF RemoveState
<1>2. Short(h, T, n, p, e, s, sub, nb)
  BY ShortFacts, Zenon
<1>3. /\ Other(e) \in Sides /\ Other(Other(e)) = e /\ Other(e) # e
      /\ s \in T \ {Nill} /\ s # n /\ s # p /\ n # p /\ h[s].parent = p
      /\ nb[n] \in Nat \ {0} /\ nb[s] = nb[n] + 1 /\ nb[p] = nb[s] + Blk(h, p)
      /\ p \notin sub[n] /\ sub[n] \subseteq sub[p] /\ p \in sub[p]
      /\ RedFree(h, T, Nill) /\ ~h[Root(h)].red
  BY ONLY <1>2 DEF Short
<1>4. PaintsRed(D, h, s, r)
  <2>1. s \in D
    BY <1>3, Zenon
  <2> QED BY <2>1, PaintRed, Zenon
<1>5. /\ r \in Heaps(D) /\ r[s].red
      /\ \A x \in D : /\ r[x].data = h[x].data /\ r[x].parent = h[x].parent /\ r[x].child = h[x].child
                      /\ x # s => r[x].red = h[x].red
  BY ONLY <1>4 DEF PaintsRed
<1>6. Tree(r, T, sub)
  <2>1. Alike(h, r, T)
    BY ONLY <1>5, T \in SUBSET D DEF Alike
  <2> QED BY ONLY <1>1, <2>1, AlikeTree
<1>7. /\ q \in T /\ f \in Sides /\ h[q].child[f] = p /\ (q = Nill => f = LEFT) /\ (q # Nill => q # p)
      /\ \A d \in Sides : h[q].child[d] = p => d = f
  BY <1>1, OneSide
<1>8. /\ nb \in [T -> Nat \ {0}] /\ nb[Nill] = 1
      /\ \A x \in T \ {Nill}, d \in Sides : nb[x] = nb[h[x].child[d]] + Blk(h, x) + Lack(x, d, p, e)
  BY <1>1, Zenon DEF EvenWith
<1>9. Blk(h, p) \in 0 .. 1
  BY BlkFacts, Zenon
<1> DEFINE c == [x \in T |-> IF x = s \/ x = p THEN nb[x] - 1 ELSE nb[x]]
<1>10. /\ c \in [T -> Nat \ {0}] /\ c[Nill] = 1 /\ c[s] = nb[s] - 1 /\ c[p] = nb[p] - 1
       /\ \A x \in T \ {s, p} : c[x] = nb[x]
  <2>1. nb[s] - 1 \in Nat \ {0} /\ nb[p] - 1 \in Nat \ {0}
    BY ONLY <1>3, <1>9
  <2>2. Nill \in T
    BY <1>1, Zenon DEF Tree, Rooted
  <2> QED BY <1>1, <1>3, <1>8, <2>1, <2>2, Zenon
<1> HIDE DEF c, q, f
<1>11. ASSUME NEW x \in T \ {Nill}, NEW d \in Sides
       PROVE  c[x] = c[r[x].child[d]] + Blk(r, x) + Lack(x, d, q, f)
  <2> DEFINE m == h[x].child[d]
  <2>1. r[x].child[d] = m
    BY <1>5, Zenon
  <2>2. m \in T /\ m # x /\ (m # Nill => h[m].parent = x)
    BY ONLY <1>1, x \in T \ {Nill}, d \in Sides, Child
  <2>3. nb[x] = nb[m] + Blk(h, x) + Lack(x, d, p, e) /\ nb[m] \in Nat /\ nb[x] \in Nat
    BY <1>8, <2>2, Zenon
  <2>4. d = e \/ d = Other(e)
    BY <1>1, SideFacts, Zenon
  <2>5. x = p => (d = e => m = n) /\ (d = Other(e) => m = s)
    BY <1>1, Zenon
  <2>6. m = s => x = p /\ d = Other(e)
    BY <1>1, <1>3, <2>2, <2>4, <2>5, Zenon
  <2>7. m = p <=> x = q /\ d = f
    BY <1>1, <1>7, <2>2, Zenon DEF q
  <2> HIDE DEF m
  <2>8. CASE x = p
    <3>1. Lack(x, d, q, f) = 0 /\ Blk(r, x) = Blk(h, x)
      BY <1>1, <1>3, <1>5, <1>7, <2>8, Zenon DEF Lack, Blk
    <3>2. CASE d = e
      <4>1. m = n /\ c[n] = nb[n] /\ Lack(x, d, p, e) = 1
        BY <1>1, <1>3, <1>10, <2>5, <2>8, <3>2, Zenon DEF Lack
      <4> QED BY ONLY <1>9, <1>10, <2>1, <2>3, <2>8, <3>1, <4>1
    <3>3. CASE d = Other(e)
      <4>1. m = s /\ Lack(x, d, p, e) = 0
        BY <1>3, <2>5, <2>8, <3>3, Zenon DEF Lack
      <4> QED BY ONLY <1>3, <1>9, <1>10, <2>1, <2>3, <2>8, <3>1, <4>1
    <3> QED BY <2>4, <3>2, <3>3, Zenon
  <2>9. CASE x # p
    <3>1. Lack(x, d, p, e) = 0 /\ m # s
      BY <2>6, <2>9, Zenon DEF Lack
    <3>2. c[m] = nb[m] - Lack(x, d, q, f)
      <4>1. CASE m = p
        <5>1. Lack(x, d, q, f) = 1
          BY <2>7, <4>1, Zenon DEF Lack
        <5> QED BY ONLY <1>10, <4>1, <5>1
      <4>2. CASE m # p
        <5>1. Lack(x, d, q, f) = 0
          BY <2>7, <4>2, Zenon DEF Lack
        <5> QED BY ONLY <1>10, <2>2, <2>3, <3>1, <4>2, <5>1
      <4> QED BY <4>1, <4>2, Zenon
    <3>3. Lack(x, d, q, f) \in 0 .. 1 /\ Blk(h, x) \in 0 .. 1
      BY BlkFacts DEF Lack
    <3>4. CASE x = s
      <4>1. Blk(h, x) = 1 /\ Blk(r, x) = 0
        BY ONLY <1>5, <3>4, ~h[s].red, BlkFacts
      <4> QED BY ONLY <1>10, <2>1, <2>3, <3>1, <3>2, <3>3, <3>4, <4>1
    <3>5. CASE x # s
      <4>1. Blk(r, x) = Blk(h, x) /\ c[x] = nb[x]
        BY <1>5, <1>10, <2>9, <3>5, Zenon DEF Blk
      <4> QED BY ONLY <2>1, <2>3, <3>1, <3>2, <3>3, <4>1
    <3> QED BY <3>4, <3>5, Zenon
  <2> QED BY <2>8, <2>9, Zenon
<1>12. EvenWith(r, T, c, q, f)
  BY ONLY <1>10, <1>11 DEF EvenWith
<1>13. (r[p].red <=> h[p].red)
  <2>1. p \in D /\ p # s
    BY <1>1, <1>3, Zenon
  <2> QED BY ONLY <1>5, <2>1
<1>14. RedAround(r, T, p)
  <2>1. ASSUME NEW x \in T \ {Nill}, NEW d \in Sides
        PROVE  ~r[x].red \/ ~r[r[x].child[d]].red \/ (r[p].red /\ (x = p \/ r[x].child[d] = p))
    <3>1. h[x].child[d] \in T /\ r[x].child[d] = h[x].child[d] /\ (h[x].child[d] # Nill => h[h[x].child[d]].parent = x)
      <4>1. h[x].child[d] \in T /\ (h[x].child[d] # Nill => h[h[x].child[d]].parent = x)
        BY ONLY <1>1, x \in T \ {Nill}, d \in Sides, Child
      <4>2. r[x].child[d] = h[x].child[d]
        BY ONLY <1>5, x \in T \ {Nill}, T \in SUBSET D
      <4> QED BY ONLY <4>1, <4>2
    <3>2. ~h[x].red \/ ~h[h[x].child[d]].red
      BY <1>3, Zenon DEF RedFree
    <3>3. CASE x = s
      <4>1. h[x].child[d] = h[s].child[e] \/ h[x].child[d] = h[s].child[Other(e)]
        BY <1>1, <3>3, SideFacts, Zenon
      <4>2. ~h[h[x].child[d]].red
        BY <4>1, Zenon
      <4>3. h[x].child[d] # s
        BY ONLY <1>1, <3>3, x \in T \ {Nill}, d \in Sides, Child
      <4>4. r[h[x].child[d]].red = h[h[x].child[d]].red
        BY ONLY <1>5, <3>1, <4>3, T \in SUBSET D
      <4> QED BY ONLY <3>1, <4>2, <4>4
    <3>4. CASE x # s /\ h[x].child[d] = s
      <4>1. x = p
        BY <1>3, <3>1, <3>4, Zenon
      <4> QED BY <4>1, Zenon
    <3>5. CASE x # s /\ h[x].child[d] # s
      <4>1. r[x].red = h[x].red /\ r[h[x].child[d]].red = h[h[x].child[d]].red
        <5>1. x \in D /\ h[x].child[d] \in D
          BY <3>1, Zenon
        <5> QED BY ONLY <1>5, <3>1, <3>5, <5>1, Zenon
      <4> QED BY ONLY <3>1, <3>2, <4>1
    <3> QED BY <3>3, <3>4, <3>5, Zenon
  <2> QED BY <2>1, Zenon DEF RedAround
<1>15. ~r[Nill].red /\ ~r[Root(r)].red
  <2>1. Nill \in T /\ Root(h) \in T /\ (Root(h) # Nill => h[Root(h)].parent = Nill)
    <3>1. Rooted(h, T, sub) /\ Joined(h, T)
      BY <1>1, Zenon DEF Tree
    <3> QED BY ONLY <3>1, SideFacts DEF Rooted, Joined, Root
  <2>2. Root(r) = Root(h)
    BY <1>5, <2>1, Zenon DEF Root
  <2>3. Root(h) # s
    BY <1>1, <1>3, <2>1, Zenon
  <2>4. ~h[Nill].red /\ ~h[Root(h)].red
    BY <1>1, <1>3, Zenon
  <2>5. Nill # s /\ Nill \in D /\ Root(h) \in D
    BY <1>3, <2>1, Zenon
  <2> QED BY ONLY <1>5, <2>2, <2>3, <2>4, <2>5
<1>16. RemoveState(r, T, p, q, f, sub, c)
  <2>1. r[p].parent = q /\ r[q].child[f] = p
    <3>1. p \in D /\ q \in D
      BY <1>1, <1>7, Zenon
    <3>2. r[p].parent = h[p].parent /\ r[q].child = h[q].child
      BY ONLY <1>5, <3>1
    <3> QED BY <1>7, <3>2, Zenon DEF q
  <2> QED BY ONLY <1>1, <1>6, <1>7, <1>12, <1>14, <1>15, <2>1 DEF RemoveState
<1>17. Cardinality(sub[n]) < Cardinality(sub[p])
  <2>1. IsFiniteSet(T) /\ sub[p] \subseteq T
    BY <1>1, Zenon DEF Tree, Rooted
  <2>2. IsFiniteSet(sub[p])
    BY <2>1, FS_Subset, Zenon
  <2>3. IsFiniteSet(sub[n]) /\ Cardinality(sub[n]) <= Cardinality(sub[p]) /\ Cardinality(sub[n]) # Cardinality(sub[p])
    BY <1>3, <2>2, FS_Subset, Zenon
  <2> QED BY <2>2, <2>3, FS_CardinalityType
<1>18. SameData(h, r, D) /\ c \in [T -> Nat]
  <2>1. SameData(h, r, D)
    BY <1>5, Zenon DEF SameData
  <2> QED BY <1>10, <2>1, Zenon
<1> QED BY <1>5, <1>7, <1>13, <1>16, <1>17, <1>18, Zenon DEF Lifted

\* r is h with nill_node red, which its call comes to.
AtRoot(D, h, T, n, e, r) ==
  /\ r \in Heaps(D) /\ SameData(h, r, D) /\ RemoveGood(r, T, Nill, 1)
  /\ Dir(h, n) = e /\ e = LEFT /\ GetSiblingPointer(h, n) = Nill /\ h[Nill].child[Other(e)] = Nill
  /\ h[Nill].child[e] = n /\ ~h[Nill].red

\* At the root the lack is none; nill_node becomes red for a turn.
LEMMA RemoveAtRoot ==
  ASSUME NEW D, NEW h \in Heaps(D), NEW T \in SUBSET D, NEW n, NEW e, NEW sub, NEW nb,
         RemoveState(h, T, n, Nill, e, sub, nb), ~h[n].red, NEW r, r = Redden(h, Nill)
  PROVE  AtRoot(D, h, T, n, e, r)
<1>1. /\ Tree(h, T, sub) /\ EvenWith(h, T, nb, Nill, LEFT) /\ n \in T /\ e = LEFT
      /\ h[n].parent = Nill /\ h[Nill].child[e] = n /\ ~h[Nill].red /\ RedAround(h, T, n)
      /\ ~h[Root(h)].red
  BY DEF RemoveState, Root
<1>2. Nill \in T /\ h[Nill].child[RIGHT] = Nill /\ Other(e) = RIGHT /\ Nill \in D
  BY <1>1 DEF Tree, Rooted, Other
<1>3. Dir(h, n) = e /\ GetSiblingPointer(h, n) = Nill
  BY <1>1, <1>2 DEF Dir, GetSiblingPointer
<1>4. PaintsRed(D, h, Nill, r)
  BY <1>2, PaintRed
<1>5. /\ r \in Heaps(D) /\ r[Nill].red
      /\ \A x \in D : /\ r[x].data = h[x].data /\ r[x].parent = h[x].parent /\ r[x].child = h[x].child
                      /\ x # Nill => r[x].red = h[x].red
  BY ONLY <1>4 DEF PaintsRed
<1> DEFINE t == Blacken(r, Nill)
<1>6. PaintsBlack(D, r, Nill, t)
  <2>1. t = Blacken(r, Nill)
    OBVIOUS
  <2> HIDE DEF t
  <2> QED BY ONLY <1>2, <1>5, <2>1, PaintBlack
<1> HIDE DEF t
<1>7. /\ t \in Heaps(D) /\ ~t[Nill].red
      /\ \A x \in D : /\ t[x].data = r[x].data /\ t[x].parent = r[x].parent /\ t[x].child = r[x].child
                      /\ x # Nill => t[x].red = r[x].red
  BY ONLY <1>6 DEF PaintsBlack
<1>8. /\ \A x \in T : /\ t[x].data = h[x].data /\ t[x].parent = h[x].parent /\ t[x].child = h[x].child
                      /\ t[x].red <=> h[x].red
  BY ONLY <1>1, <1>5, <1>7, T \in SUBSET D
<1>9. Tree(t, T, sub)
  <2>1. Alike(h, t, T)
    BY ONLY <1>8 DEF Alike
  <2> QED BY ONLY <1>1, <2>1, AlikeTree
<1>10. EvenWith(t, T, nb, Nill, LEFT)
  <2>1. ASSUME NEW x \in T \ {Nill}, NEW d \in Sides
        PROVE  nb[x] = nb[t[x].child[d]] + Blk(t, x) + Lack(x, d, Nill, LEFT)
    <3>1. nb[x] = nb[h[x].child[d]] + Blk(h, x) + Lack(x, d, Nill, LEFT)
      BY <1>1 DEF EvenWith
    <3>2. Blk(t, x) = Blk(h, x) /\ t[x].child[d] = h[x].child[d]
      BY <1>8, BlkFacts
    <3> QED BY ONLY <3>1, <3>2
  <2> QED BY <1>1, <2>1 DEF EvenWith
<1>11. RedFree(t, T, Nill)
  <2>1. ASSUME NEW x \in T \ {Nill}, NEW d \in Sides PROVE ~t[x].red \/ ~t[t[x].child[d]].red
    <3>1. h[x].child[d] \in T
      BY <1>1 DEF Tree, Joined
    <3>2. ~h[x].red \/ ~h[h[x].child[d]].red
      BY <1>1 DEF RedAround
    <3> QED BY <1>8, <3>1, <3>2
  <2> QED BY <2>1 DEF RedFree
<1>12. ~t[Root(t)].red
  <2>1. Root(h) \in T
    BY <1>1, <1>2, SideFacts DEF Tree, Joined, Root
  <2>2. Root(t) = Root(h)
    BY <1>2, <1>8 DEF Root
  <2> QED BY <1>1, <1>8, <2>1, <2>2
<1>13. Balanced(t, T, nb)
  BY ONLY <1>7, <1>9, <1>10, <1>11, <1>12, BalancedIs
<1>14. sub \in [T -> SUBSET T] /\ nb \in [T -> Nat]
  BY ONLY <1>1, TypedNumbers
<1>15. Settled(t, T)
  BY ONLY <1>9, <1>13, <1>14 DEF Settled
<1>16. RemoveGood(r, T, Nill, 1)
  BY ONLY <1>5, <1>15 DEF RemoveGood, t
<1>17. SameData(h, r, D)
  BY <1>5 DEF SameData
<1> QED BY <1>1, <1>2, <1>3, <1>5, <1>16, <1>17 DEF AtRoot

-----------------------------------------------------------------------------
(* Remove_Balance: a red child of the sibling *)

\* A red near child of the sibling comes up to be a sibling with a red far child.
LEMMA RemoveNearRed ==
  ASSUME NEW D, IsFiniteSet(D), NEW h \in Heaps(D), NEW T \in SUBSET D, NEW n, NEW p, NEW e, NEW sub, NEW nb,
         RemoveState(h, T, n, p, e, sub, nb), ~h[n].red, p # Nill, NEW s, s = h[p].child[Other(e)], ~h[s].red,
         NEW near, near = h[s].child[e], h[near].red, ~h[h[s].child[Other(e)]].red,
         NEW k, k = Redden(Blacken(h, near), s), NEW r, r = Rotate_Node(k, h[s].data, Other(e))
  PROVE  GoesOn(D, h, T, n, r, 1)
<1> DEFINE o == Other(e)
           far == h[s].child[o]
           bump == h[near].child[o]
<1>1. /\ Tree(h, T, sub) /\ EvenWith(h, T, nb, p, e) /\ n \in T /\ p \in T \ {Nill} /\ e \in Sides
      /\ h[n].parent = p /\ h[p].child[e] = n /\ ~h[Nill].red
  BY Zenon DEF RemoveState
<1>2. Short(h, T, n, p, e, s, sub, nb)
  BY ShortFacts, Zenon
<1>3. /\ o \in Sides /\ Other(o) = e /\ o # e
      /\ s \in T \ {Nill} /\ s # n /\ s # p /\ n # p /\ h[s].parent = p /\ n \notin sub[s]
      /\ near \in T /\ far \in T
      /\ RedFree(h, T, Nill) /\ ~h[Root(h)].red
  BY ONLY <1>2, near = h[s].child[e] DEF Short, o, far
<1>4. bump = h[near].child[o] /\ far = h[s].child[o] /\ s = h[p].child[o] /\ near = h[s].child[Other(o)] /\ ~h[far].red
      /\ r = Rotate_Node(k, h[s].data, o)
  BY <1>3, Zenon
<1> HIDE DEF bump, far, o
<1>5. near # Nill
  BY ONLY <1>1, h[near].red
<1>6. /\ near \in T \ {Nill} /\ near # s /\ far # near /\ far # s /\ bump \in T /\ bump # s /\ bump # near
      /\ \A x \in T \ {s, near}, d \in Sides : h[x].child[d] \in T /\ h[x].child[d] # near
  <2>1. PICK away : away = h[near].child[Other(o)]
    BY Zenon
  <2>2. Tree(h, T, sub) /\ o \in Sides /\ s \in T \ {Nill} /\ near = h[s].child[Other(o)] /\ far = h[s].child[o]
        /\ bump = h[near].child[o]
    BY ONLY <1>1, <1>3, <1>4, Zenon
  <2> QED BY ONLY <1>5, <2>1, <2>2, AroundTurn
<1>7. near \in sub[s] /\ sub[near] \subseteq sub[s] /\ sub[bump] \subseteq sub[near] /\ (bump # Nill => bump \in sub[bump])
  <2>1. near \in sub[near] /\ sub[near] \subseteq sub[s]
    BY ONLY <1>1, <1>3, <1>5, near = h[s].child[e], Below
  <2>2. sub[bump] \subseteq sub[near] /\ (bump # Nill => bump \in sub[bump])
    <3>1. PICK away : away = h[near].child[Other(o)]
      OBVIOUS
    <3>2. Tree(h, T, sub) /\ o \in Sides /\ near \in T \ {Nill} /\ bump = h[near].child[o]
      BY ONLY <1>1, <1>3, <1>4, <1>6, Zenon
    <3> QED BY ONLY <3>1, <3>2, Below
  <2> QED BY <2>1, <2>2, Zenon
<1>8. ~h[bump].red /\ near # p
  <2>1. p \notin sub[s]
    <3>1. PICK away : away = h[p].child[Other(o)]
      BY Zenon
    <3>2. Tree(h, T, sub) /\ p \in T \ {Nill} /\ o \in Sides /\ s = h[p].child[o]
      BY ONLY <1>1, <1>3, <1>4, Zenon
    <3> QED BY ONLY <3>1, <3>2, Below
  <2> QED BY ONLY <1>3, <1>4, <1>6, <1>7, <2>1, h[near].red, Zenon DEF RedFree
<1>9. PaintedPair(h, k, D, near, s)
  <2>1. s \in D /\ near \in D /\ s # near
    BY <1>3, <1>6, Zenon
  <2> QED BY <2>1, PaintPair, Zenon
<1>10. /\ k \in Heaps(D) /\ Alike(h, k, D) /\ SameData(h, k, D) /\ ~k[near].red /\ k[s].red
       /\ \A x \in D \ {near, s} : k[x].red <=> h[x].red
  BY ONLY <1>9 DEF PaintedPair
<1>11. PaintTurned(D, h, k, T, o, s, near, r)
  <2>1. Alike(h, k, T)
    BY ONLY <1>10, T \in SUBSET D DEF Alike
  <2> QED BY ONLY <1>1, <1>3, <1>4, <1>5, <1>10, <2>1, IsFiniteSet(D), T \in SUBSET D, TurnPainted, Zenon
<1>12. /\ r \in Heaps(D) /\ SameData(k, r, D) /\ SameColour(k, r, D) /\ \E z \in [T -> SUBSET T] : Tree(r, T, z)
       /\ Shape(h, r, T, o, s, near)
  BY ONLY <1>11 DEF PaintTurned
<1>13. Exchanged(h, r, T, s, near)
  BY ONLY <1>1, <1>3, <1>6, <1>10, <1>12, h[near].red, ~h[s].red, T \in SUBSET D DEF Exchanged, SameColour
<1> DEFINE c == [x \in T |-> IF x = s THEN nb[near] ELSE IF x = near THEN nb[s] ELSE nb[x]]
<1>14. EvenWith(r, T, c, p, e)
  <2>1. c = [x \in T |-> IF x = s THEN nb[near] ELSE IF x = near THEN nb[s] ELSE nb[x]]
    BY Zenon
  <2> HIDE DEF c
  <2>2. Tree(h, T, sub) /\ o \in Sides /\ s \in T \ {Nill} /\ near = h[s].child[Other(o)] /\ near # Nill /\ h[near].red
        /\ EvenWith(h, T, nb, p, e) /\ p # near /\ p # s
    BY ONLY <1>1, <1>3, <1>4, <1>5, <1>8, h[near].red, Zenon
  <2>3. Shape(h, r, T, o, s, near) /\ Exchanged(h, r, T, s, near)
    BY ONLY <1>12, <1>13
  <2> QED BY ONLY <2>1, <2>2, <2>3, ExchangeEven
<1> HIDE DEF c
<1>15. RedFree(r, T, Nill)
  <2>1. RedFree(h, T, near)
    BY ONLY <1>3 DEF RedFree
  <2> QED BY ONLY <1>1, <1>3, <1>4, <1>5, <1>8, <1>12, <1>13, <2>1, ~h[s].red, ExchangeRed, Zenon
<1>16. ~r[Root(r)].red /\ ~r[Nill].red
  <2>2. Tree(h, T, sub) /\ o \in Sides /\ s \in T \ {Nill} /\ near = h[s].child[Other(o)] /\ near # Nill
    BY ONLY <1>1, <1>3, <1>4, <1>5, Zenon
  <2>3. Shape(h, r, T, o, s, near) /\ Exchanged(h, r, T, s, near)
    BY ONLY <1>12, <1>13
  <2>4. (r[Root(r)].red <=> h[Root(h)].red) /\ (r[Nill].red <=> h[Nill].red)
    BY ONLY <2>2, <2>3, ExchangeRoot
  <2> QED BY ONLY <1>1, <1>3, <2>4
<1>17. p \in T \ {s, near}
  BY ONLY <1>1, <1>3, <1>8
<1>18. r[p].child[e] = n /\ r[p].child[o] = near /\ r[near].child[o] = s
  BY ONLY <1>1, <1>3, <1>4, <1>12, <1>17, Zenon DEF Shape
<1>19. n # near /\ (n = Nill \/ n # bump)
  <2>1. n # near
    BY ONLY <1>3, <1>7
  <2>2. bump # Nill => bump \in sub[s]
    BY ONLY <1>7
  <2> QED BY ONLY <1>3, <2>1, <2>2
<1>20. r[n].parent = p
  <2>1. \A x \in T \ {s, near} : (x # h[near].child[o] \/ x = Nill) => r[x].parent = h[x].parent
    BY ONLY <1>12 DEF Shape
  <2>2. n \in T \ {s, near} /\ (n # h[near].child[o] \/ n = Nill) /\ h[n].parent = p
    BY ONLY <1>1, <1>3, <1>4, <1>19, Zenon
  <2> QED BY ONLY <2>1, <2>2
<1>21. PICK z \in [T -> SUBSET T] : Tree(r, T, z)
  BY <1>12, Zenon
<1>22. (r[n].red <=> h[n].red) /\ ~r[near].red /\ r[s].red
  BY ONLY <1>1, <1>3, <1>13, <1>19, h[near].red, ~h[s].red DEF Exchanged
<1>23. RemoveState(r, T, n, p, e, z, c)
  <2>1. RedAround(r, T, n)
    BY ONLY <1>15 DEF RedFree, RedAround
  <2> QED BY ONLY <1>1, <1>14, <1>16, <1>18, <1>20, <1>21, <2>1 DEF RemoveState
<1>24. FarRed(r, n, p, e)
  BY ONLY <1>18, <1>22, ~h[n].red DEF FarRed, o
<1>25. RemoveGood(r, T, n, 1)
  <2>1. c \in [T -> Nat]
    BY ONLY <1>14, <1>21, TypedNumbers
  <2>2. RemoveBudget(r, T, n, p, e, z, 1)
    BY ONLY <1>24 DEF RemoveBudget
  <2>3. p \in T
    BY ONLY <1>1
  <2> QED BY ONLY <1>1, <1>21, <1>23, <2>1, <2>2, <2>3 DEF RemoveGood
<1>26. SameData(h, r, D)
  BY ONLY <1>10, <1>12 DEF SameData
<1> QED BY ONLY <1>12, <1>25, <1>26 DEF GoesOn

\* Three nodes painted: s as p was, p and far black.
PaintedThree(D, h, s, p, far, k) ==
  /\ k \in Heaps(D) /\ Alike(h, k, D) /\ SameData(h, k, D)
  /\ (k[s].red <=> h[p].red) /\ ~k[p].red /\ ~k[far].red
  /\ \A x \in D \ {s, p, far} : k[x].red <=> h[x].red

\* The colours set in the last case of Remove_Balance.
LEMMA PaintThree ==
  ASSUME NEW D, NEW h \in Heaps(D), NEW s \in D, NEW p \in D, NEW far \in D, s # p, s # far, p # far,
         NEW k, k = [h EXCEPT ![s].red = h[p].red, ![p].red = FALSE, ![far].red = FALSE]
  PROVE  PaintedThree(D, h, s, p, far, k)
<1> DEFINE red == h[p].red
           h1 == Painted(h, s, red)
           h2 == Blacken(h1, p)
           h3 == Blacken(h2, far)
<1>1. k = h3
  BY DEF Painted, Blacken
<1>2. red \in BOOLEAN
  BY HeapFacts
<1>3. h1 = Painted(h, s, red) /\ h2 = Blacken(h1, p) /\ h3 = Blacken(h2, far)
  OBVIOUS
<1> HIDE DEF h1, h2, h3, red
<1>4. /\ h1 \in Heaps(D)
      /\ \A x \in D : /\ h1[x].data = h[x].data /\ h1[x].parent = h[x].parent /\ h1[x].child = h[x].child
                      /\ h1[x].red = IF x = s THEN red ELSE h[x].red
  <2>1. /\ Painted(h, s, red) \in Heaps(D)
        /\ \A x \in D : /\ Painted(h, s, red)[x].data = h[x].data /\ Painted(h, s, red)[x].parent = h[x].parent
                        /\ Painted(h, s, red)[x].child = h[x].child
                        /\ Painted(h, s, red)[x].red = IF x = s THEN red ELSE h[x].red
    BY ONLY <1>2, h \in Heaps(D), s \in D, SetRed
  <2> QED BY ONLY <1>3, <2>1
<1>5. PaintsBlack(D, h1, p, h2)
  BY <1>3, <1>4, PaintBlack
<1>6. /\ h2 \in Heaps(D) /\ ~h2[p].red
      /\ \A x \in D : /\ h2[x].data = h1[x].data /\ h2[x].parent = h1[x].parent /\ h2[x].child = h1[x].child
                      /\ x # p => h2[x].red = h1[x].red
  BY ONLY <1>5 DEF PaintsBlack
<1>7. PaintsBlack(D, h2, far, h3)
  BY <1>3, <1>6, PaintBlack
<1>8. /\ h3 \in Heaps(D) /\ ~h3[far].red
      /\ \A x \in D : /\ h3[x].data = h2[x].data /\ h3[x].parent = h2[x].parent /\ h3[x].child = h2[x].child
                      /\ x # far => h3[x].red = h2[x].red
  BY ONLY <1>7 DEF PaintsBlack
<1>9. ~h3[p].red
  <2>1. h3[p].red = h2[p].red
    BY ONLY <1>8, p \in D, p # far
  <2> QED BY ONLY <1>6, <2>1
<1>10. h3[s].red = red
  <2>1. h3[s].red = h2[s].red /\ h2[s].red = h1[s].red /\ h1[s].red = red
    BY ONLY <1>4, <1>6, <1>8, s \in D, s # p, s # far
  <2> QED BY ONLY <2>1
<1>11. \A x \in D \ {s, p, far} : h3[x].red = h[x].red
  BY ONLY <1>4, <1>6, <1>8
<1>12. Alike(h, h3, D) /\ SameData(h, h3, D)
  BY ONLY <1>4, <1>6, <1>8 DEF Alike, SameData
<1>13. (h3[s].red <=> h[p].red) /\ \A x \in D \ {s, p, far} : h3[x].red <=> h[x].red
  BY ONLY <1>10, <1>11 DEF red
<1> QED BY ONLY <1>1, <1>8, <1>9, <1>12, <1>13 DEF PaintedThree

\* With a red far child one rotation gives the lack its black node.
LEMMA RemoveFarRed ==
  ASSUME NEW D, IsFiniteSet(D), NEW h \in Heaps(D), NEW T \in SUBSET D, NEW n, NEW p, NEW e, NEW sub, NEW nb,
         RemoveState(h, T, n, p, e, sub, nb), ~h[n].red, p # Nill, NEW s, s = h[p].child[Other(e)], ~h[s].red,
         NEW far, far = h[s].child[Other(e)], h[far].red,
         NEW k, k = [h EXCEPT ![s].red = h[p].red, ![p].red = FALSE, ![far].red = FALSE],
         NEW r, r = Rotate_Node(k, h[p].data, e)
  PROVE  EndedIn(h, r, D, T)
<1> DEFINE o == Other(e)
           bump == h[s].child[e]
<1>1. /\ Tree(h, T, sub) /\ EvenWith(h, T, nb, p, e) /\ n \in T /\ p \in T \ {Nill} /\ e \in Sides
      /\ h[n].parent = p /\ h[p].child[e] = n /\ ~h[Nill].red
  BY Zenon DEF RemoveState
<1>2. Short(h, T, n, p, e, s, sub, nb)
  BY ShortFacts, Zenon
<1>3. /\ o \in Sides /\ Other(o) = e /\ o # e
      /\ s \in T \ {Nill} /\ s # n /\ s # p /\ n # p /\ h[s].parent = p /\ n \notin sub[s]
      /\ bump \in T /\ far \in T
      /\ nb[n] \in Nat \ {0} /\ nb[s] = nb[n] + 1 /\ nb[p] = nb[s] + Blk(h, p)
      /\ RedFree(h, T, Nill) /\ ~h[Root(h)].red
  BY ONLY <1>2, far = h[s].child[Other(e)] DEF Short, o, bump
<1>4. bump = h[s].child[e] /\ far = h[s].child[o] /\ s = h[p].child[o]
  BY Zenon
<1> HIDE DEF bump, o
<1>5. far # Nill
  BY ONLY <1>1, h[far].red
<1>6. /\ n # s /\ n # p /\ bump # p /\ bump # s /\ far # p /\ far # s
      /\ \A x \in T \ {p, s}, d \in Sides : h[x].child[d] \in T /\ h[x].child[d] # s
  <2>1. s = h[p].child[Other(e)] /\ far = h[s].child[Other(e)]
    BY Zenon
  <2>2. Tree(h, T, sub) /\ e \in Sides /\ p \in T \ {Nill} /\ s # Nill /\ n = h[p].child[e] /\ bump = h[s].child[e]
    BY ONLY <1>1, <1>3, <1>4
  <2> QED BY ONLY <2>1, <2>2, AroundTurn
<1>7. far \in T \ {Nill} /\ h[far].parent = s /\ far # n /\ far # bump
  <2>1. far \in sub[far] /\ sub[far] \subseteq sub[s] /\ h[far].parent = s /\ far # h[s].child[Other(o)]
    <3>1. PICK b : b = h[s].child[Other(o)]
      BY Zenon
    <3>2. Tree(h, T, sub) /\ s \in T \ {Nill} /\ o \in Sides /\ far = h[s].child[o]
      BY ONLY <1>1, <1>3, <1>4
    <3> QED BY ONLY <1>5, <3>1, <3>2, Below
  <2> QED BY ONLY <1>3, <1>4, <1>5, <2>1, Zenon
<1>8. PaintedThree(D, h, s, p, far, k)
  <2>1. s \in D /\ p \in D /\ far \in D /\ s # p /\ s # far /\ p # far
    BY <1>1, <1>3, <1>6, Zenon
  <2> QED BY <2>1, PaintThree, Zenon
<1>9. /\ k \in Heaps(D) /\ Alike(h, k, D) /\ SameData(h, k, D)
      /\ (k[s].red <=> h[p].red) /\ ~k[p].red /\ ~k[far].red
      /\ \A x \in D \ {s, p, far} : k[x].red <=> h[x].red
  BY ONLY <1>8 DEF PaintedThree
<1>10. PaintTurned(D, h, k, T, e, p, s, r)
  <2>1. Alike(h, k, T)
    BY ONLY <1>9, T \in SUBSET D DEF Alike
  <2>2. s = h[p].child[Other(e)] /\ r = Rotate_Node(k, h[p].data, e)
    BY Zenon
  <2> QED BY ONLY <1>1, <1>3, <1>9, <2>1, <2>2, IsFiniteSet(D), T \in SUBSET D, TurnPainted, Zenon
<1>11. /\ r \in Heaps(D) /\ SameData(k, r, D) /\ SameColour(k, r, D) /\ \E z \in [T -> SUBSET T] : Tree(r, T, z)
       /\ Shape(h, r, T, e, p, s)
  BY ONLY <1>10 DEF PaintTurned
<1>12. /\ (r[s].red <=> h[p].red) /\ ~r[p].red /\ ~r[far].red
       /\ \A x \in T \ {s, p, far} : r[x].red <=> h[x].red
  BY ONLY <1>1, <1>3, <1>7, <1>9, <1>11, T \in SUBSET D DEF SameColour
<1>13. /\ r[p].child[e] = n /\ r[p].child[o] = bump /\ r[s].child[e] = p /\ r[s].child[o] = far
       /\ \A x \in T \ {p, s}, d \in Sides :
            (h[x].child[d] = p /\ r[x].child[d] = s) \/ (h[x].child[d] # p /\ r[x].child[d] = h[x].child[d])
  BY ONLY <1>1, <1>4, <1>11, Zenon DEF Shape, o
<1>14. /\ nb \in [T -> Nat \ {0}] /\ nb[Nill] = 1
       /\ \A x \in T \ {Nill}, d \in Sides : nb[x] = nb[h[x].child[d]] + Blk(h, x) + Lack(x, d, p, e)
  BY <1>1, Zenon DEF EvenWith
<1>15. nb[s] = nb[bump] + 1 /\ nb[s] = nb[far] + 1 /\ Blk(h, p) \in 0 .. 1
  <2>1. nb[s] = nb[bump] + Blk(h, s) + Lack(s, e, p, e) /\ nb[s] = nb[far] + Blk(h, s) + Lack(s, o, p, e)
    BY ONLY <1>1, <1>3, <1>4, <1>14, Zenon
  <2>2. Blk(h, s) = 1 /\ Lack(s, e, p, e) = 0 /\ Lack(s, o, p, e) = 0 /\ Blk(h, p) \in 0 .. 1
    BY <1>3, BlkFacts, Zenon DEF Lack
  <2>3. nb[bump] \in Nat /\ nb[far] \in Nat
    BY <1>3, <1>14, Zenon
  <2> QED BY ONLY <2>1, <2>2, <2>3
<1> DEFINE c == [x \in T |-> IF x = s THEN nb[p] ELSE IF x = p THEN nb[s] ELSE IF x = far THEN nb[far] + 1 ELSE nb[x]]
<1>16. /\ c \in [T -> Nat \ {0}] /\ c[Nill] = 1 /\ c[s] = nb[p] /\ c[p] = nb[s] /\ c[far] = nb[far] + 1
       /\ \A x \in T \ {s, p, far} : c[x] = nb[x]
  <2>1. nb[s] \in Nat \ {0} /\ nb[p] \in Nat \ {0} /\ nb[far] + 1 \in Nat \ {0} /\ Nill \in T
    <3>1. Nill \in T
      BY <1>1, Zenon DEF Tree, Rooted
    <3>2. nb[far] \in Nat \ {0} /\ nb[s] \in Nat \ {0} /\ nb[p] \in Nat \ {0}
      BY ONLY <1>1, <1>3, <1>14
    <3> QED BY ONLY <3>1, <3>2
  <2>2. nb \in [T -> Nat \ {0}] /\ nb[Nill] = 1 /\ Nill # s /\ Nill # p /\ Nill # far /\ s \in T /\ p \in T /\ far \in T
        /\ s # p /\ s # far /\ p # far
    BY ONLY <1>1, <1>3, <1>6, <1>7, <1>14, Zenon
  <2>3. c = [x \in T |-> IF x = s THEN nb[p] ELSE IF x = p THEN nb[s] ELSE IF x = far THEN nb[far] + 1 ELSE nb[x]]
    BY Zenon
  <2> HIDE DEF c
  <2>4. \A x \in T : c[x] = IF x = s THEN nb[p] ELSE IF x = p THEN nb[s] ELSE IF x = far THEN nb[far] + 1 ELSE nb[x]
    BY ONLY <2>3, Zenon
  <2>5. c[s] = nb[p] /\ c[p] = nb[s] /\ c[far] = nb[far] + 1 /\ \A x \in T \ {s, p, far} : c[x] = nb[x]
    BY ONLY <2>2, <2>4, Zenon
  <2>6. \A x \in T : c[x] \in Nat \ {0}
    BY ONLY <2>1, <2>2, <2>5
  <2>7. c[Nill] = 1
    BY ONLY <2>1, <2>2, <2>5
  <2> QED BY ONLY <2>3, <2>5, <2>6, <2>7, Zenon
<1> HIDE DEF c
<1>17. ASSUME NEW x \in T \ {Nill}, NEW d \in Sides
       PROVE  c[x] = c[r[x].child[d]] + Blk(r, x) + Lack(x, d, Nill, LEFT)
  <2>1. Lack(x, d, Nill, LEFT) = 0 /\ (d = e \/ d = o)
    BY <1>1, SideFacts, Zenon DEF Lack, o
  <2>2. CASE x = p
    <3>1. Blk(r, p) = 1 /\ c[n] = nb[n] /\ c[bump] = nb[bump] /\ nb[bump] \in Nat
      BY ONLY <1>1, <1>3, <1>6, <1>7, <1>12, <1>14, <1>16, BlkFacts
    <3> QED BY ONLY <1>3, <1>13, <1>15, <1>16, <2>1, <2>2, <3>1
  <2>3. CASE x = s
    <3>1. Blk(r, s) = Blk(h, p) /\ nb[far] \in Nat
      BY ONLY <1>3, <1>12, <1>14, BlkFacts
    <3> QED BY ONLY <1>3, <1>13, <1>15, <1>16, <2>1, <2>3, <3>1
  <2>4. CASE x \notin {p, s}
    <3> DEFINE m == h[x].child[d]
    <3>1. m \in T /\ m # s /\ (m # Nill => h[m].parent = x)
      <4>1. m \in T /\ (m # Nill => h[m].parent = x)
        BY ONLY <1>1, x \in T \ {Nill}, d \in Sides DEF Tree, Joined, m
      <4> QED BY ONLY <1>6, <2>4, <4>1, x \in T \ {Nill}, d \in Sides DEF m
    <3>2. nb[x] = nb[m] + Blk(h, x) + Lack(x, d, p, e)
      BY ONLY <1>14, x \in T \ {Nill}, d \in Sides DEF m
    <3>3. Lack(x, d, p, e) = 0
      BY ONLY <2>4 DEF Lack
    <3>4. (m = p /\ r[x].child[d] = s) \/ (m # p /\ r[x].child[d] = m)
      BY ONLY <1>13, <2>4, x \in T \ {Nill}, d \in Sides DEF m
    <3> HIDE DEF m
    <3>5. m # far
      BY ONLY <1>7, <2>4, <3>1
    <3>6. c[r[x].child[d]] = nb[m]
      BY ONLY <1>16, <3>1, <3>4, <3>5
    <3>7. CASE x = far
      <4>1. Blk(h, x) = 0 /\ Blk(r, x) = 1 /\ nb[m] \in Nat
        BY ONLY <1>12, <1>14, <3>1, <3>7, h[far].red, BlkFacts
      <4> QED BY ONLY <1>16, <2>1, <3>2, <3>3, <3>6, <3>7, <4>1
    <3>8. CASE x # far
      <4>1. Blk(r, x) = Blk(h, x) /\ c[x] = nb[x]
        BY ONLY <1>12, <1>16, <2>4, <3>8, x \in T \ {Nill}, BlkFacts
      <4> QED BY ONLY <2>1, <3>2, <3>3, <3>6, <4>1
    <3> QED BY <3>7, <3>8, Zenon
  <2> QED BY <2>2, <2>3, <2>4, Zenon
<1>18. EvenWith(r, T, c, Nill, LEFT)
  BY ONLY <1>16, <1>17 DEF EvenWith
<1>19. RedFree(r, T, Nill)
  <2>1. ASSUME NEW x \in T \ {Nill}, NEW d \in Sides PROVE ~r[x].red \/ ~r[r[x].child[d]].red
    <3>1. d = e \/ d = o
      BY <1>1, SideFacts, Zenon DEF o
    <3>2. CASE x = p \/ x = far
      BY <1>12, <3>2, Zenon
    <3>3. CASE x = s
      BY ONLY <1>12, <1>13, <3>1, <3>3
    <3>4. CASE x \notin {p, s, far}
      <4>1. h[x].child[d] \in T /\ h[x].child[d] # s
        BY <1>6, <3>4, Zenon
      <4>2. h[x].child[d] # far
        <5>1. h[x].child[d] # Nill => h[h[x].child[d]].parent = x
          BY ONLY <1>1, x \in T \ {Nill}, d \in Sides DEF Tree, Joined
        <5> QED BY ONLY <1>7, <3>4, <5>1
      <4>3. (h[x].child[d] = p /\ r[x].child[d] = s) \/ (h[x].child[d] # p /\ r[x].child[d] = h[x].child[d])
        BY ONLY <1>13, <3>4, x \in T \ {Nill}, d \in Sides
      <4>4. ~h[x].red \/ ~h[h[x].child[d]].red
        BY <1>3, Zenon DEF RedFree
      <4> QED BY ONLY <1>12, <3>4, <4>1, <4>2, <4>3, <4>4, x \in T \ {Nill}
    <3> QED BY <3>2, <3>3, <3>4, Zenon
  <2> QED BY <2>1, Zenon DEF RedFree
<1>20. ~r[Root(r)].red /\ ~r[Nill].red
  <2>1. /\ Nill \in T /\ Root(h) \in T /\ Root(h) # s
        /\ Root(h) = p => Root(r) = s
        /\ Root(h) # p => Root(r) = Root(h)
    <3>1. s = h[p].child[Other(e)]
      BY Zenon
    <3> QED BY ONLY <1>1, <1>3, <1>11, <3>1, TurnRoot
  <2>2. Root(h) # far
    BY ONLY <1>3, h[far].red
  <2> QED BY ONLY <1>1, <1>3, <1>7, <1>12, <2>1, <2>2
<1>21. PICK z \in [T -> SUBSET T] : Tree(r, T, z)
  BY <1>11, Zenon
<1>22. Balanced(r, T, c)
  BY ONLY <1>18, <1>19, <1>20, <1>21, BalancedIs
<1>23. c \in [T -> Nat]
  BY ONLY <1>18, <1>21, TypedNumbers
<1>24. Settled(r, T)
  BY ONLY <1>21, <1>22, <1>23 DEF Settled
<1>25. SameData(h, r, D)
  BY ONLY <1>9, <1>11 DEF SameData
<1> QED BY ONLY <1>11, <1>24, <1>25 DEF EndedIn

-----------------------------------------------------------------------------
(* Remove_Balance: one call *)

\* What is enough calls is enough with one more.
LEMMA RemoveMore ==
  ASSUME NEW T, IsFiniteSet(T), NEW h, NEW n, NEW a \in Nat, RemoveGood(h, T, n, a), NEW b \in Nat, b >= a
  PROVE  RemoveGood(h, T, n, b)
<1>1. CASE a >= 1 /\ n = Nill /\ h[Nill].red /\ Settled(Blacken(h, Nill), T)
  <2>1. b >= 1
    BY <1>1
  <2> QED BY ONLY <1>1, <2>1 DEF RemoveGood
<1>2. CASE \E sub \in [T -> SUBSET T], nb \in [T -> Nat], p \in T, e \in Sides :
             RemoveState(h, T, n, p, e, sub, nb) /\ RemoveBudget(h, T, n, p, e, sub, a)
  <2>1. PICK sub \in [T -> SUBSET T], nb \in [T -> Nat], p \in T, e \in Sides :
          RemoveState(h, T, n, p, e, sub, nb) /\ RemoveBudget(h, T, n, p, e, sub, a)
    BY <1>2
  <2>2. n \in T
    BY ONLY <2>1 DEF RemoveState
  <2>3. Cardinality(T) \in Nat /\ Cardinality(sub[n]) \in Nat
    BY <2>2, Sizes
  <2>4. (a >= Cardinality(T) - Cardinality(sub[n]) + 3 => b >= Cardinality(T) - Cardinality(sub[n]) + 3)
        /\ (a >= 1 => b >= 1) /\ (a >= 2 => b >= 2)
    BY ONLY <2>3, a \in Nat, b \in Nat, b >= a
  <2>5. RemoveBudget(h, T, n, p, e, sub, b)
    BY ONLY <2>1, <2>4 DEF RemoveBudget
  <2> QED BY ONLY <2>1, <2>5 DEF RemoveGood
<1> QED BY ONLY <1>1, <1>2, RemoveGood(h, T, n, a) DEF RemoveGood

\* What a call leaves: a settled tree, or one call less.
RemoveLeft(h, D, T, s, b) ==
  /\ s.heap \in Heaps(D) /\ SameData(h, s.heap, D)
  /\ (s.node = Null /\ Settled(s.heap, T)) \/ (s.node \in T /\ RemoveGood(s.heap, T, s.node, b - 1))

\* A call that makes no other one and leaves a settled tree is a good one.
LEMMA RemoveEnds ==
  ASSUME NEW D, NEW T, NEW h, NEW s, NEW b, s.node = Null, EndedIn(h, s.heap, D, T)
  PROVE  RemoveLeft(h, D, T, s, b)
BY DEF EndedIn, RemoveLeft

\* So is a call that leaves what the next one needs.
LEMMA RemoveGoesOn ==
  ASSUME NEW D, NEW T, IsFiniteSet(T), NEW h, NEW s, NEW a \in Nat, NEW b \in Nat, b >= a + 1,
         s.heap \in Heaps(D), SameData(h, s.heap, D), s.node \in T, RemoveGood(s.heap, T, s.node, a)
  PROVE  RemoveLeft(h, D, T, s, b)
<1>1. b - 1 \in Nat /\ b - 1 >= a
  OBVIOUS
<1>2. RemoveGood(s.heap, T, s.node, b - 1)
  BY ONLY <1>1, a \in Nat, IsFiniteSet(T), RemoveGood(s.heap, T, s.node, a), RemoveMore
<1> QED BY <1>2 DEF RemoveLeft

\* How the calls left and the case of the call go together.
LEMMA RemoveCalls ==
  ASSUME NEW T, IsFiniteSet(T), NEW h, NEW n, NEW p, NEW e, NEW sub \in [T -> SUBSET T], NEW nb, NEW b \in Nat,
         RemoveState(h, T, n, p, e, sub, nb), RemoveBudget(h, T, n, p, e, sub, b)
  PROVE  /\ b >= 1 /\ Cardinality(T) \in Nat /\ \A x \in T : Cardinality(sub[x]) \in Nat
         /\ b >= 3 \/ h[n].red \/ FarRed(h, n, p, e) \/ (b >= 2 /\ ParentRed(h, n, p, e))
         /\ b >= Cardinality(T) - Cardinality(sub[n]) + 3 \/ h[n].red \/ FarRed(h, n, p, e) \/ (b >= 2 /\ ParentRed(h, n, p, e))
<1>1. n \in T
  BY ONLY RemoveState(h, T, n, p, e, sub, nb) DEF RemoveState
<1>2. Cardinality(T) \in Nat /\ \A x \in T : Cardinality(sub[x]) \in Nat /\ Cardinality(sub[x]) <= Cardinality(T)
  BY Sizes
<1>3. b >= Cardinality(T) - Cardinality(sub[n]) + 3 => b >= 3
  BY ONLY <1>1, <1>2, b \in Nat
<1> QED BY ONLY <1>2, <1>3, RemoveBudget(h, T, n, p, e, sub, b), b \in Nat DEF RemoveBudget

-----------------------------------------------------------------------------
\* The calls, by what is black and what is red.
LEMMA TurnRed ==
  ASSUME NEW h, NEW n, h[n].red
  PROVE  Remove_Turn(h, n).heap = Blacken(h, n) /\ Remove_Turn(h, n).node = Null
BY Zenon DEF Remove_Turn, Red, Blacken

\* What the call reads.
Reads(h, n, p, e, s) ==
  h[n].parent = p /\ Dir(h, n) = e /\ GetSiblingPointer(h, n) = s /\ ~h[n].red

TurnsTo(h, n, r, node) == Remove_Turn(h, n).heap = r /\ Remove_Turn(h, n).node = node

\* Remove_Turn for a red sibling.
LEMMA TurnSibling ==
  ASSUME NEW h, NEW n, NEW p, NEW e, NEW s, Reads(h, n, p, e, s), h[s].red
  PROVE  /\ Remove_Turn(h, n).heap = Rotate_Node(Redden(Blacken(h, s), p), h[p].data, e)
         /\ Remove_Turn(h, n).node = n
<1> DEFINE k == [h EXCEPT ![s].red = FALSE, ![p].red = TRUE]
<1>1. k = Redden(Blacken(h, s), p)
  BY DEF Redden, Blacken, Painted
<1>2. Remove_Turn(h, n) = [heap |-> Rotate_Node(k, h[p].data, e), node |-> n]
  BY Zenon DEF Remove_Turn, Red, Reads
<1> HIDE DEF k
<1> QED BY ONLY <1>1, <1>2

\* Remove_Turn for a black sibling with black children.
LEMMA TurnBlack ==
  ASSUME NEW h, NEW n, NEW p, NEW e, NEW s, Reads(h, n, p, e, s), ~h[s].red,
         ~h[h[s].child[e]].red, ~h[h[s].child[Other(e)]].red
  PROVE  Remove_Turn(h, n).heap = Redden(h, s) /\ Remove_Turn(h, n).node = p
<1>1. Remove_Turn(h, n) = [heap |-> Painted(h, s, TRUE), node |-> p]
  BY Zenon DEF Remove_Turn, Red, Reads
<1> QED BY ONLY <1>1 DEF Redden

\* Remove_Turn for a red near child.
LEMMA TurnNear ==
  ASSUME NEW h, NEW n, NEW p, NEW e, NEW s, Reads(h, n, p, e, s), ~h[s].red,
         NEW near, near = h[s].child[e], h[near].red, ~h[h[s].child[Other(e)]].red,
         NEW k, k = Redden(Blacken(h, near), s), NEW r, r = Rotate_Node(k, h[s].data, Other(e))
  PROVE  TurnsTo(h, n, r, n)
<1> DEFINE z == [h EXCEPT ![near].red = FALSE, ![s].red = TRUE]
<1>1. z = Redden(Blacken(h, near), s)
  BY Zenon DEF Redden, Blacken, Painted
<1>2. Remove_Turn(h, n) = [heap |-> Rotate_Node(z, h[s].data, Other(e)), node |-> n]
  BY Zenon DEF Remove_Turn, Red, Reads
<1> HIDE DEF z
<1> QED BY <1>1, <1>2 DEF TurnsTo

\* Remove_Turn for a red far child.
LEMMA TurnFar ==
  ASSUME NEW h, NEW n, NEW p, NEW e, NEW s, Reads(h, n, p, e, s), ~h[s].red,
         NEW far, far = h[s].child[Other(e)], h[far].red,
         NEW k, k = [h EXCEPT ![s].red = h[p].red, ![p].red = FALSE, ![far].red = FALSE],
         NEW r, r = Rotate_Node(k, h[p].data, e)
  PROVE  TurnsTo(h, n, r, Null)
<1> DEFINE z == [h EXCEPT ![s].red = h[p].red, ![p].red = FALSE, ![far].red = FALSE]
<1>1. z = k
  BY Zenon
<1>2. Remove_Turn(h, n) = [heap |-> Rotate_Node(z, h[p].data, e), node |-> Null]
  BY Zenon DEF Remove_Turn, Red, Reads
<1>3. r = Rotate_Node(k, h[p].data, e)
  BY Zenon
<1> HIDE DEF z
<1> QED BY ONLY <1>1, <1>2, <1>3 DEF TurnsTo

-----------------------------------------------------------------------------
(* Remove_Balance: all the calls *)

\* One call of Remove_Balance (BinaryTree.cpp:215-397) ends well or makes a
\* call with fewer left to make.
LEMMA RemoveStep ==
  ASSUME NEW D, IsFiniteSet(D), NEW h \in Heaps(D), NEW T \in SUBSET D, NEW n, NEW b \in Nat, RemoveGood(h, T, n, b)
  PROVE  RemoveLeft(h, D, T, Remove_Turn(h, n), b) /\ b >= 1
<1> DEFINE t == Remove_Turn(h, n)
<1>1. t = Remove_Turn(h, n)
  OBVIOUS
<1> HIDE DEF t
<1>2. IsFiniteSet(T)
  BY FS_Subset
<1>3. CASE b >= 1 /\ n = Nill /\ h[Nill].red /\ Settled(Blacken(h, Nill), T)
  <2>1. t.heap = Blacken(h, n) /\ t.node = Null
    BY ONLY <1>1, <1>3, TurnRed
  <2>2. Nill \in D
    <3>1. Nill \in T
      BY ONLY <1>3 DEF Settled, Tree, Rooted
    <3> QED BY <3>1
  <2>3. PaintsBlack(D, h, n, t.heap)
    BY ONLY <1>3, <2>1, <2>2, h \in Heaps(D), PaintBlack
  <2>4. t.heap \in Heaps(D) /\ SameData(h, t.heap, D) /\ Settled(t.heap, T)
    BY ONLY <1>3, <2>1, <2>3 DEF PaintsBlack, SameData
  <2>5. RemoveLeft(h, D, T, t, b)
    BY ONLY <2>1, <2>4 DEF RemoveLeft
  <2> QED BY ONLY <1>1, <1>3, <2>5
<1>4. CASE \E sub \in [T -> SUBSET T], nb \in [T -> Nat], p \in T, e \in Sides :
             RemoveState(h, T, n, p, e, sub, nb) /\ RemoveBudget(h, T, n, p, e, sub, b)
  <2>1. PICK sub \in [T -> SUBSET T], nb \in [T -> Nat], p \in T, e \in Sides :
          RemoveState(h, T, n, p, e, sub, nb) /\ RemoveBudget(h, T, n, p, e, sub, b)
    BY <1>4
  <2>2. n \in T /\ h[n].parent = p /\ Nill \in T /\ h[p].child[e] = n
    BY ONLY <2>1 DEF RemoveState, Tree, Rooted
  <2>3. /\ b >= 1 /\ Cardinality(T) \in Nat /\ \A x \in T : Cardinality(sub[x]) \in Nat
        /\ b >= 3 \/ h[n].red \/ FarRed(h, n, p, e) \/ (b >= 2 /\ ParentRed(h, n, p, e))
        /\ b >= Cardinality(T) - Cardinality(sub[n]) + 3 \/ h[n].red \/ FarRed(h, n, p, e) \/ (b >= 2 /\ ParentRed(h, n, p, e))
    BY ONLY <1>2, <2>1, b \in Nat, RemoveCalls, Zenon
  <2>4. CASE h[n].red
    <3>1. t.heap = Blacken(h, n) /\ t.node = Null
      BY ONLY <1>1, <2>4, TurnRed
    <3>2. EndedIn(h, t.heap, D, T)
      BY ONLY <2>1, <2>4, <3>1, h \in Heaps(D), T \in SUBSET D, RemoveRed
    <3>3. RemoveLeft(h, D, T, t, b)
      BY ONLY <3>1, <3>2, RemoveEnds
    <3> QED BY ONLY <1>1, <2>3, <3>3
  <2>5. CASE ~h[n].red /\ p = Nill
    <3> DEFINE r == Redden(h, Nill)
    <3>1. r = Redden(h, Nill)
      OBVIOUS
    <3> HIDE DEF r
    <3>2. /\ r \in Heaps(D) /\ SameData(h, r, D) /\ RemoveGood(r, T, Nill, 1)
          /\ Dir(h, n) = e /\ e = LEFT /\ GetSiblingPointer(h, n) = Nill /\ h[Nill].child[Other(e)] = Nill
          /\ h[Nill].child[e] = n /\ ~h[Nill].red
      <4>1. RemoveState(h, T, n, Nill, e, sub, nb)
        BY ONLY <2>1, <2>5
      <4>2. AtRoot(D, h, T, n, e, r)
        BY ONLY <2>5, <3>1, <4>1, h \in Heaps(D), T \in SUBSET D, RemoveAtRoot
      <4> QED BY ONLY <4>2 DEF AtRoot
    <3>3. Reads(h, n, Nill, e, Nill)
      BY ONLY <2>2, <2>5, <3>2 DEF Reads
    <3>4. t.heap = r /\ t.node = Nill
      BY ONLY <1>1, <2>5, <3>1, <3>2, <3>3, TurnBlack
    <3>5. b >= 3
      <4>1. ~FarRed(h, n, p, e) /\ ~ParentRed(h, n, p, e)
        BY ONLY <2>5, <3>2 DEF FarRed, ParentRed
      <4> QED BY ONLY <2>3, <2>5, <4>1
    <3>6. RemoveLeft(h, D, T, t, b)
      <4>1. b >= 1 + 1 /\ 1 \in Nat
        BY ONLY <3>5, b \in Nat
      <4> QED BY ONLY <1>2, <2>2, <3>2, <3>4, <4>1, b \in Nat, RemoveGoesOn
    <3> QED BY ONLY <1>1, <2>3, <3>6
  <2>6. CASE ~h[n].red /\ p # Nill
    <3> DEFINE s == h[p].child[Other(e)]
               near == h[s].child[e]
               far == h[s].child[Other(e)]
    <3>1. s = h[p].child[Other(e)] /\ near = h[s].child[e] /\ far = h[s].child[Other(e)]
      OBVIOUS
    <3> HIDE DEF s, near, far
    <3>2. Short(h, T, n, p, e, s, sub, nb)
      BY ONLY <2>1, <2>6, <3>1, ShortFacts
    <3>3. Reads(h, n, p, e, s)
      BY ONLY <2>2, <2>6, <3>2 DEF Short, Reads
    <3>4. CASE h[s].red
      <4> DEFINE k == Redden(Blacken(h, s), p)
                 r == Rotate_Node(k, h[p].data, e)
      <4>1. k = Redden(Blacken(h, s), p) /\ r = Rotate_Node(k, h[p].data, e)
        OBVIOUS
      <4> HIDE DEF k, r
      <4>2. r \in Heaps(D) /\ SameData(h, r, D) /\ RemoveGood(r, T, n, 2)
        <5>1. GoesOn(D, h, T, n, r, 2)
          BY ONLY <2>1, <2>6, <3>1, <3>4, <4>1, h \in Heaps(D), T \in SUBSET D, IsFiniteSet(D), RemoveRedSibling
        <5> QED BY ONLY <5>1 DEF GoesOn
      <4>3. t.heap = r /\ t.node = n
        BY ONLY <1>1, <3>3, <3>4, <4>1, TurnSibling
      <4>4. b >= 2 + 1 /\ 2 \in Nat
        <5>1. ~FarRed(h, n, p, e) /\ ~ParentRed(h, n, p, e)
          BY ONLY <3>1, <3>4 DEF FarRed, ParentRed
        <5> QED BY ONLY <2>3, <2>6, <5>1, b \in Nat
      <4>5. RemoveLeft(h, D, T, t, b)
        BY ONLY <1>2, <2>2, <4>2, <4>3, <4>4, b \in Nat, RemoveGoesOn, Zenon
      <4> QED BY ONLY <1>1, <2>3, <4>5
    <3>5. CASE ~h[s].red /\ ~h[near].red /\ ~h[far].red
      <4> DEFINE r == Redden(h, s)
      <4>1. r = Redden(h, s)
        OBVIOUS
      <4> HIDE DEF r
      <4>2. /\ r \in Heaps(D) /\ SameData(h, r, D)
            /\ \E c \in [T -> Nat], q \in T, f \in Sides : RemoveState(r, T, p, q, f, sub, c)
            /\ r[p].red <=> h[p].red
            /\ Cardinality(sub[n]) < Cardinality(sub[p])
        <5>1. ~h[h[s].child[e]].red /\ ~h[h[s].child[Other(e)]].red
          BY ONLY <3>1, <3>5, Zenon
        <5>2. Lifted(D, h, T, n, p, sub, r)
          BY ONLY <2>1, <2>6, <3>1, <3>5, <4>1, <5>1, h \in Heaps(D), T \in SUBSET D, IsFiniteSet(D), RemoveBothBlack, Zenon
        <5> QED BY ONLY <5>2 DEF Lifted
      <4>3. t.heap = r /\ t.node = p
        BY ONLY <1>1, <3>1, <3>3, <3>5, <4>1, TurnBlack
      <4>4. PICK c \in [T -> Nat], q \in T, f \in Sides : RemoveState(r, T, p, q, f, sub, c)
        BY ONLY <4>2
      <4>5. ~FarRed(h, n, p, e)
        BY ONLY <3>1, <3>5, Zenon DEF FarRed
      <4>6. b - 1 >= Cardinality(T) - Cardinality(sub[p]) + 3 \/ (b - 1 >= 1 /\ r[p].red)
        <5>1. CASE b >= 2 /\ ParentRed(h, n, p, e)
          <6>1. r[p].red
            BY ONLY <4>2, <5>1 DEF ParentRed
          <6> QED BY ONLY <5>1, <6>1, b \in Nat
        <5>2. CASE b >= Cardinality(T) - Cardinality(sub[n]) + 3
          <6>1. Cardinality(sub[n]) \in Nat /\ Cardinality(sub[p]) \in Nat
            BY ONLY <2>1, <2>2, <2>3
          <6> QED BY ONLY <2>3, <4>2, <5>2, <6>1, b \in Nat
        <5> QED BY ONLY <2>3, <2>6, <4>5, <5>1, <5>2
      <4>7. RemoveBudget(r, T, p, q, f, sub, b - 1)
        BY ONLY <4>6 DEF RemoveBudget
      <4>8. RemoveGood(r, T, p, b - 1)
        BY ONLY <2>1, <4>4, <4>7 DEF RemoveGood
      <4>9. RemoveLeft(h, D, T, t, b)
        BY ONLY <2>1, <4>2, <4>3, <4>8 DEF RemoveLeft
      <4> QED BY ONLY <1>1, <2>3, <4>9
    <3>6. CASE ~h[s].red /\ h[near].red /\ ~h[far].red
      <4> DEFINE k == Redden(Blacken(h, near), s)
                 r == Rotate_Node(k, h[s].data, Other(e))
      <4>1. k = Redden(Blacken(h, near), s) /\ r = Rotate_Node(k, h[s].data, Other(e))
        OBVIOUS
      <4> HIDE DEF k, r
      <4>2. ~h[h[s].child[Other(e)]].red
        BY ONLY <3>1, <3>6, Zenon
      <4>3. r \in Heaps(D) /\ SameData(h, r, D) /\ RemoveGood(r, T, n, 1)
        <5>1. ~h[n].red /\ p # Nill /\ ~h[s].red /\ h[near].red /\ s = h[p].child[Other(e)] /\ near = h[s].child[e]
              /\ RemoveState(h, T, n, p, e, sub, nb)
          BY ONLY <2>1, <2>6, <3>1, <3>6, Zenon
        <5>2. GoesOn(D, h, T, n, r, 1)
          BY ONLY <4>1, <4>2, <5>1, h \in Heaps(D), T \in SUBSET D, IsFiniteSet(D), RemoveNearRed, Zenon
        <5> QED BY ONLY <5>2 DEF GoesOn
      <4>4. t.heap = r /\ t.node = n
        <5>1. ~h[s].red /\ h[near].red /\ near = h[s].child[e]
          BY ONLY <3>1, <3>6, Zenon
        <5>2. TurnsTo(h, n, r, n)
          BY ONLY <3>3, <4>1, <4>2, <5>1, TurnNear
        <5> QED BY ONLY <1>1, <5>2 DEF TurnsTo
      <4>5. b >= 1 + 1 /\ 1 \in Nat
        <5>1. ~FarRed(h, n, p, e)
          BY ONLY <3>1, <3>6, Zenon DEF FarRed
        <5> QED BY ONLY <2>3, <2>6, <5>1, b \in Nat
      <4>6. RemoveLeft(h, D, T, t, b)
        BY ONLY <1>2, <2>2, <4>3, <4>4, <4>5, b \in Nat, RemoveGoesOn
      <4> QED BY ONLY <1>1, <2>3, <4>6
    <3>7. CASE ~h[s].red /\ h[far].red
      <4> DEFINE k == [h EXCEPT ![s].red = h[p].red, ![p].red = FALSE, ![far].red = FALSE]
                 r == Rotate_Node(k, h[p].data, e)
      <4>1. k = [h EXCEPT ![s].red = h[p].red, ![p].red = FALSE, ![far].red = FALSE]
        OBVIOUS
      <4>2. r = Rotate_Node(k, h[p].data, e)
        OBVIOUS
      <4> HIDE DEF k, r
      <4>3. t.heap = r /\ t.node = Null
        <5>1. ~h[s].red /\ h[far].red /\ far = h[s].child[Other(e)]
          BY ONLY <3>1, <3>7, Zenon
        <5>2. TurnsTo(h, n, r, Null)
          BY ONLY <3>3, <4>1, <4>2, <5>1, TurnFar, Zenon
        <5> QED BY ONLY <1>1, <5>2 DEF TurnsTo
      <4>4. EndedIn(h, r, D, T)
        BY ONLY <2>1, <2>6, <3>1, <3>7, <4>1, <4>2, h \in Heaps(D), T \in SUBSET D, IsFiniteSet(D), RemoveFarRed, Zenon
      <4>5. RemoveLeft(h, D, T, t, b)
        BY ONLY <4>3, <4>4, RemoveEnds
      <4> QED BY ONLY <1>1, <2>3, <4>5
    <3> QED BY ONLY <2>6, <3>4, <3>5, <3>6, <3>7
  <2> QED BY ONLY <2>4, <2>5, <2>6
<1> QED BY ONLY <1>3, <1>4, RemoveGood(h, T, n, b) DEF RemoveGood

\* Remove_Balance settles the tree.
LEMMA RemoveSettles ==
  ASSUME NEW D, IsFiniteSet(D), Null \notin D, NEW h \in Heaps(D), NEW T \in SUBSET D, NEW n,
         RemoveGood(h, T, n, Turns(h)), NEW r, r = Remove_Balance(h, n)
  PROVE  EndedIn(h, r, D, T)
<1> DEFINE N == Turns(h)
           Turn(s) == IF s.node = Null THEN s ELSE Remove_Turn(s.heap, s.node)
           G(b) == {s \in Calls(D) : /\ SameData(h, s.heap, D)
                                     /\ \/ s.node = Null /\ Settled(s.heap, T)
                                        \/ s.node \in T /\ RemoveGood(s.heap, T, s.node, b)}
           next == [s \in Calls(D) |-> IF Turn(s) \in Calls(D) THEN Turn(s) ELSE s]
           first == [heap |-> h, node |-> n]
           OneOn(a, k) == IF k = 0 THEN first ELSE Turn(a[k - 1])
           after == CHOOSE a : a = [k \in 0 .. N |-> OneOn(a, k)]
<1>1. N \in Nat
  BY HeapFacts, FS_CardinalityType DEF Turns
<1>2. r = after[N].heap
  BY DEF Remove_Balance
<1>3. first \in G(N)
  <2>1. n \in T /\ n \in D
    <3>1. n \in T
      BY ONLY RemoveGood(h, T, n, Turns(h)) DEF RemoveGood, RemoveState, Settled, Tree, Rooted
    <3> QED BY <3>1
  <2>2. SameData(h, h, D)
    BY DEF SameData
  <2>3. first \in Calls(D) /\ first.heap = h /\ first.node = n
    BY <2>1 DEF Calls
  <2> HIDE DEF first
  <2> QED BY <2>1, <2>2, <2>3
<1>4. ASSUME NEW b \in Nat, NEW s \in G(b) PROVE Turn(s) \in G(b - 1)
  <2>1. s.heap \in Heaps(D) /\ SameData(h, s.heap, D)
    BY DEF Calls
  <2>2. CASE s.node = Null
    <3>1. Turn(s) = s /\ Settled(s.heap, T)
      BY <2>2
    <3> HIDE DEF Turn
    <3> QED BY <2>2, <3>1
  <2>3. CASE s.node # Null
    <3> DEFINE t == Remove_Turn(s.heap, s.node)
    <3>1. Turn(s) = t /\ RemoveGood(s.heap, T, s.node, b)
      BY <2>3
    <3>2. RemoveLeft(s.heap, D, T, t, b)
      BY ONLY <2>1, <3>1, b \in Nat, IsFiniteSet(D), T \in SUBSET D, RemoveStep
    <3>3. t.heap \in Heaps(D) /\ SameData(s.heap, t.heap, D) /\ t.node \in D \union {Null}
          /\ ((t.node = Null /\ Settled(t.heap, T)) \/ (t.node \in T /\ RemoveGood(t.heap, T, t.node, b - 1)))
      BY ONLY <3>2 DEF RemoveLeft
    <3>4. SameData(h, t.heap, D)
      BY ONLY <2>1, <3>3 DEF SameData
    <3>5. t \in Calls(D)
      <4>1. t = [heap |-> t.heap, node |-> t.node]
        BY Zenon DEF Remove_Turn
      <4> HIDE DEF t
      <4> QED BY ONLY <3>3, <4>1 DEF Calls
    <3> HIDE DEF t, Turn
    <3> QED BY <3>1, <3>3, <3>4, <3>5
  <2> QED BY <2>2, <2>3
<1>5. \A b : G(b) \subseteq Calls(D)
  OBVIOUS
<1> HIDE DEF G, Turn, N, first
<1>6. next \in [Calls(D) -> Calls(D)] /\ first \in Calls(D)
  BY <1>3, <1>5
<1>7. \A b \in Nat : \A s \in G(b) : next[s] = Turn(s) /\ Turn(s) \in G(b - 1)
  BY <1>4, <1>5
<1> DEFINE F == [c \in 1 .. N |-> next]
<1>8. F \in [1 .. N -> [Calls(D) -> Calls(D)]] /\ \A c \in 1 .. N : F[c] = next
  BY <1>6
<1> HIDE DEF F, next
<1>9. PICK f \in [0 .. N -> Calls(D)] : f[0] = first /\ \A c \in 1 .. N : f[c] = next[f[c - 1]]
  <2>1. Runs(Calls(D), N, F, first)
    BY <1>1, <1>6, <1>8, LoopRuns
  <2> QED BY <1>8, <2>1, Zenon DEF Runs
<1>10. \A k \in 0 .. N : f[k] \in G(N - k)
  <2> DEFINE P == {k \in 0 .. N : f[k] \in G(N - k)}
  <2>1. 0 \in P
    BY <1>1, <1>3, <1>9
  <2>2. ASSUME NEW k \in 1 .. N, k - 1 \in P PROVE k \in P
    <3>1. N - (k - 1) \in Nat /\ (N - (k - 1)) - 1 = N - k /\ k \in 0 .. N
      BY <1>1
    <3> QED BY <1>7, <1>9, <2>2, <3>1
  <2> HIDE DEF P
  <2>3. \A k \in 0 .. N : k \in P
    BY <1>1, <2>1, <2>2, Steps, Zenon
  <2> QED BY <2>3 DEF P
<1>11. \A k \in 1 .. N : f[k] = Turn(f[k - 1])
  <2> TAKE k \in 1 .. N
  <2>1. k - 1 \in 0 .. N /\ N - (k - 1) \in Nat
    BY <1>1
  <2> QED BY <1>7, <1>9, <1>10, <2>1
<1>12. \A k \in 0 .. N : f[k] = OneOn(f, k)
  <2> TAKE k \in 0 .. N
  <2>1. CASE k = 0
    BY <1>9, <2>1
  <2>2. CASE k # 0
    <3>1. k \in 1 .. N
      BY <1>1, <2>2
    <3> QED BY <1>11, <2>2, <3>1
  <2> QED BY <2>1, <2>2
<1>13. f = [k \in 0 .. N |-> OneOn(f, k)]
  <2> HIDE DEF OneOn
  <2> QED BY <1>12
<1>14. after = [k \in 0 .. N |-> OneOn(after, k)]
  <2> HIDE DEF OneOn
  <2> QED BY <1>13, Zenon
<1>15. \A k \in 0 .. N : after[k] = OneOn(after, k)
  <2> HIDE DEF OneOn
  <2> QED BY <1>14, Zenon
<1> HIDE DEF after
<1>16. \A k \in 0 .. N : after[k] = f[k]
  <2> DEFINE P == {k \in 0 .. N : after[k] = f[k]}
  <2>1. 0 \in P
    BY <1>1, <1>9, <1>15
  <2>2. ASSUME NEW k \in 1 .. N, k - 1 \in P PROVE k \in P
    <3>1. k \in 0 .. N /\ k # 0
      BY <1>1
    <3>2. after[k] = Turn(after[k - 1])
      BY <1>15, <3>1
    <3>3. after[k - 1] = f[k - 1]
      BY <2>2
    <3> QED BY <1>11, <3>1, <3>2, <3>3
  <2> HIDE DEF P
  <2>3. \A k \in 0 .. N : k \in P
    BY <1>1, <2>1, <2>2, Steps
  <2> QED BY <2>3 DEF P
<1>17. after[N] \in G(0)
  BY <1>1, <1>10, <1>16
<1> DEFINE s == after[N]
<1>18. /\ s \in Calls(D) /\ SameData(h, s.heap, D)
       /\ (s.node = Null /\ Settled(s.heap, T)) \/ (s.node \in T /\ RemoveGood(s.heap, T, s.node, 0))
  BY <1>17 DEF G
<1> HIDE DEF s
<1>19. s.heap \in Heaps(D)
  BY <1>18 DEF Calls
<1>20. ~RemoveGood(s.heap, T, s.node, 0)
  <2>1. 0 \in Nat /\ ~(0 >= 1)
    OBVIOUS
  <2> QED BY ONLY <1>19, <2>1, IsFiniteSet(D), T \in SUBSET D, RemoveStep
<1>21. EndedIn(h, s.heap, D, T)
  BY <1>18, <1>19, <1>20 DEF EndedIn
<1> QED BY <1>2, <1>21 DEF s

-----------------------------------------------------------------------------
(* A node with one child at most goes *)

\* The data of g are in order in the tree h without n.
OrderedBut(h, g, D, sub, n) ==
  /\ g[Nill].data = IntMax
  /\ \A x \in D \ {Nill, n} : g[x].data \in Int /\ g[x].data < IntMax
  /\ \A x, y \in D \ {Nill, n} : g[x].data = g[y].data => x = y
  /\ \A x \in D \ {Nill, n}, d \in Sides : \A y \in sub[h[x].child[d]] \ {n} : Beside(g, x, d, y)

\* What Unlink makes of the fields: kid in the place of n.
Unhung(h, g, D, n, kid, r) ==
  /\ r \in Heaps(D)
  /\ \A x \in D :
       /\ r[x].data = g[x].data /\ r[x].red = h[x].red
       /\ r[x].parent = IF x = kid THEN h[n].parent ELSE h[x].parent
       /\ \A d \in Sides :
            r[x].child[d] = IF x = h[n].parent /\ d = Dir(h, n) THEN kid ELSE h[x].child[d]

\* The fields of all nodes once the only child is in the place of its parent.
LEMMA UnhungFields ==
  ASSUME NEW D, NEW h \in Heaps(D), NEW g \in Heaps(D), NEW n \in D, NEW kid \in D,
         NEW p \in D, p = h[n].parent, NEW e \in Sides, e = Dir(h, n),
         \A x \in D : /\ g[x].red = h[x].red /\ g[x].parent = h[x].parent
                      /\ \A d \in Sides : g[x].child[d] = h[x].child[d],
         NEW r, r = [g EXCEPT ![g[n].parent].child[Dir(g, n)] = kid, ![kid].parent = g[n].parent]
  PROVE  Unhung(h, g, D, n, kid, r)
<1> DEFINE k == WithChild(g, p, e, kid)
<1>1. g[n].parent = p /\ Dir(g, n) = e
  <2>1. g[n].parent = p /\ g[p].child[LEFT] = h[p].child[LEFT]
    BY SideFacts
  <2> QED BY ONLY <2>1, e = Dir(h, n), p = h[n].parent DEF Dir
<1>2. r = WithParent(k, kid, p)
  BY <1>1 DEF WithParent, WithChild
<1>3. k = WithChild(g, p, e, kid) /\ p \in D /\ e \in Sides /\ p \in D \union {Null}
  OBVIOUS
<1> HIDE DEF k
<1>4. /\ k \in Heaps(D)
      /\ \A x \in D : /\ k[x].data = g[x].data /\ k[x].red = g[x].red /\ k[x].parent = g[x].parent
                      /\ \A d \in Sides : k[x].child[d] = IF x = p /\ d = e THEN kid ELSE g[x].child[d]
  <2>0. g \in Heaps(D) /\ p \in D /\ e \in Sides /\ kid \in D
    OBVIOUS
  <2>1. /\ WithChild(g, p, e, kid) \in Heaps(D)
        /\ \A x \in D : /\ WithChild(g, p, e, kid)[x].data = g[x].data /\ WithChild(g, p, e, kid)[x].red = g[x].red
                        /\ WithChild(g, p, e, kid)[x].parent = g[x].parent
                        /\ \A d \in Sides : WithChild(g, p, e, kid)[x].child[d] = IF x = p /\ d = e THEN kid ELSE g[x].child[d]
    BY ONLY <2>0, SetChild
  <2> QED BY ONLY <1>3, <2>1
<1>5. /\ r \in Heaps(D)
      /\ \A x \in D : /\ r[x].data = k[x].data /\ r[x].red = k[x].red /\ r[x].child = k[x].child
                      /\ r[x].parent = IF x = kid THEN p ELSE k[x].parent
  <2>0. k \in Heaps(D) /\ kid \in D /\ p \in D \union {Null}
    BY <1>3, <1>4, Zenon
  <2>1. /\ WithParent(k, kid, p) \in Heaps(D)
        /\ \A x \in D : /\ WithParent(k, kid, p)[x].data = k[x].data /\ WithParent(k, kid, p)[x].red = k[x].red
                        /\ WithParent(k, kid, p)[x].child = k[x].child
                        /\ WithParent(k, kid, p)[x].parent = IF x = kid THEN p ELSE k[x].parent
    BY ONLY <2>0, SetParent
  <2> QED BY ONLY <1>2, <2>1
<1>6. \A x \in D : /\ g[x].red = h[x].red /\ g[x].parent = h[x].parent
                   /\ \A d \in Sides : g[x].child[d] = h[x].child[d]
  OBVIOUS
<1>7. \A x \in D : r[x].data = g[x].data /\ r[x].red = h[x].red
  BY ONLY <1>4, <1>5, <1>6
<1>8. \A x \in D : r[x].parent = IF x = kid THEN p ELSE h[x].parent
  <2> QED BY ONLY <1>4, <1>5, <1>6
<1>9. \A x \in D, d \in Sides : r[x].child[d] = IF x = p /\ d = e THEN kid ELSE h[x].child[d]
  <2> QED BY ONLY <1>4, <1>5, <1>6
<1> QED BY ONLY <1>5, <1>7, <1>8, <1>9, p = h[n].parent, e = Dir(h, n) DEF Unhung

\* Where n hangs, and what hangs on it.
Lone(h, D, sub, n, kid, p, e) ==
  /\ n \in D \ {Nill} /\ p = h[n].parent /\ e = Dir(h, n) /\ p \in D \ {n} /\ kid \in D \ {n} /\ e \in Sides
  /\ h[p].child[e] = n /\ (p = Nill => e = LEFT /\ n = Root(h)) /\ (p # Nill => n # Root(h))
  /\ \A x \in D, d \in Sides : h[x].child[d] = n <=> x = p /\ d = e
  /\ sub[n] = {n} \union sub[kid] /\ n \notin sub[kid]
  /\ \E d \in Sides : h[n].child[d] = kid
  /\ \A d \in Sides : h[n].child[d] \in {kid, Nill}
  /\ kid # Nill => h[kid].parent = n
  /\ \A x \in D \ {n}, d \in Sides : h[x].child[d] = kid => kid = Nill
  /\ \A x \in D \ {Nill} : h[x].parent = n => x = kid

\* What is known of a node with one child at most.
LEMMA LoneFacts ==
  ASSUME NEW h, NEW D, NEW sub, Tree(h, D, sub), NEW n \in D \ {Nill},
         NEW a \in Sides, NEW kid, kid = h[n].child[a], h[n].child[Other(a)] = Nill,
         NEW p, p = h[n].parent, NEW e, e = Dir(h, n)
  PROVE  Lone(h, D, sub, n, kid, p, e)
<1>1. /\ p \in D /\ e \in Sides /\ h[p].child[e] = n
      /\ (\A d \in Sides : h[p].child[d] = n => d = e)
      /\ (p = Nill => n = Root(h) /\ e = LEFT)
      /\ (p # Nill => n # p)
  BY OneSide
<1>2. /\ \A x \in D, d \in Sides :
           h[x].child[d] \in D /\ (h[x].child[d] # Nill => h[h[x].child[d]].parent = x)
      /\ \A x \in D \ {Nill} : h[x].parent \in D /\ \E d \in Sides : h[h[x].parent].child[d] = x
  BY DEF Tree, Joined
<1>3. kid \in D /\ sub[n] = {n} \union sub[kid] /\ n \notin sub[kid] /\ (kid # Nill => kid # n /\ h[kid].parent = n)
  <2>1. PICK o : o = h[n].child[Other(a)]
    OBVIOUS
  <2>2. /\ kid \in D /\ n \notin sub[kid] /\ sub[n] = {n} \union sub[kid] \union sub[o]
        /\ kid # Nill => kid # n /\ h[kid].parent = n
    BY ONLY <2>1, Tree(h, D, sub), n \in D \ {Nill}, a \in Sides, kid = h[n].child[a], Below
  <2>3. sub[o] = {}
    BY <2>1 DEF Tree, Rooted
  <2> QED BY ONLY <2>2, <2>3
<1>4. \A d \in Sides : d = a \/ d = Other(a)
  BY SideFacts
<1>5. \A d \in Sides : h[n].child[d] \in {kid, Nill}
  BY <1>4
<1>6. p # Nill => n # Root(h)
  BY <1>2, SideFacts DEF Root, Tree, Rooted
<1>7. \A x \in D, d \in Sides : h[x].child[d] = n <=> x = p /\ d = e
  BY <1>1, <1>2
<1>8. \A x \in D \ {n}, d \in Sides : h[x].child[d] = kid => kid = Nill
  BY <1>2, <1>3
<1>9. \A x \in D \ {Nill} : h[x].parent = n => x = kid
  BY <1>2, <1>5
<1>10. p # n /\ kid # n
  BY <1>1, <1>3
<1> QED BY <1>1, <1>3, <1>5, <1>6, <1>7, <1>8, <1>9, <1>10 DEF Lone

\* Below a node of what is left is what was below it, without n.
Without(D, n, sub) == [x \in D \ {n} |-> sub[x] \ {n}]

\* Without it the rest is a tree.
LEMMA UnhungTree ==
  ASSUME NEW h, NEW g, NEW D, NEW sub, Tree(h, D, sub), NEW n, NEW kid, NEW p, NEW e, Lone(h, D, sub, n, kid, p, e),
         OrderedBut(h, g, D, sub, n), NEW r, Unhung(h, g, D, n, kid, r)
  PROVE  Tree(r, D \ {n}, Without(D, n, sub))
<1> DEFINE T == D \ {n}
           s == Without(D, n, sub)
<1>1. /\ n \in D \ {Nill} /\ p = h[n].parent /\ e = Dir(h, n) /\ p \in T /\ kid \in T /\ e \in Sides
      /\ h[p].child[e] = n /\ (p = Nill => e = LEFT /\ n = Root(h)) /\ (p # Nill => n # Root(h))
      /\ \A x \in D, d \in Sides : h[x].child[d] = n <=> x = p /\ d = e
      /\ sub[n] = {n} \union sub[kid] /\ n \notin sub[kid]
      /\ kid # Nill => h[kid].parent = n
      /\ \A x \in D \ {n}, d \in Sides : h[x].child[d] = kid => kid = Nill
      /\ \A x \in D \ {Nill} : h[x].parent = n => x = kid
  BY DEF Lone
<1>2. \A x \in D : /\ r[x].data = g[x].data
                   /\ r[x].parent = IF x = kid THEN p ELSE h[x].parent
                   /\ \A d \in Sides : r[x].child[d] = IF x = p /\ d = e THEN kid ELSE h[x].child[d]
  BY <1>1 DEF Unhung
<1>3. \A x \in T : s[x] = sub[x] \ {n}
  BY DEF Without
<1>4. /\ IsFiniteSet(D) /\ Nill \in D /\ Null \notin D /\ h[Nill].child[RIGHT] = Nill
      /\ sub \in [D -> SUBSET (D \ {Nill})] /\ sub[Nill] = {} /\ sub[Root(h)] = D \ {Nill}
  BY DEF Tree, Rooted
<1>5. /\ \A x \in D, d \in Sides :
           h[x].child[d] \in D /\ (h[x].child[d] # Nill => h[h[x].child[d]].parent = x)
      /\ \A x \in D \ {Nill} : h[x].parent \in D /\ \E d \in Sides : h[h[x].parent].child[d] = x
  BY DEF Tree, Joined
<1> HIDE DEF s
<1>6. \A x \in T, d \in Sides : r[x].child[d] \in T /\ s[r[x].child[d]] = sub[h[x].child[d]] \ {n}
  <2> TAKE x \in T, d \in Sides
  <2>1. CASE x = p /\ d = e
    <3>1. r[x].child[d] = kid /\ h[x].child[d] = n
      BY ONLY <1>1, <1>2, <2>1
    <3> QED BY ONLY <1>1, <1>3, <3>1
  <2>2. CASE ~(x = p /\ d = e)
    <3>1. r[x].child[d] = h[x].child[d] /\ h[x].child[d] # n /\ h[x].child[d] \in D
      BY ONLY <1>1, <1>2, <1>5, <2>2, x \in T, d \in Sides
    <3> QED BY ONLY <1>3, <3>1
  <2> QED BY <2>1, <2>2
<1>7. Rooted(r, T, s)
  <2>1. IsFiniteSet(T)
    BY <1>4, FS_RemoveElement
  <2>2. r[Nill].data = IntMax /\ r[Nill].child[RIGHT] = Nill /\ Nill \in T /\ Null \notin T
    BY <1>1, <1>2, <1>4, SideFacts DEF OrderedBut
  <2>3. s \in [T -> SUBSET (T \ {Nill})] /\ s[Nill] = {}
    <3>1. s = [x \in T |-> sub[x] \ {n}]
      BY DEF s, Without
    <3>2. \A x \in T : sub[x] \ {n} \in SUBSET (T \ {Nill})
      BY <1>4
    <3> QED BY <1>3, <1>4, <2>2, <3>1, <3>2
  <2>4. s[Root(r)] = T \ {Nill}
    <3>1. s[Root(r)] = sub[Root(h)] \ {n}
      BY <1>6, <2>2, SideFacts DEF Root
    <3> QED BY <1>4, <3>1
  <2> QED BY <2>1, <2>2, <2>3, <2>4 DEF Rooted
<1>8. Joined(r, T)
  <2>1. ASSUME NEW x \in T, NEW d \in Sides, r[x].child[d] # Nill PROVE r[r[x].child[d]].parent = x
    <3>1. CASE x = p /\ d = e
      BY ONLY <1>1, <1>2, <3>1
    <3>2. CASE ~(x = p /\ d = e)
      <4>1. r[x].child[d] = h[x].child[d] /\ h[x].child[d] \in D /\ h[h[x].child[d]].parent = x
        BY <1>2, <1>5, <2>1, <3>2
      <4>2. h[x].child[d] # kid
        BY <1>1, <2>1, <4>1
      <4> QED BY <1>2, <4>1, <4>2
    <3> QED BY <3>1, <3>2
  <2>2. ASSUME NEW x \in T \ {Nill} PROVE r[x].parent \in T /\ \E d \in Sides : r[r[x].parent].child[d] = x
    <3>1. CASE x = kid
      BY ONLY <1>1, <1>2, <3>1
    <3>2. CASE x # kid
      <4>1. r[x].parent = h[x].parent /\ h[x].parent \in T
        BY <1>1, <1>2, <1>5, <3>2
      <4>2. PICK d \in Sides : h[h[x].parent].child[d] = x
        BY <1>5
      <4>3. ~(h[x].parent = p /\ d = e)
        BY <1>1, <4>2
      <4>4. r[h[x].parent].child[d] = x
        BY <1>2, <4>1, <4>2, <4>3
      <4> QED BY <4>1, <4>4
    <3> QED BY <3>1, <3>2
  <2> HIDE DEF T
  <2> QED BY <1>6, <2>1, <2>2 DEF Joined
<1>9. Parted(r, T, s)
  <2>1. ASSUME NEW x \in T \ {Nill}, NEW d \in Sides
        PROVE  /\ s[x] = {x} \union s[r[x].child[d]] \union s[r[x].child[Other(d)]]
               /\ x \notin s[r[x].child[d]]
               /\ s[r[x].child[d]] \intersect s[r[x].child[Other(d)]] = {}
    <3>1. /\ sub[x] = {x} \union sub[h[x].child[d]] \union sub[h[x].child[Other(d)]]
          /\ x \notin sub[h[x].child[d]]
          /\ sub[h[x].child[d]] \intersect sub[h[x].child[Other(d)]] = {}
      BY DEF Tree, Parted
    <3>2. Other(d) \in Sides
      BY SideFacts
    <3>3. s[r[x].child[d]] = sub[h[x].child[d]] \ {n} /\ s[r[x].child[Other(d)]] = sub[h[x].child[Other(d)]] \ {n}
      BY <1>6, <3>2
    <3>4. s[x] = sub[x] \ {n} /\ x # n
      BY <1>3
    <3> QED BY ONLY <3>1, <3>3, <3>4
  <2> HIDE DEF T
  <2> QED BY <2>1 DEF Parted
<1>10. Ordered(r, T, s)
  <2>1. /\ \A x \in T \ {Nill} : r[x].data \in Int /\ r[x].data < IntMax
        /\ \A x, y \in T \ {Nill} : r[x].data = r[y].data => x = y
    BY <1>2 DEF OrderedBut
  <2>2. ASSUME NEW x \in T \ {Nill}, NEW d \in Sides, NEW y \in s[r[x].child[d]] PROVE Beside(r, x, d, y)
    <3>1. y \in sub[h[x].child[d]] \ {n} /\ y \in D
      BY <1>4, <1>5, <1>6
    <3>2. Beside(g, x, d, y)
      BY <3>1 DEF OrderedBut
    <3> QED BY <1>2, <3>1, <3>2 DEF Beside
  <2> HIDE DEF T
  <2> QED BY <2>1, <2>2 DEF Ordered
<1>11. Nested(r, T, s)
  <2>1. ASSUME NEW x \in T, NEW y \in s[x] PROVE s[y] \subseteq s[x] /\ (y # x => r[y].parent \in s[x])
    <3>1. y \in sub[x] /\ y \in T \ {Nill} /\ s[x] = sub[x] \ {n} /\ s[y] = sub[y] \ {n}
      BY <1>3, <1>4
    <3>2. sub[y] \subseteq sub[x] /\ (y # x => h[y].parent \in sub[x]) /\ (n \in sub[x] => h[n].parent \in sub[x])
      BY <3>1 DEF Tree, Nested
    <3>3. y # x => r[y].parent \in sub[x] \ {n}
      <4>1. CASE y = kid
        <5>1. h[y].parent = n /\ r[y].parent = p
          BY <1>1, <1>2, <3>1, <4>1
        <5> QED BY ONLY <1>1, <3>2, <5>1
      <4>2. CASE y # kid
        BY <1>1, <1>2, <3>1, <3>2, <4>2
      <4> QED BY <4>1, <4>2
    <3> QED BY ONLY <3>1, <3>2, <3>3
  <2> HIDE DEF T
  <2> QED BY <2>1 DEF Nested
<1> HIDE DEF T
<1>12. Tree(r, T, s)
  BY ONLY <1>7, <1>8, <1>9, <1>10, <1>11 DEF Tree
<1> QED BY <1>12 DEF T, s

-----------------------------------------------------------------------------
(* The numbers of black nodes without it *)

\* What is settled is so whatever is outside.
LEMMA SettledAlike ==
  ASSUME NEW h, NEW r, NEW T, Settled(h, T),
         \A x \in T : /\ r[x].data = h[x].data /\ r[x].red = h[x].red /\ (x # Nill => r[x].parent = h[x].parent)
                      /\ \A d \in Sides : r[x].child[d] = h[x].child[d]
  PROVE  Settled(r, T)
<1>1. PICK sub \in [T -> SUBSET T], nb \in [T -> Nat] : Tree(h, T, sub) /\ Balanced(h, T, nb)
  BY DEF Settled
<1>2. Tree(r, T, sub)
  BY <1>1, SameTree
<1>3. /\ Nill \in T /\ Root(h) \in T /\ Root(r) = Root(h)
      /\ \A x \in T, d \in Sides : h[x].child[d] \in T
  BY <1>1, SideFacts DEF Tree, Rooted, Joined, Root
<1>4. /\ nb \in [T -> Nat \ {0}] /\ nb[Nill] = 1 /\ \A x \in T \ {Nill} : EvenAt(h, nb, x)
      /\ ~h[Nill].red /\ ~h[Root(h)].red
      /\ \A x \in T \ {Nill}, d \in Sides : ~h[x].red \/ ~h[h[x].child[d]].red
  BY ONLY <1>1 DEF Balanced, Even
<1>5. \A x \in T \ {Nill} : EvenAt(r, nb, x)
  BY <1>4 DEF EvenAt
<1>6. \A x \in T \ {Nill}, d \in Sides : ~r[x].red \/ ~r[r[x].child[d]].red
  BY <1>3, <1>4
<1>7. ~r[Nill].red /\ ~r[Root(r)].red
  BY <1>3, <1>4
<1>8. Balanced(r, T, nb)
  BY ONLY <1>4, <1>5, <1>6, <1>7 DEF Balanced, Even
<1> QED BY <1>1, <1>2, <1>8 DEF Settled

\* Without a red node the paths are as black as before.
LEMMA UnhungRed ==
  ASSUME NEW h, NEW g, NEW D, NEW sub, NEW nb, Tree(h, D, sub), Balanced(h, D, nb), NEW n, NEW kid, NEW p, NEW e,
         Lone(h, D, sub, n, kid, p, e), OrderedBut(h, g, D, sub, n), NEW r, Unhung(h, g, D, n, kid, r), h[n].red
  PROVE  Settled(r, D \ {n})
<1> DEFINE T == D \ {n}
           c == [x \in T |-> nb[x]]
<1>1. Tree(r, T, Without(D, n, sub))
  BY UnhungTree
<1>2. /\ n \in D \ {Nill} /\ p = h[n].parent /\ e = Dir(h, n) /\ p \in T /\ kid \in T /\ e \in Sides
      /\ h[p].child[e] = n /\ (p = Nill => e = LEFT /\ n = Root(h)) /\ (p # Nill => n # Root(h))
      /\ \A x \in D, d \in Sides : h[x].child[d] = n <=> x = p /\ d = e
      /\ \E d \in Sides : h[n].child[d] = kid
  BY DEF Lone
<1>3. \A x \in D : /\ r[x].red = h[x].red
                   /\ \A d \in Sides : r[x].child[d] = IF x = p /\ d = e THEN kid ELSE h[x].child[d]
  BY <1>2 DEF Unhung
<1>4. EvenWith(h, D, nb, Nill, LEFT) /\ RedFree(h, D, Nill) /\ ~h[Nill].red /\ ~h[Root(h)].red
  <2>1. Even(h, D, nb)
    BY DEF Balanced
  <2> QED BY <2>1, EvenIsEven DEF Balanced, RedFree
<1>5. /\ nb \in [D -> Nat \ {0}] /\ nb[Nill] = 1
      /\ \A x \in D \ {Nill}, d \in Sides : nb[x] = nb[h[x].child[d]] + Blk(h, x) + Lack(x, d, Nill, LEFT)
  BY ONLY <1>4 DEF EvenWith
<1>6. nb[n] = nb[kid] /\ ~h[kid].red /\ p # Nill
  <2>1. PICK a \in Sides : h[n].child[a] = kid
    BY <1>2
  <2>2. nb[n] = nb[kid] + Blk(h, n) + Lack(n, a, Nill, LEFT)
    BY <1>2, <1>5, <2>1
  <2>3. Blk(h, n) = 0 /\ Lack(n, a, Nill, LEFT) = 0 /\ nb[kid] \in Nat
    BY <1>2, <1>5, BlkFacts DEF Lack
  <2>4. ~h[kid].red /\ p # Nill
    BY <1>2, <1>4, <2>1 DEF RedFree
  <2> QED BY ONLY <2>2, <2>3, <2>4
<1>7. \A x \in T : c[x] = nb[x]
  OBVIOUS
<1>8. Nill \in T /\ c \in [T -> Nat \ {0}] /\ \A x \in D, d \in Sides : h[x].child[d] \in D
  <2>1. Nill \in D /\ \A x \in D, d \in Sides : h[x].child[d] \in D
    BY DEF Tree, Rooted, Joined
  <2> QED BY <1>2, <1>5, <2>1
<1> HIDE DEF c
<1>9. ASSUME NEW x \in T \ {Nill}, NEW d \in Sides
      PROVE  c[x] = c[r[x].child[d]] + Blk(r, x) + Lack(x, d, Nill, LEFT)
  <2>1. nb[x] = nb[h[x].child[d]] + Blk(h, x) + Lack(x, d, Nill, LEFT)
    BY <1>5
  <2>2. Blk(r, x) = Blk(h, x)
    BY <1>3 DEF Blk
  <2>3. c[r[x].child[d]] = nb[h[x].child[d]]
    <3>1. CASE x = p /\ d = e
      <4>1. r[x].child[d] = kid /\ h[x].child[d] = n
        BY ONLY <1>2, <1>3, <3>1
      <4> QED BY ONLY <1>2, <1>6, <1>7, <4>1
    <3>2. CASE ~(x = p /\ d = e)
      <4>1. r[x].child[d] = h[x].child[d] /\ h[x].child[d] \in T
        BY <1>2, <1>3, <1>8, <3>2
      <4> QED BY ONLY <1>7, <4>1
    <3> QED BY <3>1, <3>2
  <2>4. c[x] = nb[x]
    BY <1>7
  <2> QED BY ONLY <2>1, <2>2, <2>3, <2>4
<1>10. EvenWith(r, T, c, Nill, LEFT)
  BY ONLY <1>5, <1>7, <1>8, <1>9 DEF EvenWith
<1>11. RedFree(r, T, Nill)
  <2>1. ASSUME NEW x \in T \ {Nill}, NEW d \in Sides PROVE ~r[x].red \/ ~r[r[x].child[d]].red
    <3>1. CASE x = p /\ d = e
      BY <1>2, <1>3, <1>6, <3>1
    <3>2. CASE ~(x = p /\ d = e)
      <4>1. r[x].child[d] = h[x].child[d] /\ h[x].child[d] \in D
        BY <1>2, <1>3, <1>8, <3>2
      <4>2. ~h[x].red \/ ~h[h[x].child[d]].red
        BY <1>4 DEF RedFree
      <4> QED BY <1>3, <4>1, <4>2
    <3> QED BY <3>1, <3>2
  <2> QED BY <2>1 DEF RedFree
<1>12. ~r[Nill].red /\ ~r[Root(r)].red
  <2>1. Root(r) = Root(h) /\ Root(h) \in D
    BY <1>3, <1>6, <1>8, SideFacts DEF Root
  <2> QED BY <1>3, <1>4, <1>8, <2>1
<1> HIDE DEF T
<1>13. Balanced(r, T, c)
  BY ONLY <1>1, <1>10, <1>11, <1>12, BalancedIs
<1>14. Without(D, n, sub) \in [T -> SUBSET T] /\ c \in [T -> Nat]
  BY ONLY <1>1, <1>10, TypedNumbers
<1> QED BY ONLY <1>1, <1>13, <1>14, Zenon DEF Settled, T

\* Without a black node one is missing where it was.
LEMMA UnhungBlack ==
  ASSUME NEW h, NEW g, NEW D, NEW sub, NEW nb, Tree(h, D, sub), Balanced(h, D, nb), NEW n, NEW kid, NEW p, NEW e,
         Lone(h, D, sub, n, kid, p, e), OrderedBut(h, g, D, sub, n), NEW r, Unhung(h, g, D, n, kid, r), ~h[n].red,
         NEW b \in Nat, b >= Cardinality(D) + 3
  PROVE  RemoveGood(r, D \ {n}, kid, b)
<1> DEFINE T == D \ {n}
           c == [x \in T |-> nb[x]]
           s == Without(D, n, sub)
<1>1. Tree(r, T, s)
  BY UnhungTree
<1>2. /\ n \in D \ {Nill} /\ p = h[n].parent /\ e = Dir(h, n) /\ p \in T /\ kid \in T /\ e \in Sides
      /\ h[p].child[e] = n /\ (p = Nill => e = LEFT /\ n = Root(h)) /\ (p # Nill => n # Root(h))
      /\ \A x \in D, d \in Sides : h[x].child[d] = n <=> x = p /\ d = e
      /\ \E d \in Sides : h[n].child[d] = kid
  BY DEF Lone
<1>3. \A x \in D : /\ r[x].red = h[x].red /\ r[x].parent = IF x = kid THEN p ELSE h[x].parent
                   /\ \A d \in Sides : r[x].child[d] = IF x = p /\ d = e THEN kid ELSE h[x].child[d]
  BY <1>2 DEF Unhung
<1>4. EvenWith(h, D, nb, Nill, LEFT) /\ RedFree(h, D, Nill) /\ ~h[Nill].red /\ ~h[Root(h)].red
  <2>1. Even(h, D, nb)
    BY DEF Balanced
  <2> QED BY <2>1, EvenIsEven DEF Balanced, RedFree
<1>5. /\ nb \in [D -> Nat \ {0}] /\ nb[Nill] = 1
      /\ \A x \in D \ {Nill}, d \in Sides : nb[x] = nb[h[x].child[d]] + Blk(h, x) + Lack(x, d, Nill, LEFT)
  BY ONLY <1>4 DEF EvenWith
<1>6. nb[n] = nb[kid] + 1
  <2>1. PICK a \in Sides : h[n].child[a] = kid
    BY <1>2
  <2>2. nb[n] = nb[kid] + Blk(h, n) + Lack(n, a, Nill, LEFT)
    BY <1>2, <1>5, <2>1
  <2>3. Blk(h, n) = 1 /\ Lack(n, a, Nill, LEFT) = 0 /\ nb[kid] \in Nat
    BY <1>2, <1>5, BlkFacts DEF Lack
  <2> QED BY ONLY <2>2, <2>3
<1>7. \A x \in T : c[x] = nb[x]
  OBVIOUS
<1>8. Nill \in T /\ c \in [T -> Nat \ {0}] /\ \A x \in D, d \in Sides : h[x].child[d] \in D
  <2>1. Nill \in D /\ \A x \in D, d \in Sides : h[x].child[d] \in D
    BY DEF Tree, Rooted, Joined
  <2> QED BY <1>2, <1>5, <2>1
<1> HIDE DEF c, s
<1>9. ASSUME NEW x \in T \ {Nill}, NEW d \in Sides
      PROVE  c[x] = c[r[x].child[d]] + Blk(r, x) + Lack(x, d, p, e)
  <2>1. nb[x] = nb[h[x].child[d]] + Blk(h, x) + Lack(x, d, Nill, LEFT) /\ Lack(x, d, Nill, LEFT) = 0
    BY <1>5 DEF Lack
  <2>2. Blk(r, x) = Blk(h, x) /\ Blk(h, x) \in 0 .. 1
    BY <1>3, BlkFacts DEF Blk
  <2>3. nb[h[x].child[d]] = c[r[x].child[d]] + Lack(x, d, p, e) /\ c[r[x].child[d]] \in Nat /\ Lack(x, d, p, e) \in 0 .. 1
    <3>1. CASE x = p /\ d = e
      <4>1. r[x].child[d] = kid /\ h[x].child[d] = n
        BY ONLY <1>2, <1>3, <3>1
      <4>2. Lack(x, d, p, e) = 1
        BY <3>1 DEF Lack
      <4> QED BY ONLY <1>2, <1>6, <1>7, <1>8, <4>1, <4>2
    <3>2. CASE ~(x = p /\ d = e)
      <4>1. r[x].child[d] = h[x].child[d] /\ h[x].child[d] \in T
        BY <1>2, <1>3, <1>8, <3>2
      <4>2. Lack(x, d, p, e) = 0
        BY <3>2 DEF Lack
      <4> QED BY ONLY <1>7, <1>8, <4>1, <4>2
    <3> QED BY <3>1, <3>2
  <2>4. c[x] = nb[x]
    BY <1>7
  <2> QED BY ONLY <2>1, <2>2, <2>3, <2>4
<1>10. EvenWith(r, T, c, p, e)
  BY ONLY <1>5, <1>7, <1>8, <1>9 DEF EvenWith
<1>11. RedAround(r, T, kid)
  <2>1. ASSUME NEW x \in T \ {Nill}, NEW d \in Sides
        PROVE  ~r[x].red \/ ~r[r[x].child[d]].red \/ (r[kid].red /\ (x = kid \/ r[x].child[d] = kid))
    <3>1. CASE x = p /\ d = e
      BY <1>2, <1>3, <3>1
    <3>2. CASE ~(x = p /\ d = e)
      <4>1. r[x].child[d] = h[x].child[d] /\ h[x].child[d] \in D
        BY <1>2, <1>3, <1>8, <3>2
      <4>2. ~h[x].red \/ ~h[h[x].child[d]].red
        BY <1>4 DEF RedFree
      <4> QED BY <1>3, <4>1, <4>2
    <3> QED BY <3>1, <3>2
  <2> HIDE DEF T
  <2> QED BY <2>1 DEF RedAround
<1>12. ~r[Nill].red /\ (Root(r) = kid \/ ~r[Root(r)].red)
  <2>1. Root(h) \in D /\ (Root(r) = kid \/ Root(r) = Root(h))
    BY <1>3, <1>8, SideFacts DEF Root
  <2> QED BY <1>3, <1>4, <1>8, <2>1
<1>13. r[kid].parent = p /\ r[p].child[e] = kid
  BY <1>2, <1>3
<1>14. RemoveState(r, T, kid, p, e, s, c)
  <2> HIDE DEF T
  <2> QED BY ONLY <1>1, <1>2, <1>10, <1>11, <1>12, <1>13 DEF RemoveState
<1>15. s \in [T -> SUBSET T] /\ c \in [T -> Nat] /\ IsFiniteSet(D)
  <2>1. IsFiniteSet(D)
    BY DEF Tree, Rooted
  <2> HIDE DEF T
  <2> QED BY ONLY <1>1, <1>10, <2>1, TypedNumbers
<1>16. b >= Cardinality(T) - Cardinality(s[kid]) + 3
  <2>1. IsFiniteSet(T) /\ Cardinality(T) <= Cardinality(D) /\ Cardinality(D) \in Nat
    <3>1. T \in SUBSET D
      OBVIOUS
    <3> HIDE DEF T
    <3> QED BY ONLY <1>15, <3>1, FS_Subset, FS_CardinalityType
  <2>2. Cardinality(T) \in Nat /\ Cardinality(s[kid]) \in Nat
    <3> HIDE DEF T
    <3> QED BY ONLY <1>2, <1>15, <2>1, Sizes
  <2> QED BY ONLY <2>1, <2>2, b \in Nat, b >= Cardinality(D) + 3
<1>17. RemoveBudget(r, T, kid, p, e, s, b)
  BY ONLY <1>16 DEF RemoveBudget
<1> HIDE DEF T
<1>18. RemoveGood(r, T, kid, b)
  BY ONLY <1>2, <1>14, <1>15, <1>17 DEF RemoveGood
<1> QED BY <1>18 DEF T

-----------------------------------------------------------------------------
(* Unlink, and the successor *)

\* All but the data are the same.
SameLinks(h, g, D) ==
  \A x \in D : /\ g[x].red = h[x].red /\ g[x].parent = h[x].parent
               /\ \A d \in Sides : g[x].child[d] = h[x].child[d]

\* The node is out, and the rest is settled.
Unlinked(g, D, n, r) ==
  /\ r \in [D \ {n} -> TreeNode(D)] /\ Settled(r, D \ {n})
  /\ \A x \in D \ {n} : r[x].data = g[x].data

\* Unlink leaves a settled tree without the node.
LEMMA UnlinkSettles ==
  ASSUME NEW D, IsFiniteSet(D), NEW h \in Heaps(D), NEW sub, NEW nb, Tree(h, D, sub), Balanced(h, D, nb),
         NEW g \in Heaps(D), SameLinks(h, g, D), NEW n \in D \ {Nill},
         h[n].child[LEFT] = Nill \/ h[n].child[RIGHT] = Nill, OrderedBut(h, g, D, sub, n),
         NEW r, r = Unlink(g, n)
  PROVE  Unlinked(g, D, n, r)
<1> DEFINE kid == IF g[n].child[LEFT] # Nill THEN g[n].child[LEFT] ELSE g[n].child[RIGHT]
           k == [g EXCEPT ![g[n].parent].child[Dir(g, n)] = kid, ![kid].parent = g[n].parent]
           t == IF Red(g, n) THEN k ELSE Remove_Balance(k, kid)
           T == D \ {n}
           p == h[n].parent
           e == Dir(h, n)
<1>1. r = [x \in T |-> t[x]]
  <2>1. DOMAIN g = D
    BY HeapFacts
  <2>2. r = [x \in DOMAIN g \ {n} |-> t[x]]
    BY Zenon DEF Unlink
  <2> QED BY ONLY <2>1, <2>2, Zenon
<1>2. \A x \in D : /\ g[x].red = h[x].red /\ g[x].parent = h[x].parent
                   /\ \A d \in Sides : g[x].child[d] = h[x].child[d]
  BY DEF SameLinks
<1>3. PICK a \in Sides : kid = h[n].child[a] /\ h[n].child[Other(a)] = Nill
  <2>1. Other(LEFT) = RIGHT /\ Other(RIGHT) = LEFT /\ LEFT \in Sides /\ RIGHT \in Sides
    BY SideFacts DEF Other
  <2>2. kid = IF h[n].child[LEFT] # Nill THEN h[n].child[LEFT] ELSE h[n].child[RIGHT]
    BY <1>2, <2>1
  <2>3. CASE h[n].child[LEFT] # Nill
    <3>1. kid = h[n].child[LEFT] /\ h[n].child[Other(LEFT)] = Nill
      BY <2>1, <2>2, <2>3
    <3> HIDE DEF kid
    <3> QED BY ONLY <2>1, <3>1
  <2>4. CASE h[n].child[LEFT] = Nill
    <3>1. kid = h[n].child[RIGHT] /\ h[n].child[Other(RIGHT)] = Nill
      BY <2>1, <2>2, <2>4
    <3> HIDE DEF kid
    <3> QED BY ONLY <2>1, <3>1
  <2> QED BY <2>3, <2>4
<1>4. p = h[n].parent /\ e = Dir(h, n) /\ (h[n].red => t = k) /\ (~h[n].red => t = Remove_Balance(k, kid))
  <2>1. Red(g, n) = h[n].red
    BY <1>2 DEF Red
  <2>2. (h[n].red => t = k) /\ (~h[n].red => t = Remove_Balance(k, kid))
    <3> HIDE DEF k, kid
    <3> QED BY ONLY <2>1 DEF t
  <2> QED BY ONLY <2>2, Zenon DEF p, e
<1>5. k = [g EXCEPT ![g[n].parent].child[Dir(g, n)] = kid, ![kid].parent = g[n].parent]
  OBVIOUS
<1> HIDE DEF kid, k, t, p, e
<1>6. Lone(h, D, sub, n, kid, p, e)
  BY <1>3, <1>4, LoneFacts
<1>7. p \in D /\ e \in Sides /\ kid \in D
  BY ONLY <1>6 DEF Lone
<1>8. Unhung(h, g, D, n, kid, k)
  BY ONLY <1>2, <1>4, <1>5, <1>7, h \in Heaps(D), g \in Heaps(D), n \in D \ {Nill}, UnhungFields, Zenon
<1>9. t \in Heaps(D) /\ Settled(t, T) /\ \A x \in D : t[x].data = g[x].data
  <2>1. k \in Heaps(D) /\ \A x \in D : k[x].data = g[x].data
    BY ONLY <1>8 DEF Unhung
  <2>2. CASE h[n].red
    <3>1. Settled(k, T)
      BY <1>6, <1>8, <2>2, UnhungRed
    <3> QED BY ONLY <1>4, <2>1, <2>2, <3>1
  <2>3. CASE ~h[n].red
    <3> DEFINE b == Turns(k)
    <3>1. b = Cardinality(D) + 4 /\ Cardinality(D) \in Nat
      BY <2>1, HeapFacts, FS_CardinalityType DEF Turns
    <3> HIDE DEF b
    <3>2. b \in Nat /\ b >= Cardinality(D) + 3
      BY ONLY <3>1
    <3>3. RemoveGood(k, T, kid, b)
      BY <1>6, <1>8, <2>3, <3>2, UnhungBlack
    <3>4. EndedIn(k, t, D, T)
      <4>1. t = Remove_Balance(k, kid) /\ T \in SUBSET D
        BY <1>4, <2>3
      <4>2. Null \notin D
        BY DEF Tree, Rooted
      <4>3. RemoveGood(k, T, kid, Turns(k))
        BY ONLY <3>3 DEF b
      <4> HIDE DEF T
      <4> QED BY ONLY <2>1, <4>1, <4>2, <4>3, IsFiniteSet(D), RemoveSettles
    <3> QED BY ONLY <2>1, <3>4 DEF EndedIn, SameData
  <2> QED BY <2>2, <2>3
<1>10. \A x \in T : r[x] = t[x] /\ x \in D
  BY <1>1
<1>11. r \in [T -> TreeNode(D)]
  BY <1>1, <1>9 DEF Heaps
<1>12. Settled(r, T)
  <2>1. \A x \in T : /\ r[x].data = t[x].data /\ r[x].red = t[x].red /\ (x # Nill => r[x].parent = t[x].parent)
                     /\ \A d \in Sides : r[x].child[d] = t[x].child[d]
    BY ONLY <1>10
  <2> HIDE DEF T
  <2> QED BY ONLY <1>9, <2>1, SettledAlike
<1>13. \A x \in T : r[x].data = g[x].data
  BY ONLY <1>9, <1>10
<1> QED BY ONLY <1>11, <1>12, <1>13 DEF Unlinked, T

-----------------------------------------------------------------------------
(* Real_Remove *)

\* The leftmost node below m comes before all others there.
LeftOf(h, sub, m, x) ==
  /\ x \in sub[m] /\ h[x].child[LEFT] = Nill
  /\ \A y \in sub[m] \ {x} : h[x].data < h[y].data

\* Leftmost finds the node with the least data below.
LEMMA LeftmostFinds ==
  ASSUME NEW D, IsFiniteSet(D), NEW h \in Heaps(D), NEW sub, Tree(h, D, sub), NEW m \in D \ {Nill}
  PROVE  LeftOf(h, sub, m, Leftmost(h, m))
<1> DEFINE next == [x \in D |-> IF h[x].child[LEFT] = Nill THEN x ELSE h[x].child[LEFT]]
           G == {x \in sub[m] : \A y \in sub[m] : y \in sub[x] \/ h[x].data < h[y].data}
           w == Weight(D, D, sub)
           end == LoopEnd(h, next, m)
<1>1. DOMAIN h = D
  BY HeapFacts
<1>2. /\ sub \in [D -> SUBSET (D \ {Nill})]
      /\ \A x \in D, d \in Sides : h[x].child[d] \in D
      /\ \A x \in D : \A y \in sub[x] : sub[y] \subseteq sub[x]
  BY DEF Tree, Rooted, Joined, Nested
<1>3. next \in [D -> D]
  BY <1>2, SideFacts
<1>4. m \in G
  <2>1. m \in sub[m]
    <3>1. PICK c, o : c = h[m].child[LEFT] /\ o = h[m].child[Other(LEFT)]
      BY Zenon
    <3> QED BY <3>1, SideFacts, Below
  <2> QED BY <2>1
<1>5. ASSUME NEW x \in G PROVE next[x] \in G /\ (next[x] = x \/ w[next[x]] < w[x])
  <2>1. x \in D \ {Nill} /\ x \in sub[m]
    BY <1>2
  <2>2. CASE h[x].child[LEFT] = Nill
    <3>1. next[x] = x
      BY <2>1, <2>2
    <3> QED BY <3>1
  <2>3. CASE h[x].child[LEFT] # Nill
    <3> DEFINE c == h[x].child[LEFT]
               o == h[x].child[Other(LEFT)]
    <3>1. next[x] = c
      BY <2>1, <2>3
    <3>2. c = h[x].child[LEFT] /\ o = h[x].child[Other(LEFT)] /\ Other(LEFT) = RIGHT
      BY DEF Other
    <3> HIDE DEF c, o
    <3>3. /\ x \in sub[x] /\ sub[c] \subseteq sub[x] /\ sub[x] = {x} \union sub[c] \union sub[o] /\ c \in D \ {Nill} /\ c \in sub[c]
      BY <2>1, <2>3, <3>2, SideFacts, Below
    <3>4. c \in sub[m]
      BY <1>2, <2>1, <3>3
    <3>5. h[c].data < h[x].data /\ \A y \in sub[o] : h[x].data < h[y].data
      <4>1. Beside(h, x, LEFT, c) /\ \A y \in sub[o] : Beside(h, x, RIGHT, y)
        BY <2>1, <3>2, <3>3, SideFacts DEF Tree, Ordered
      <4> QED BY <4>1, SideFacts DEF Beside
    <3>6. ASSUME NEW y \in sub[m] PROVE y \in sub[c] \/ h[c].data < h[y].data
      <4>1. y \in D /\ h[c].data \in Int /\ h[x].data \in Int /\ h[y].data \in Int
        BY <1>2, <2>1, <3>3, HeapFacts
      <4>2. y \in sub[x] \/ h[x].data < h[y].data
        BY DEF G
      <4> QED BY ONLY <3>3, <3>5, <4>1, <4>2
    <3>7. w[c] < w[x]
      BY <2>1, <3>2, SideFacts, WeightFacts
    <3> HIDE DEF next, w
    <3> QED BY <3>1, <3>4, <3>6, <3>7
  <2> QED BY <2>2, <2>3, Zenon
<1>6. w \in [D -> Nat] /\ w[m] <= Cardinality(D)
  BY WeightFacts, Zenon
<1>7. G \in SUBSET D
  BY <1>2
<1>8. end = LoopEnd(h, next, m) /\ m \in D
  OBVIOUS
<1>9. Leftmost(h, m) = end
  BY <1>1 DEF Leftmost
<1> HIDE DEF next, G, w, end
<1>10. end \in G /\ next[end] = end
  BY ONLY <1>1, <1>3, <1>4, <1>5, <1>6, <1>7, <1>8, IsFiniteSet(D), LoopArrives
<1>11. end \in sub[m] /\ end \in D \ {Nill} /\ \A y \in sub[m] : y \in sub[end] \/ h[end].data < h[y].data
  BY <1>2, <1>10 DEF G
<1>12. h[end].child[LEFT] = Nill
  <2>1. SUFFICES ASSUME h[end].child[LEFT] # Nill PROVE FALSE
    OBVIOUS
  <2>2. h[end].child[LEFT] = end
    BY <1>10, <1>11, <2>1 DEF next
  <2>3. PICK c, o : c = h[end].child[LEFT] /\ o = h[end].child[Other(LEFT)]
    OBVIOUS
  <2> QED BY <1>11, <2>1, <2>2, <2>3, SideFacts, Below
<1>13. ASSUME NEW y \in sub[m] \ {end} PROVE h[end].data < h[y].data
  <2>1. CASE y \in sub[end]
    <3>1. PICK c, o : c = h[end].child[LEFT] /\ o = h[end].child[Other(LEFT)]
      BY Zenon
    <3>2. sub[end] = {end} \union sub[c] \union sub[o] /\ sub[c] = {} /\ Other(LEFT) = RIGHT
      <4>1. sub[end] = {end} \union sub[c] \union sub[o]
        BY <1>11, <3>1, SideFacts, Below
      <4>2. sub[c] = {} /\ Other(LEFT) = RIGHT
        BY <1>12, <3>1 DEF Tree, Rooted, Other
      <4> QED BY <4>1, <4>2
    <3>3. Beside(h, end, RIGHT, y)
      BY <1>11, <2>1, <3>1, <3>2, SideFacts DEF Tree, Ordered
    <3> QED BY <3>3, SideFacts DEF Beside
  <2>2. CASE y \notin sub[end]
    BY <1>11, <2>2
  <2> QED BY <2>1, <2>2
<1> QED BY ONLY <1>9, <1>11, <1>12, <1>13 DEF LeftOf

-----------------------------------------------------------------------------
(* Real_Remove *)

\* A tree is in order without any of its nodes.
LEMMA OrderedSame ==
  ASSUME NEW h, NEW D, NEW sub, Tree(h, D, sub), NEW n \in D
  PROVE  OrderedBut(h, h, D, sub, n)
<1>1. /\ \A x \in D \ {Nill} : h[x].data \in Int /\ h[x].data < IntMax
      /\ \A x, y \in D \ {Nill} : h[x].data = h[y].data => x = y
      /\ \A x \in D \ {Nill}, d \in Sides : \A y \in sub[h[x].child[d]] : Beside(h, x, d, y)
  BY DEF Tree, Ordered
<1>2. h[Nill].data = IntMax
  BY DEF Tree, Rooted
<1> QED BY <1>1, <1>2 DEF OrderedBut

\* The data of the successor fit in the place of n, once it is out.
LEMMA OrderedMoved ==
  ASSUME NEW D, NEW h \in Heaps(D), NEW sub, Tree(h, D, sub), NEW n \in D \ {Nill}, NEW c, c = h[n].child[RIGHT], c # Nill,
         NEW m, LeftOf(h, sub, c, m), NEW g,
         \A x \in D : g[x].data = IF x = n THEN h[m].data ELSE h[x].data
  PROVE  m \in D \ {Nill, n} /\ OrderedBut(h, g, D, sub, m)
<1> DEFINE o == h[n].child[Other(RIGHT)]
<1>1. o = h[n].child[Other(RIGHT)] /\ Other(RIGHT) = LEFT /\ LEFT \in Sides /\ RIGHT \in Sides /\ LEFT # RIGHT
  BY SideFacts DEF Other
<1> HIDE DEF o
<1>2. /\ n \in sub[n] /\ sub[c] \subseteq sub[n] /\ n \notin sub[c] /\ n \notin sub[o] /\ sub[n] \subseteq D \ {Nill}
      /\ sub[n] = {n} \union sub[c] \union sub[o]
  BY <1>1, Below
<1>3. m \in sub[c] /\ \A y \in sub[c] \ {m} : h[m].data < h[y].data
  BY DEF LeftOf
<1>4. m \in D \ {Nill, n} /\ m \in sub[n]
  BY <1>2, <1>3
<1>5. /\ \A x \in D \ {Nill} : h[x].data \in Int /\ h[x].data < IntMax
      /\ \A x, y \in D \ {Nill} : h[x].data = h[y].data => x = y
      /\ \A x \in D \ {Nill}, d \in Sides : \A y \in sub[h[x].child[d]] : Beside(h, x, d, y)
  BY DEF Tree, Ordered
<1>6. /\ h[Nill].data = IntMax /\ Nill \in D /\ sub \in [D -> SUBSET (D \ {Nill})]
      /\ \A x \in D, d \in Sides : h[x].child[d] \in D
      /\ \A x \in D : \A y \in sub[x] : sub[y] \subseteq sub[x]
  BY DEF Tree, Rooted, Joined, Nested
<1>7. g[Nill].data = IntMax
  BY <1>6
<1>8. \A x \in D \ {Nill, m} : g[x].data \in Int /\ g[x].data < IntMax
  BY <1>4, <1>5
<1>9. ASSUME NEW x \in D \ {Nill, m}, NEW y \in D \ {Nill, m}, g[x].data = g[y].data PROVE x = y
  BY <1>4, <1>5, <1>9
<1>10. ASSUME NEW x \in D \ {Nill, m}, NEW d \in Sides, NEW y \in sub[h[x].child[d]] \ {m} PROVE Beside(g, x, d, y)
  <2>1. h[x].child[d] \in D /\ y \in D \ {Nill} /\ Beside(h, x, d, y)
    BY <1>5, <1>6
  <2>2. CASE x # n /\ y # n
    BY <2>1, <2>2 DEF Beside
  <2>3. CASE y = n
    <3>1. m \in sub[h[x].child[d]]
      BY <1>4, <1>6, <2>1, <2>3
    <3>2. Beside(h, x, d, m)
      BY <1>5, <3>1
    <3>3. x # n
      <4>1. d = LEFT \/ d = RIGHT
        BY DEF Sides
      <4> QED BY <1>1, <1>2, <2>3, <4>1
    <3> QED BY <2>3, <3>2, <3>3 DEF Beside
  <2>4. CASE x = n /\ y # n
    <3>1. g[x].data = h[m].data /\ g[y].data = h[y].data
      BY <2>1, <2>4
    <3>2. CASE d = RIGHT
      <4>1. h[m].data < h[y].data
        BY <1>3, <2>4, <3>2
      <4> QED BY <1>1, <3>1, <3>2, <4>1 DEF Beside
    <3>3. CASE d = LEFT
      <4>1. Beside(h, n, LEFT, y) /\ Beside(h, n, RIGHT, m)
        BY <1>1, <1>3, <1>5, <2>1, <2>4, <3>3
      <4>2. h[y].data < h[n].data /\ h[n].data < h[m].data
        BY <1>1, <4>1 DEF Beside
      <4>3. h[y].data \in Int /\ h[n].data \in Int /\ h[m].data \in Int
        BY <1>4, <1>5, <2>1
      <4>4. h[y].data < h[m].data
        BY ONLY <4>2, <4>3
      <4> QED BY <3>1, <3>3, <4>4 DEF Beside
    <3> QED BY <3>2, <3>3 DEF Sides
  <2> QED BY <2>2, <2>3, <2>4
<1> QED BY ONLY <1>4, <1>7, <1>8, <1>9, <1>10 DEF OrderedBut

\* A node is out, the rest is settled, and the data of n are gone.
RealRemoved(D, n, r) ==
  \E m \in D \ {Nill} :
    /\ r \in [D \ {m} -> TreeNode(D)] /\ Settled(r, D \ {m})
    /\ {r[x].data : x \in D \ {Nill, m}} = D \ {Nill, n}

\* Real_Remove takes the data of its node out of the tree, and nothing else.
LEMMA RealRemoveSettles ==
  ASSUME NEW D, IsFiniteSet(D), NEW h \in Heaps(D), NEW sub, NEW nb, Tree(h, D, sub), Balanced(h, D, nb),
         \A x \in D \ {Nill} : h[x].data = x, NEW n \in D \ {Nill}, NEW r, r = Real_Remove(h, n)
  PROVE  RealRemoved(D, n, r)
<1> DEFINE c == h[n].child[RIGHT]
           m == Leftmost(h, c)
           g == [h EXCEPT ![n].data = h[m].data]
<1>1. r = IF h[n].child[LEFT] # Nill /\ c # Nill THEN Unlink(g, m) ELSE Unlink(h, n)
  BY DEF Real_Remove
<1>2. c = h[n].child[RIGHT] /\ m = Leftmost(h, c) /\ g = WithData(h, n, h[m].data)
  BY DEF WithData
<1> HIDE DEF c, m, g
<1>3. CASE h[n].child[LEFT] = Nill \/ c = Nill
  <2>1. r = Unlink(h, n) /\ (h[n].child[LEFT] = Nill \/ h[n].child[RIGHT] = Nill)
    BY ONLY <1>1, <1>2, <1>3
  <2>2. SameLinks(h, h, D)
    BY DEF SameLinks
  <2>3. OrderedBut(h, h, D, sub, n)
    BY OrderedSame
  <2>4. Unlinked(h, D, n, r)
    BY ONLY <2>1, <2>2, <2>3, IsFiniteSet(D), h \in Heaps(D), Tree(h, D, sub), Balanced(h, D, nb), n \in D \ {Nill}, UnlinkSettles
  <2>5. r \in [D \ {n} -> TreeNode(D)] /\ Settled(r, D \ {n}) /\ \A x \in D \ {n} : r[x].data = h[x].data
    BY ONLY <2>4 DEF Unlinked
  <2>6. {r[x].data : x \in D \ {Nill, n}} = D \ {Nill, n}
    <3>1. \A x \in D \ {Nill, n} : r[x].data = x
      BY <2>5
    <3> QED BY ONLY <3>1
  <2> QED BY ONLY <2>5, <2>6, n \in D \ {Nill}, Zenon DEF RealRemoved
<1>4. CASE h[n].child[LEFT] # Nill /\ c # Nill
  <2>1. r = Unlink(g, m)
    BY ONLY <1>1, <1>4
  <2>2. c \in D \ {Nill}
    BY <1>2, <1>4, SideFacts DEF Tree, Joined
  <2>3. LeftOf(h, sub, c, m)
    BY ONLY <1>2, <2>2, IsFiniteSet(D), h \in Heaps(D), Tree(h, D, sub), LeftmostFinds
  <2>4. m \in sub[c] /\ h[m].child[LEFT] = Nill
    BY ONLY <2>3 DEF LeftOf
  <2>5. m \in D /\ h[m].data \in Int
    <3>1. m \in D
      BY <2>2, <2>4 DEF Tree, Rooted
    <3> QED BY <3>1, HeapFacts
  <2>6. /\ g \in Heaps(D)
        /\ \A x \in D : /\ g[x].parent = h[x].parent /\ g[x].red = h[x].red /\ g[x].child = h[x].child
                        /\ g[x].data = IF x = n THEN h[m].data ELSE h[x].data
    <3> DEFINE v == h[m].data
    <3>1. v \in Int /\ n \in D
      BY ONLY <2>5, n \in D \ {Nill}
    <3> HIDE DEF v
    <3>2. /\ WithData(h, n, v) \in Heaps(D)
          /\ \A x \in D : /\ WithData(h, n, v)[x].parent = h[x].parent /\ WithData(h, n, v)[x].red = h[x].red
                          /\ WithData(h, n, v)[x].child = h[x].child
                          /\ WithData(h, n, v)[x].data = IF x = n THEN v ELSE h[x].data
      BY ONLY <3>1, h \in Heaps(D), SetData
    <3> QED BY ONLY <1>2, <3>2, Zenon DEF v
  <2>7. m \in D \ {Nill, n} /\ OrderedBut(h, g, D, sub, m)
    <3>1. \A x \in D : g[x].data = IF x = n THEN h[m].data ELSE h[x].data
      BY ONLY <2>6
    <3> QED BY ONLY <1>2, <1>4, <2>3, <3>1, h \in Heaps(D), Tree(h, D, sub), n \in D \ {Nill}, OrderedMoved
  <2>8. SameLinks(h, g, D)
    BY ONLY <2>6 DEF SameLinks
  <2>9. Unlinked(g, D, m, r)
    BY ONLY <2>1, <2>4, <2>6, <2>7, <2>8, IsFiniteSet(D), h \in Heaps(D), Tree(h, D, sub), Balanced(h, D, nb), UnlinkSettles
  <2>10. r \in [D \ {m} -> TreeNode(D)] /\ Settled(r, D \ {m}) /\ \A x \in D \ {m} : r[x].data = g[x].data
    BY ONLY <2>9 DEF Unlinked
  <2>11. {r[x].data : x \in D \ {Nill, m}} = D \ {Nill, n}
    <3>1. h[m].data = m /\ \A x \in D \ {Nill, m} : r[x].data = IF x = n THEN m ELSE x
      BY <2>6, <2>7, <2>10
    <3>2. r[n].data = m /\ n \in D \ {Nill, m}
      BY <2>7, <3>1
    <3> QED BY ONLY <2>7, <3>1, <3>2
  <2> QED BY ONLY <2>7, <2>10, <2>11, Zenon DEF RealRemoved
<1> QED BY <1>3, <1>4

-----------------------------------------------------------------------------
(* Every node under its data *)

\* q is r with each node x of T named name[x].
Renamed(T, name, E, r, q) ==
  /\ name \in [T -> E] /\ \A k \in E : \E x \in T : name[x] = k
  /\ \A x, y \in T : name[x] = name[y] => x = y
  /\ Nill \in T /\ name[Nill] = Nill /\ Null \notin E /\ q \in Heaps(E)
  /\ \A x \in T : /\ q[name[x]].data = r[x].data /\ q[name[x]].red = r[x].red
                  /\ (x # Nill => q[name[x]].parent = name[r[x].parent])
                  /\ \A d \in Sides : q[name[x]].child[d] = name[r[x].child[d]]

\* Named only gives the nodes other names.
LEMMA NamedFields ==
  ASSUME NEW D, NEW T \in SUBSET D, NEW r \in [T -> TreeNode(D)],
         NEW name, name = [x \in T |-> IF x = Nill THEN Nill ELSE r[x].data],
         \A x, y \in T : name[x] = name[y] => x = y, Nill \in T, \A x \in T : name[x] # Null,
         \A x \in T, d \in Sides : r[x].child[d] \in T, \A x \in T \ {Nill} : r[x].parent \in T,
         NEW E, E = {name[x] : x \in T}, NEW q, q = Named(r)
  PROVE  Renamed(T, name, E, r, q)
<1> DEFINE Name(x) == IF x = Nill THEN Nill ELSE r[x].data
           node(k) == CHOOSE x \in DOMAIN r : Name(x) = k
           N(k) == [r[node(k)] EXCEPT !.parent = IF k = Nill THEN Null ELSE Name(@),
                                      !.child = [dir \in {LEFT, RIGHT} |-> Name(@[dir])]]
<1>0. DOMAIN r = T
  OBVIOUS
<1>1. q = [k \in {Name(x) : x \in DOMAIN r} |-> N(k)]
  BY Zenon DEF Named
<1>2. \A x \in T : name[x] = Name(x)
  OBVIOUS
<1>3. E = {Name(x) : x \in T} /\ E = {Name(x) : x \in DOMAIN r}
  BY <1>0, <1>2
<1>4. \A x \in T : node(Name(x)) = x /\ Name(x) \in E
  <2> TAKE x \in T
  <2> DEFINE y == node(Name(x))
  <2>1. y \in T /\ Name(y) = Name(x)
    <3> HIDE DEF Name
    <3> QED BY <1>0
  <2> HIDE DEF y, Name
  <2>2. y = x
    BY <1>2, <2>1
  <2> QED BY <1>3, <2>2, Zenon DEF y
<1> HIDE DEF node
<1>5. ASSUME NEW x \in T
      PROVE  /\ q[Name(x)] \in TreeNode(E) /\ q[Name(x)].data = r[x].data /\ q[Name(x)].red = r[x].red
             /\ (x # Nill => q[Name(x)].parent = Name(r[x].parent))
             /\ \A d \in Sides : q[Name(x)].child[d] = Name(r[x].child[d])
  <2> DEFINE m == r[x]
             par == IF Name(x) = Nill THEN Null ELSE Name(m.parent)
             ch == [dir \in {LEFT, RIGHT} |-> Name(m.child[dir])]
  <2>1. /\ m.data \in Int /\ m.red \in BOOLEAN
        /\ m = [data |-> m.data, red |-> m.red, parent |-> m.parent, child |-> m.child]
    <3>1. m \in TreeNode(D)
      OBVIOUS
    <3> HIDE DEF m
    <3> QED BY <3>1, NodeFields
  <2>2. q[Name(x)] = N(Name(x)) /\ node(Name(x)) = x
    <3> HIDE DEF N, Name
    <3> QED BY <1>0, <1>1, <1>4
  <2>3. N(Name(x)) = [m EXCEPT !.parent = par, !.child = ch]
    <3>1. node(Name(x)) = x
      BY <2>2, Zenon
    <3> HIDE DEF Name
    <3> QED BY <3>1
  <2>4. q[Name(x)] = [data |-> m.data, red |-> m.red, parent |-> par, child |-> ch]
    <3> HIDE DEF m, par, ch, Name, N
    <3> QED BY <2>1, <2>2, <2>3, Zenon
  <2>5. ch \in [Sides -> E] /\ \A d \in Sides : ch[d] = Name(m.child[d])
    <3>1. \A d \in Sides : Name(m.child[d]) \in E
      BY <1>4
    <3> HIDE DEF Name
    <3> QED BY <3>1 DEF Sides
  <2>6. par \in E \union {Null} /\ (x # Nill => par = Name(m.parent))
    <3>1. CASE x = Nill
      <4>1. Name(x) = Nill
        BY <3>1
      <4> HIDE DEF Name
      <4> QED BY <3>1, <4>1
    <3>2. CASE x # Nill
      <4>1. m.parent \in T
        BY <3>2
      <4>2. Name(m.parent) \in E
        <5> HIDE DEF m, Name
        <5> QED BY <1>4, <4>1
      <4>3. Name(x) # Nill
        <5>1. Name(Nill) = Nill
          OBVIOUS
        <5> HIDE DEF Name
        <5> QED BY <1>2, <3>2, <5>1
      <4> HIDE DEF m, Name
      <4> QED BY <3>2, <4>2, <4>3
    <3> QED BY <3>1, <3>2
  <2> HIDE DEF ch, par, m
  <2>7. [data |-> m.data, red |-> m.red, parent |-> par, child |-> ch] \in TreeNode(E)
    BY ONLY <2>1, <2>5, <2>6 DEF TreeNode
  <2> HIDE DEF Name
  <2>8. q[Name(x)] \in TreeNode(E) /\ q[Name(x)].data = m.data /\ q[Name(x)].red = m.red
        /\ q[Name(x)].parent = par /\ q[Name(x)].child = ch
    BY ONLY <2>4, <2>7
  <2> QED BY ONLY <2>5, <2>6, <2>8 DEF m
<1>6. q \in Heaps(E)
  <2> HIDE DEF Name, N
  <2>1. q = [k \in E |-> q[k]]
    BY <1>1, <1>3, Zenon
  <2>2. \A k \in E : q[k] \in TreeNode(E)
    BY <1>3, <1>5, Zenon
  <2> QED BY ONLY <2>1, <2>2 DEF Heaps
<1>7. name \in [T -> E] /\ (\A k \in E : \E x \in T : name[x] = k) /\ Null \notin E /\ name[Nill] = Nill
  <2> HIDE DEF Name
  <2> QED BY Zenon
<1>8. \A x \in T : /\ q[name[x]].data = r[x].data /\ q[name[x]].red = r[x].red
                   /\ (x # Nill => q[name[x]].parent = name[r[x].parent])
                   /\ \A d \in Sides : q[name[x]].child[d] = name[r[x].child[d]]
  <2> TAKE x \in T
  <2>1. name[x] = Name(x) /\ (x # Nill => name[r[x].parent] = Name(r[x].parent))
        /\ \A d \in Sides : name[r[x].child[d]] = Name(r[x].child[d])
    <3> HIDE DEF Name
    <3> QED BY <1>2
  <2> HIDE DEF Name
  <2> QED BY ONLY <1>5, <2>1, x \in T
<1>9. (\A x, y \in T : name[x] = name[y] => x = y) /\ Nill \in T
  OBVIOUS
<1> QED BY ONLY <1>6, <1>7, <1>8, <1>9 DEF Renamed

\* A tree under other names is a tree, as balanced as before.
LEMMA RenamedSettled ==
  ASSUME NEW T, NEW name, NEW E, NEW r, NEW q, Renamed(T, name, E, r, q), Settled(r, T)
  PROVE  Settled(q, E)
<1>1. PICK sub \in [T -> SUBSET T], nb \in [T -> Nat] : Tree(r, T, sub) /\ Balanced(r, T, nb)
  BY DEF Settled
<1>2. /\ name \in [T -> E] /\ \A k \in E : \E x \in T : name[x] = k
      /\ \A x, y \in T : name[x] = name[y] => x = y
      /\ Nill \in T /\ name[Nill] = Nill /\ Null \notin E
      /\ \A x \in T : /\ q[name[x]].data = r[x].data /\ q[name[x]].red = r[x].red
                      /\ (x # Nill => q[name[x]].parent = name[r[x].parent])
                      /\ \A d \in Sides : q[name[x]].child[d] = name[r[x].child[d]]
  BY DEF Renamed
<1>3. PICK at \in [E -> T] : \A x \in T : at[name[x]] = x
  <2> DEFINE f == [k \in E |-> CHOOSE x \in T : name[x] = k]
  <2>1. f \in [E -> T] /\ \A x \in T : f[name[x]] = x
    <3>1. \A k \in E : f[k] \in T /\ name[f[k]] = k
      BY <1>2
    <3>2. f \in [E -> T]
      BY <3>1
    <3> HIDE DEF f
    <3> QED BY <1>2, <3>1, <3>2
  <2> HIDE DEF f
  <2> QED BY <2>1
<1> DEFINE s == [k \in E |-> {name[y] : y \in sub[at[k]]}]
           c == [k \in E |-> nb[at[k]]]
<1>4. /\ IsFiniteSet(T) /\ Null \notin T /\ r[Nill].data = IntMax /\ r[Nill].child[RIGHT] = Nill
      /\ sub \in [T -> SUBSET (T \ {Nill})] /\ sub[Nill] = {} /\ sub[Root(r)] = T \ {Nill}
  BY <1>1 DEF Tree, Rooted
<1>5. /\ \A x \in T, d \in Sides :
           r[x].child[d] \in T /\ (r[x].child[d] # Nill => r[r[x].child[d]].parent = x)
      /\ \A x \in T \ {Nill} : r[x].parent \in T /\ \E d \in Sides : r[r[x].parent].child[d] = x
  BY <1>1 DEF Tree, Joined
<1>6. \A x \in T : name[x] \in E /\ s[name[x]] = {name[y] : y \in sub[x]} /\ c[name[x]] = nb[x]
  BY <1>2, <1>3
<1> HIDE DEF s, c
<1>7. ASSUME NEW x \in T, NEW y \in T PROVE name[y] \in s[name[x]] <=> y \in sub[x]
  <2>1. s[name[x]] = {name[z] : z \in sub[x]} /\ sub[x] \subseteq T
    BY <1>4, <1>6, Zenon
  <2>2. ASSUME name[y] \in s[name[x]] PROVE y \in sub[x]
    <3>1. PICK z \in sub[x] : name[z] = name[y]
      BY <2>1, <2>2
    <3>2. z = y
      BY <1>2, <2>1, <3>1
    <3> QED BY <3>2
  <2> QED BY <2>1, <2>2
<1>8. ASSUME NEW x \in T
      PROVE  s[name[x]] \subseteq E \ {Nill} /\ \A k \in s[name[x]] : \E y \in T : k = name[y] /\ y \in sub[x]
  <2>1. s[name[x]] = {name[z] : z \in sub[x]} /\ sub[x] \subseteq T \ {Nill}
    BY <1>4, <1>6, Zenon
  <2>2. \A y \in T \ {Nill} : name[y] \in E \ {Nill}
    BY <1>2
  <2> QED BY ONLY <2>1, <2>2
<1>9. s \in [E -> SUBSET (E \ {Nill})] /\ c \in [E -> Nat]
  <2>1. s = [k \in E |-> s[k]] /\ c = [k \in E |-> c[k]]
    BY DEF s, c
  <2>2. \A k \in E : s[k] \in SUBSET (E \ {Nill}) /\ c[k] \in Nat
    BY <1>1, <1>2, <1>6, <1>8
  <2> QED BY <2>1, <2>2
<1>10. Rooted(q, E, s)
  <2>1. IsFiniteSet(E)
    <3>1. name \in Surjection(T, E)
      BY <1>2 DEF Surjection
    <3> QED BY <1>4, <3>1, FS_Surjection
  <2>2. Nill \in E /\ q[Nill].data = IntMax /\ q[Nill].child[RIGHT] = Nill
    BY <1>2, <1>4, SideFacts
  <2>3. s[Nill] = {}
    BY <1>2, <1>4, <1>6
  <2>4. s[Root(q)] = E \ {Nill}
    <3>1. Root(q) = name[Root(r)] /\ Root(r) \in T
      BY <1>2, <1>5, SideFacts DEF Root
    <3>2. s[Root(q)] = {name[y] : y \in T \ {Nill}}
      BY <1>4, <1>6, <3>1, Zenon
    <3>3. {name[y] : y \in T \ {Nill}} = E \ {Nill}
      BY <1>2
    <3> QED BY ONLY <3>2, <3>3
  <2> QED BY ONLY <1>2, <1>9, <2>1, <2>2, <2>3, <2>4 DEF Rooted
<1>11. Joined(q, E)
  <2>1. ASSUME NEW k \in E, NEW d \in Sides
        PROVE  q[k].child[d] \in E /\ (q[k].child[d] # Nill => q[q[k].child[d]].parent = k)
    <3>1. PICK x \in T : name[x] = k
      BY <1>2
    <3>2. q[k].child[d] = name[r[x].child[d]] /\ r[x].child[d] \in T /\ (r[x].child[d] # Nill => r[r[x].child[d]].parent = x)
      BY <1>2, <1>5, <3>1
    <3>3. PICK z \in T : z = r[x].child[d]
      BY <3>2
    <3>4. q[k].child[d] = name[z] /\ (z # Nill => r[z].parent = x) /\ name[z] \in E
      BY ONLY <1>6, <3>2, <3>3
    <3>5. z # Nill => q[name[z]].parent = k
      BY ONLY <1>2, <3>1, <3>4
    <3>6. name[z] # Nill => z # Nill
      BY ONLY <1>2
    <3> QED BY ONLY <3>4, <3>5, <3>6
  <2>2. ASSUME NEW k \in E \ {Nill} PROVE q[k].parent \in E /\ \E d \in Sides : q[q[k].parent].child[d] = k
    <3>1. PICK x \in T : name[x] = k
      BY <1>2
    <3>2. x # Nill
      BY <1>2, <3>1
    <3>3. q[k].parent = name[r[x].parent] /\ r[x].parent \in T
      BY <1>2, <1>5, <3>1, <3>2
    <3>4. PICK d \in Sides : r[r[x].parent].child[d] = x
      BY <1>5, <3>2
    <3>5. q[name[r[x].parent]].child[d] = k
      BY <1>2, <3>1, <3>3, <3>4
    <3> QED BY <1>2, <3>3, <3>5
  <2> QED BY ONLY <2>1, <2>2 DEF Joined
<1>12. Parted(q, E, s)
  <2>1. ASSUME NEW k \in E \ {Nill}, NEW d \in Sides
        PROVE  /\ s[k] = {k} \union s[q[k].child[d]] \union s[q[k].child[Other(d)]]
               /\ k \notin s[q[k].child[d]]
               /\ s[q[k].child[d]] \intersect s[q[k].child[Other(d)]] = {}
    <3>1. PICK x \in T : name[x] = k
      BY <1>2
    <3>2. x # Nill /\ Other(d) \in Sides
      BY <1>2, <3>1, SideFacts
    <3> DEFINE a == r[x].child[d]
               b == r[x].child[Other(d)]
    <3>3. q[k].child[d] = name[a] /\ q[k].child[Other(d)] = name[b] /\ a \in T /\ b \in T
      BY <1>2, <1>5, <3>1, <3>2
    <3>4. sub[x] = {x} \union sub[a] \union sub[b] /\ x \notin sub[a] /\ sub[a] \intersect sub[b] = {}
      BY <1>1, <3>2 DEF Tree, Parted
    <3> HIDE DEF a, b
    <3>5. s[k] = {name[y] : y \in sub[x]} /\ s[name[a]] = {name[y] : y \in sub[a]} /\ s[name[b]] = {name[y] : y \in sub[b]}
      BY <1>6, <3>1, <3>3, Zenon
    <3>6. s[k] = {k} \union s[name[a]] \union s[name[b]]
      BY ONLY <3>1, <3>4, <3>5
    <3>7. k \notin s[name[a]]
      BY ONLY <1>7, <3>1, <3>3, <3>4
    <3>8. s[name[a]] \intersect s[name[b]] = {}
      BY ONLY <1>7, <1>8, <3>3, <3>4
    <3> QED BY ONLY <3>3, <3>6, <3>7, <3>8
  <2> QED BY ONLY <2>1 DEF Parted
<1>13. Ordered(q, E, s)
  <2>1. /\ \A x \in T \ {Nill} : r[x].data \in Int /\ r[x].data < IntMax
        /\ \A x, y \in T \ {Nill} : r[x].data = r[y].data => x = y
        /\ \A x \in T \ {Nill}, d \in Sides : \A y \in sub[r[x].child[d]] : Beside(r, x, d, y)
    BY <1>1 DEF Tree, Ordered
  <2>2. \A k \in E \ {Nill} : \E x \in T \ {Nill} : k = name[x] /\ q[k].data = r[x].data
    BY <1>2
  <2>3. \A k \in E \ {Nill} : q[k].data \in Int /\ q[k].data < IntMax
    BY ONLY <2>1, <2>2
  <2>4. \A k, l \in E \ {Nill} : q[k].data = q[l].data => k = l
    BY ONLY <2>1, <2>2
  <2>5. ASSUME NEW k \in E \ {Nill}, NEW d \in Sides, NEW l \in s[q[k].child[d]] PROVE Beside(q, k, d, l)
    <3>1. PICK x \in T \ {Nill} : k = name[x] /\ q[k].data = r[x].data
      BY <2>2
    <3>2. q[k].child[d] = name[r[x].child[d]] /\ r[x].child[d] \in T
      BY <1>2, <1>5, <3>1
    <3>3. PICK y \in T : l = name[y] /\ y \in sub[r[x].child[d]]
      BY <1>8, <3>2
    <3>4. Beside(r, x, d, y)
      BY <2>1, <3>3
    <3>5. q[l].data = r[y].data
      BY <1>2, <3>3
    <3> QED BY ONLY <3>1, <3>4, <3>5 DEF Beside
  <2> QED BY ONLY <2>3, <2>4, <2>5 DEF Ordered
<1>14. Nested(q, E, s)
  <2>1. ASSUME NEW k \in E, NEW l \in s[k] PROVE s[l] \subseteq s[k] /\ (l # k => q[l].parent \in s[k])
    <3>1. PICK x \in T : name[x] = k
      BY <1>2
    <3>2. PICK y \in T : l = name[y] /\ y \in sub[x]
      BY <1>8, <3>1
    <3>3. sub[y] \subseteq sub[x] /\ (y # x => r[y].parent \in sub[x]) /\ y # Nill /\ r[y].parent \in T
      BY <1>1, <1>4, <1>5, <3>2 DEF Tree, Nested
    <3>4. s[l] \subseteq s[k]
      <4>1. s[l] = {name[z] : z \in sub[y]} /\ s[k] = {name[z] : z \in sub[x]}
        BY ONLY <1>6, <3>1, <3>2, Zenon
      <4> QED BY ONLY <3>3, <4>1
    <3>5. l # k => q[l].parent \in s[k]
      <4>1. q[l].parent = name[r[y].parent]
        BY <1>2, <3>2, <3>3
      <4> QED BY ONLY <1>7, <3>1, <3>2, <3>3, <4>1
    <3> QED BY ONLY <3>4, <3>5
  <2> QED BY ONLY <2>1 DEF Nested
<1>15. Tree(q, E, s)
  BY ONLY <1>10, <1>11, <1>12, <1>13, <1>14 DEF Tree
<1>16. Balanced(q, E, c)
  <2>1. /\ nb \in [T -> Nat \ {0}] /\ nb[Nill] = 1 /\ \A x \in T \ {Nill} : EvenAt(r, nb, x)
        /\ ~r[Nill].red /\ ~r[Root(r)].red
        /\ \A x \in T \ {Nill}, d \in Sides : ~r[x].red \/ ~r[r[x].child[d]].red
    BY <1>1 DEF Balanced, Even
  <2>2. c \in [E -> Nat \ {0}] /\ c[Nill] = 1
    BY <1>2, <1>6, <1>9, <2>1
  <2>3. ASSUME NEW k \in E \ {Nill}, NEW d \in Sides
        PROVE  /\ q[k].red => c[k] = c[q[k].child[d]]
               /\ ~q[k].red => c[k] = c[q[k].child[d]] + 1
               /\ ~q[k].red \/ ~q[q[k].child[d]].red
    <3>1. PICK x \in T : name[x] = k
      BY <1>2
    <3>2. x # Nill
      BY <1>2, <3>1
    <3>3. q[k].child[d] = name[r[x].child[d]] /\ r[x].child[d] \in T /\ q[k].red = r[x].red
          /\ q[name[r[x].child[d]]].red = r[r[x].child[d]].red
      BY <1>2, <1>5, <3>1
    <3>4. c[k] = nb[x] /\ c[q[k].child[d]] = nb[r[x].child[d]]
      BY ONLY <1>6, <3>1, <3>3
    <3>5. (r[x].red => nb[x] = nb[r[x].child[d]]) /\ (~r[x].red => nb[x] = nb[r[x].child[d]] + 1)
      BY <2>1, <3>2 DEF EvenAt
    <3>6. ~r[x].red \/ ~r[r[x].child[d]].red
      BY <2>1, <3>2
    <3> QED BY ONLY <3>3, <3>4, <3>5, <3>6
  <2>4. ~q[Nill].red /\ ~q[Root(q)].red
    <3>1. Root(q) = name[Root(r)] /\ Root(r) \in T
      BY <1>2, <1>5, SideFacts DEF Root
    <3> QED BY ONLY <1>2, <2>1, <3>1
  <2>5. \A k \in E \ {Nill} : EvenAt(q, c, k)
    BY ONLY <2>3 DEF EvenAt
  <2> QED BY ONLY <2>2, <2>3, <2>4, <2>5 DEF Balanced, Even
<1>17. s \in [E -> SUBSET E]
  <2>1. SUBSET (E \ {Nill}) \subseteq SUBSET E
    OBVIOUS
  <2> QED BY ONLY <1>9, <2>1
<1> QED BY ONLY <1>9, <1>15, <1>16, <1>17 DEF Settled

-----------------------------------------------------------------------------
(* Between two calls *)

\* The heap between two calls: a settled tree of keys, each under its data.
Tidy(D, h) ==
  /\ IsFiniteSet(D) /\ D \subseteq Keys \union {Nill} /\ h \in Heaps(D) /\ Settled(h, D)
  /\ \A k \in D \ {Nill} : h[k].data = k

TreeInv == Tidy(DOMAIN heap, heap)

\* After a call every node is under its data.
LEMMA NamedTidy ==
  ASSUME NEW D, NEW T \in SUBSET D, NEW r \in [T -> TreeNode(D)], Settled(r, T),
         NEW E, E = {Nill} \union {r[x].data : x \in T \ {Nill}}, E \subseteq Keys \union {Nill}, Nill \notin {r[x].data : x \in T \ {Nill}},
         NEW q, q = Named(r)
  PROVE  Tidy(E, q)
<1> DEFINE name == [x \in T |-> IF x = Nill THEN Nill ELSE r[x].data]
<1>1. PICK sub \in [T -> SUBSET T], nb \in [T -> Nat] : Tree(r, T, sub) /\ Balanced(r, T, nb)
  BY DEF Settled
<1>2. /\ IsFiniteSet(T) /\ Nill \in T
      /\ \A x \in T, d \in Sides : r[x].child[d] \in T
      /\ \A x \in T \ {Nill} : r[x].parent \in T
      /\ \A x, y \in T \ {Nill} : r[x].data = r[y].data => x = y
  BY <1>1 DEF Tree, Rooted, Joined, Ordered
<1>3. \A x \in T : name[x] = IF x = Nill THEN Nill ELSE r[x].data
  OBVIOUS
<1>4. name = [x \in T |-> IF x = Nill THEN Nill ELSE r[x].data]
  OBVIOUS
<1> HIDE DEF name
<1>5. name[Nill] = Nill /\ \A x \in T \ {Nill} : name[x] = r[x].data /\ name[x] # Nill /\ name[x] \in Keys
  BY <1>2, <1>3
<1>6. \A x, y \in T : name[x] = name[y] => x = y
  BY ONLY <1>2, <1>5
<1>7. E = {name[x] : x \in T}
  BY ONLY <1>2, <1>5, E = {Nill} \union {r[x].data : x \in T \ {Nill}}
<1>8. \A x \in T : name[x] # Null
  BY <1>5, KeysAssumption DEF Null, Nill
<1>9. Renamed(T, name, E, r, q)
  BY ONLY <1>2, <1>4, <1>6, <1>7, <1>8, T \in SUBSET D, r \in [T -> TreeNode(D)], q = Named(r), NamedFields
<1>10. Settled(q, E)
  BY <1>9, RenamedSettled
<1>11. /\ q \in Heaps(E) /\ name \in [T -> E] /\ \A k \in E : \E x \in T : name[x] = k
       /\ \A x \in T : q[name[x]].data = r[x].data
  BY ONLY <1>9 DEF Renamed
<1>12. IsFiniteSet(E)
  BY <1>10 DEF Settled, Tree, Rooted
<1>13. \A k \in E \ {Nill} : q[k].data = k
  BY ONLY <1>5, <1>11
<1> QED BY <1>10, <1>11, <1>12, <1>13 DEF Tidy

\* Insert keeps the tree tidy.
LEMMA InsertKeeps ==
  ASSUME NEW D, NEW h, Tidy(D, h), NEW v \in Keys, NEW q, q = Named(Real_Insert(h, v))
  PROVE  Tidy(D \union {v}, q)
<1> DEFINE r == Real_Insert(h, v)
           T == D \union {v}
<1>1. IsFiniteSet(D) /\ D \subseteq Keys \union {Nill} /\ h \in Heaps(D) /\ Settled(h, D) /\ \A k \in D \ {Nill} : h[k].data = k
  BY DEF Tidy
<1>2. PICK sub \in [D -> SUBSET D], nb \in [D -> Nat] : Tree(h, D, sub) /\ Balanced(h, D, nb)
  BY <1>1 DEF Settled
<1>3. v \in Nat \ {0} /\ v < IntMax /\ v # Nill /\ Nill \in D /\ r = Real_Insert(h, v) /\ q = Named(r)
  BY <1>2, KeysAssumption DEF Nill, Tree, Rooted
<1> HIDE DEF r
<1>4. RealInserted(h, D, v, r)
  BY <1>1, <1>2, <1>3, RealInsertSettles, Zenon
<1>5. r \in [T -> TreeNode(T)] /\ Settled(r, T) /\ \A x \in T \ {Nill} : r[x].data = x
  <2>1. CASE v \in D /\ r = h
    <3>1. T = D
      BY <2>1
    <3> HIDE DEF T
    <3> QED BY ONLY <1>1, <2>1, <3>1 DEF Heaps
  <2>2. CASE v \notin D /\ r \in Heaps(T) /\ Settled(r, T) /\ r[v].data = v /\ \A x \in D : r[x].data = h[x].data
    <3>1. \A x \in T \ {Nill} : r[x].data = x
      BY ONLY <1>1, <2>2 DEF T
    <3> HIDE DEF T
    <3> QED BY ONLY <2>2, <3>1 DEF Heaps
  <2> QED BY ONLY <1>4, <2>1, <2>2, Zenon DEF RealInserted, T
<1>6. T = {Nill} \union {r[x].data : x \in T \ {Nill}} /\ Nill \notin {r[x].data : x \in T \ {Nill}}
  <2>1. Nill \in T
    BY <1>3
  <2> HIDE DEF T
  <2> QED BY ONLY <1>5, <2>1
<1>7. T \subseteq Keys \union {Nill} /\ T \in SUBSET T
  BY <1>1
<1> HIDE DEF T
<1>8. Tidy(T, q)
  <2>1. PICK E : E = T
    OBVIOUS
  <2>2. /\ T \in SUBSET T /\ r \in [T -> TreeNode(T)] /\ Settled(r, T) /\ E \subseteq Keys \union {Nill}
        /\ E = {Nill} \union {r[x].data : x \in T \ {Nill}} /\ Nill \notin {r[x].data : x \in T \ {Nill}} /\ q = Named(r)
    BY ONLY <1>3, <1>5, <1>6, <1>7, <2>1
  <2>3. Tidy(E, q)
    BY ONLY <2>2, NamedTidy
  <2> QED BY ONLY <2>1, <2>3
<1> QED BY <1>8 DEF T

\* Remove_Node keeps the tree tidy.
LEMMA RemoveKeeps ==
  ASSUME NEW D, NEW h, Tidy(D, h), NEW n \in D \ {Nill}, NEW q, q = Named(Real_Remove(h, n))
  PROVE  Tidy(D \ {n}, q)
<1> DEFINE r == Real_Remove(h, n)
<1>1. IsFiniteSet(D) /\ D \subseteq Keys \union {Nill} /\ h \in Heaps(D) /\ Settled(h, D) /\ \A k \in D \ {Nill} : h[k].data = k
  BY DEF Tidy
<1>2. PICK sub \in [D -> SUBSET D], nb \in [D -> Nat] : Tree(h, D, sub) /\ Balanced(h, D, nb)
  BY <1>1 DEF Settled
<1>3. r = Real_Remove(h, n) /\ q = Named(r)
  OBVIOUS
<1> HIDE DEF r
<1>4. RealRemoved(D, n, r)
  BY ONLY <1>1, <1>2, <1>3, n \in D \ {Nill}, RealRemoveSettles
<1>5. PICK m \in D \ {Nill} :
        /\ r \in [D \ {m} -> TreeNode(D)] /\ Settled(r, D \ {m})
        /\ {r[x].data : x \in D \ {Nill, m}} = D \ {Nill, n}
  BY ONLY <1>4, Zenon DEF RealRemoved
<1> DEFINE T == D \ {m}
           E == D \ {n}
<1>6. T \in SUBSET D /\ r \in [T -> TreeNode(D)] /\ Settled(r, T)
  BY ONLY <1>5
<1>7. Nill \in D
  BY <1>2 DEF Tree, Rooted
<1>8. T \ {Nill} = D \ {Nill, m}
  OBVIOUS
<1>9. {r[x].data : x \in T \ {Nill}} = D \ {Nill, n}
  BY ONLY <1>5, <1>8
<1>10. E = {Nill} \union {r[x].data : x \in T \ {Nill}} /\ E \subseteq Keys \union {Nill} /\ Nill \notin {r[x].data : x \in T \ {Nill}}
  BY ONLY <1>1, <1>7, <1>9, n \in D \ {Nill}
<1> HIDE DEF T, E
<1>11. Tidy(E, q)
  BY ONLY <1>3, <1>6, <1>10, NamedTidy
<1> QED BY <1>11 DEF E

\* A search finds the keys that are there.
LEMMA SearchFinds ==
  ASSUME NEW D, NEW h, Tidy(D, h), NEW v \in Keys
  PROVE  Get_Node(h, v) = IF v \in D THEN v ELSE Null
<1>1. IsFiniteSet(D) /\ h \in Heaps(D) /\ Settled(h, D) /\ \A k \in D \ {Nill} : h[k].data = k
  BY DEF Tidy
<1>2. PICK sub \in [D -> SUBSET D], nb \in [D -> Nat] : Tree(h, D, sub) /\ Balanced(h, D, nb)
  BY <1>1 DEF Settled
<1>3. /\ \A x \in D \ {Nill} : h[x].data = v => Get_Node(h, v) = x
      /\ (\A x \in D \ {Nill} : h[x].data # v) => Get_Node(h, v) = Null
  <2>1. D \in SUBSET D
    OBVIOUS
  <2> QED BY ONLY <1>1, <1>2, <2>1, GetNodeFinds
<1>4. v # Nill
  BY KeysAssumption DEF Nill
<1> QED BY ONLY <1>1, <1>3, <1>4

\* A search finds what has a node, and nothing else.
LEMMA FoundIs ==
  ASSUME TreeInv
  PROVE  Found = DOMAIN heap \ {Nill} /\ Nill \in DOMAIN heap
<1> DEFINE D == DOMAIN heap
<1>1. Tidy(D, heap)
  BY DEF TreeInv
<1>2. D \subseteq Keys \union {Nill} /\ Settled(heap, D)
  BY <1>1 DEF Tidy
<1>3. Nill \in D
  BY <1>2 DEF Settled, Tree, Rooted
<1>4. \A k \in Keys : Get_Node(heap, k) = IF k \in D THEN k ELSE Null
  BY <1>1, SearchFinds
<1>5. \A k \in Keys : k # Null /\ k # Nill
  BY KeysAssumption DEF Null, Nill
<1>6. Found = {k \in Keys : Get_Node(heap, k) # Null}
  BY DEF Found
<1> HIDE DEF D
<1>7. Found = D \ {Nill}
  BY ONLY <1>2, <1>4, <1>5, <1>6
<1> QED BY ONLY <1>3, <1>7 DEF D

-----------------------------------------------------------------------------
(* The tree is a red-black tree and a set *)

\* Number_of_black is the number of black nodes on each path.
LEMMA BlackCounted ==
  ASSUME NEW D, heap \in Heaps(D), NEW sub, NEW nb, Tree(heap, D, sub), Balanced(heap, D, nb), NEW n \in D
  PROVE  Number_of_black(n) = nb[n]
<1> DEFINE N == Turns(heap)
           W == [node : D, blacks : Nat]
           Turn(s) == IF s.node = Nill THEN s
                      ELSE [node |-> heap[s.node].child[LEFT],
                            blacks |-> s.blacks + IF Red(heap, s.node) THEN 0 ELSE 1]
           G(b) == {s \in W : s.blacks + nb[s.node] = nb[n] + 1 /\ Cardinality(sub[s.node]) <= b}
           next == [s \in W |-> IF Turn(s) \in W THEN Turn(s) ELSE s]
           first == [node |-> n, blacks |-> 1]
           OneOn(a, k) == IF k = 0 THEN first ELSE Turn(a[k - 1])
           walk == CHOOSE a : a = [k \in 0 .. N |-> OneOn(a, k)]
<1>0. /\ IsFiniteSet(D) /\ sub \in [D -> SUBSET (D \ {Nill})] /\ sub[Nill] = {} /\ DOMAIN heap = D
      /\ nb \in [D -> Nat \ {0}] /\ nb[Nill] = 1 /\ \A x \in D \ {Nill} : EvenAt(heap, nb, x)
      /\ \A x \in D, d \in Sides : heap[x].child[d] \in D
  BY HeapFacts DEF Tree, Rooted, Joined, Balanced, Even
<1>1. /\ N \in Nat /\ N = Cardinality(D) + 4 /\ Cardinality(D) \in Nat
      /\ \A x \in D : Cardinality(sub[x]) \in Nat /\ Cardinality(sub[x]) <= Cardinality(D)
  <2>1. N = Cardinality(D) + 4 /\ Cardinality(D) \in Nat
    BY <1>0, FS_CardinalityType DEF Turns
  <2>2. sub \in [D -> SUBSET D]
    <3>1. SUBSET (D \ {Nill}) \subseteq SUBSET D
      OBVIOUS
    <3> QED BY ONLY <1>0, <3>1
  <2>3. \A x \in D : Cardinality(sub[x]) \in Nat /\ Cardinality(sub[x]) <= Cardinality(D)
    BY ONLY <1>0, <2>2, Sizes
  <2> HIDE DEF N
  <2> QED BY ONLY <2>1, <2>3
<1>2. Number_of_black(n) = walk[N].blacks
  BY DEF Number_of_black
<1>3. first \in G(N)
  <2>1. first \in W /\ first.node = n /\ first.blacks = 1
    OBVIOUS
  <2>2. Cardinality(sub[n]) <= N /\ nb[n] \in Nat
    BY ONLY <1>0, <1>1, n \in D
  <2> HIDE DEF first, W, N
  <2> QED BY ONLY <2>1, <2>2 DEF G
<1>4. ASSUME NEW b \in Nat \ {0}, NEW s \in G(b) PROVE Turn(s) \in G(b - 1)
  <2>1. /\ s \in W /\ s.node \in D /\ s.blacks \in Nat
        /\ s.blacks + nb[s.node] = nb[n] + 1 /\ Cardinality(sub[s.node]) <= b
    OBVIOUS
  <2>2. CASE s.node = Nill
    <3>1. Turn(s) = s
      BY <2>2
    <3>2. Cardinality(sub[s.node]) <= b - 1
      <4>1. Cardinality(sub[s.node]) = 0
        BY <1>0, <2>2, FS_EmptySet, Zenon
      <4> QED BY ONLY <4>1, b \in Nat \ {0}
    <3> HIDE DEF Turn, W
    <3> QED BY ONLY <2>1, <3>1, <3>2 DEF G
  <2>3. CASE s.node # Nill
    <3> DEFINE x == s.node
               y == heap[x].child[LEFT]
               c == s.blacks + IF Red(heap, x) THEN 0 ELSE 1
               t == [node |-> y, blacks |-> c]
    <3>1. Turn(s) = t
      BY <2>3
    <3>2. y \in D /\ x \in D \ {Nill}
      BY <1>0, <2>1, <2>3, SideFacts
    <3>3. c \in Nat /\ (heap[x].red => c = s.blacks) /\ (~heap[x].red => c = s.blacks + 1)
      BY <2>1 DEF Red
    <3>4. (heap[x].red => nb[x] = nb[y]) /\ (~heap[x].red => nb[x] = nb[y] + 1)
      BY <1>0, <3>2, SideFacts DEF EvenAt
    <3>5. Cardinality(sub[y]) < Cardinality(sub[x])
      <4>1. D \in SUBSET D
        OBVIOUS
      <4>2. Weight(D, D, sub)[y] < Weight(D, D, sub)[x] /\ Weight(D, D, sub)[y] = Cardinality(sub[y])
            /\ Weight(D, D, sub)[x] = Cardinality(sub[x])
        <5>1. Tree(heap, D, sub) /\ heap \in Heaps(D)
          OBVIOUS
        <5>2. /\ \A z \in D : Weight(D, D, sub)[z] = Cardinality(sub[z])
              /\ \A z \in D \ {Nill}, d \in Sides : Weight(D, D, sub)[heap[z].child[d]] < Weight(D, D, sub)[z]
          BY ONLY <4>1, <5>1, WeightFacts
        <5> HIDE DEF x
        <5> QED BY ONLY <3>2, <5>2, SideFacts DEF y
      <4> QED BY ONLY <4>2
    <3>6. nb[x] \in Nat /\ nb[y] \in Nat /\ nb[n] \in Nat /\ Cardinality(sub[x]) \in Nat /\ Cardinality(sub[y]) \in Nat
      BY ONLY <1>0, <1>1, <3>2, n \in D
    <3>7. t.node = y /\ t.blacks = c
      OBVIOUS
    <3>8. t \in W
      <4> HIDE DEF y, c
      <4> QED BY ONLY <3>2, <3>3 DEF t, W
    <3> HIDE DEF t, c, y, Turn, W
    <3>9. c + nb[y] = nb[n] + 1 /\ Cardinality(sub[y]) <= b - 1
      BY ONLY <2>1, <3>3, <3>4, <3>5, <3>6, b \in Nat \ {0} DEF x
    <3> QED BY ONLY <3>1, <3>7, <3>8, <3>9 DEF G
  <2> QED BY <2>2, <2>3
<1>5. \A b : G(b) \subseteq W
  OBVIOUS
<1> HIDE DEF G, Turn, N, first, W
<1>6. next \in [W -> W] /\ first \in W
  BY <1>3, <1>5
<1>7. \A b \in Nat \ {0} : \A s \in G(b) : next[s] = Turn(s) /\ Turn(s) \in G(b - 1)
  BY <1>4, <1>5
<1> DEFINE F == [c \in 1 .. N |-> next]
<1>8. F \in [1 .. N -> [W -> W]] /\ \A c \in 1 .. N : F[c] = next
  BY <1>6
<1> HIDE DEF F, next
<1>9. PICK f \in [0 .. N -> W] : f[0] = first /\ \A c \in 1 .. N : f[c] = next[f[c - 1]]
  <2>1. Runs(W, N, F, first)
    BY <1>1, <1>6, <1>8, LoopRuns
  <2> QED BY <1>8, <2>1, Zenon DEF Runs
<1>10. \A k \in 0 .. N : f[k] \in G(N - k)
  <2> DEFINE P == {k \in 0 .. N : f[k] \in G(N - k)}
  <2>1. 0 \in P
    BY <1>1, <1>3, <1>9
  <2>2. ASSUME NEW k \in 1 .. N, k - 1 \in P PROVE k \in P
    <3>1. N - (k - 1) \in Nat \ {0} /\ (N - (k - 1)) - 1 = N - k /\ k \in 0 .. N
      BY <1>1
    <3> QED BY <1>7, <1>9, <2>2, <3>1
  <2> HIDE DEF P
  <2>3. \A k \in 0 .. N : k \in P
    BY <1>1, <2>1, <2>2, Steps, Zenon
  <2> QED BY <2>3 DEF P
<1>11. \A k \in 1 .. N : f[k] = Turn(f[k - 1])
  <2> TAKE k \in 1 .. N
  <2>1. k - 1 \in 0 .. N /\ N - (k - 1) \in Nat \ {0}
    BY <1>1
  <2> QED BY <1>7, <1>9, <1>10, <2>1
<1>12. \A k \in 0 .. N : f[k] = OneOn(f, k)
  <2> TAKE k \in 0 .. N
  <2>1. CASE k = 0
    BY <1>9, <2>1
  <2>2. CASE k # 0
    <3>1. k \in 1 .. N
      BY <1>1, <2>2
    <3> QED BY <1>11, <2>2, <3>1
  <2> QED BY <2>1, <2>2
<1>13. f = [k \in 0 .. N |-> OneOn(f, k)]
  <2> HIDE DEF OneOn
  <2> QED BY <1>12
<1>14. walk = [k \in 0 .. N |-> OneOn(walk, k)]
  <2> HIDE DEF OneOn
  <2> QED BY <1>13, Zenon
<1>15. \A k \in 0 .. N : walk[k] = OneOn(walk, k)
  <2> HIDE DEF OneOn
  <2> QED BY <1>14, Zenon
<1> HIDE DEF walk
<1>16. \A k \in 0 .. N : walk[k] = f[k]
  <2> DEFINE P == {k \in 0 .. N : walk[k] = f[k]}
  <2>1. 0 \in P
    BY <1>1, <1>9, <1>15
  <2>2. ASSUME NEW k \in 1 .. N, k - 1 \in P PROVE k \in P
    <3>1. k \in 0 .. N /\ k # 0
      BY <1>1
    <3>2. walk[k] = Turn(walk[k - 1])
      BY <1>15, <3>1
    <3>3. walk[k - 1] = f[k - 1]
      BY <2>2
    <3> QED BY <1>11, <3>1, <3>2, <3>3
  <2> HIDE DEF P
  <2>3. \A k \in 0 .. N : k \in P
    BY <1>1, <2>1, <2>2, Steps
  <2> QED BY <2>3 DEF P
<1>17. walk[N] \in G(0)
  BY <1>1, <1>10, <1>16
<1> DEFINE s == walk[N]
<1>18. s.node \in D /\ s.blacks \in Nat /\ s.blacks + nb[s.node] = nb[n] + 1 /\ Cardinality(sub[s.node]) <= 0
  BY <1>17 DEF G, W
<1> HIDE DEF s
<1>19. s.node = Nill
  <2>1. SUFFICES ASSUME s.node # Nill PROVE FALSE
    OBVIOUS
  <2>2. s.node \in sub[s.node]
    <3>1. PICK c, o : c = heap[s.node].child[LEFT] /\ o = heap[s.node].child[Other(LEFT)]
      BY Zenon
    <3> QED BY <1>18, <2>1, <3>1, SideFacts, Below
  <2>3. Cardinality(sub[s.node]) = 0
    BY ONLY <1>1, <1>18
  <2>4. IsFiniteSet(sub[s.node])
    <3>1. sub[s.node] \in SUBSET D
      BY ONLY <1>0, <1>18
    <3> QED BY ONLY <1>0, <3>1, FS_Subset
  <2> QED BY ONLY <2>2, <2>3, <2>4, FS_EmptySet
<1>20. s.blacks = nb[n]
  <2>1. nb[n] \in Nat
    BY ONLY <1>0, n \in D
  <2> QED BY ONLY <1>0, <1>18, <1>19, <2>1
<1> QED BY <1>2, <1>20 DEF s

-----------------------------------------------------------------------------
\* A tidy tree passes Verific.
LEMMA TidyVerific ==
  ASSUME TreeInv
  PROVE  Verific
<1> DEFINE D == DOMAIN heap
<1>1. heap \in Heaps(D) /\ Settled(heap, D)
  BY DEF TreeInv, Tidy
<1>2. PICK sub \in [D -> SUBSET D], nb \in [D -> Nat] : Tree(heap, D, sub) /\ Balanced(heap, D, nb)
  BY <1>1 DEF Settled
<1>3. \A x \in D, d \in Sides : heap[x].child[d] \in D
  BY <1>2 DEF Tree, Joined
<1>4. /\ \A x \in D \ {Nill} : EvenAt(heap, nb, x)
      /\ ~heap[Nill].red /\ ~heap[Root(heap)].red
      /\ \A x \in D \ {Nill}, d \in Sides : ~heap[x].red \/ ~heap[heap[x].child[d]].red
  BY <1>2 DEF Balanced, Even
<1>5. CheckBlack
  <2>1. ASSUME NEW x \in D \ {Nill}
        PROVE  Number_of_black(heap[x].child[LEFT]) = Number_of_black(heap[x].child[RIGHT])
    <3> DEFINE a == heap[x].child[LEFT]
               b == heap[x].child[RIGHT]
    <3>1. a \in D /\ b \in D
      BY <1>3, SideFacts
    <3>2. nb[a] = nb[b]
      <4>1. nb[a] \in Nat /\ nb[b] \in Nat
        BY <1>2, <3>1
      <4>2. (heap[x].red => nb[x] = nb[a] /\ nb[x] = nb[b]) /\ (~heap[x].red => nb[x] = nb[a] + 1 /\ nb[x] = nb[b] + 1)
        BY <1>4, SideFacts DEF EvenAt
      <4> HIDE DEF a, b
      <4> QED BY ONLY <4>1, <4>2
    <3> HIDE DEF a, b, D
    <3>3. Number_of_black(a) = nb[a] /\ Number_of_black(b) = nb[b]
      BY ONLY <1>1, <1>2, <3>1, BlackCounted
    <3> QED BY ONLY <3>2, <3>3 DEF a, b
  <2> QED BY <2>1 DEF CheckBlack
<1>6. SonIsBlack
  BY <1>4, SideFacts DEF SonIsBlack, Red
<1> QED BY <1>4, <1>5, <1>6 DEF Verific, Red

\* The empty tree is tidy.
LEMMA TreeStarts ==
  ASSUME TreeInit
  PROVE  TreeInv
<1> DEFINE D == {Nill}
           sub == [x \in D |-> {}]
           nb == [x \in D |-> 1]
           node == [data |-> IntMax, red |-> FALSE, parent |-> Nill, child |-> [dir \in {LEFT, RIGHT} |-> Nill]]
<1>1. heap = [n \in D |-> node]
  BY DEF TreeInit
<1>2. /\ node.data = IntMax /\ node.red = FALSE /\ \A d \in Sides : node.child[d] = Nill
  BY DEF Sides
<1>3. node \in TreeNode(D)
  <2> DEFINE c == [dir \in {LEFT, RIGHT} |-> Nill]
  <2>1. c \in [Sides -> D] /\ IntMax \in Int
    BY KeysAssumption DEF Sides
  <2> HIDE DEF c
  <2>2. [data |-> IntMax, red |-> FALSE, parent |-> Nill, child |-> c] \in TreeNode(D)
    BY <2>1 DEF TreeNode
  <2> QED BY <2>2 DEF c
<1> HIDE DEF node
<1>4. DOMAIN heap = D /\ heap \in Heaps(D) /\ heap[Nill] = node
  BY <1>1, <1>3 DEF Heaps
<1>5. Root(heap) = Nill
  BY <1>2, <1>4, SideFacts DEF Root
<1>6. sub \in [D -> SUBSET D] /\ nb \in [D -> Nat] /\ sub[Nill] = {} /\ nb[Nill] = 1 /\ \A x \in D : x = Nill
  OBVIOUS
<1>7. sub \in [D -> SUBSET (D \ {Nill})] /\ IsFiniteSet(D) /\ Null \notin D /\ D \ {Nill} = {}
  <2>1. IsFiniteSet(D)
    BY FS_Singleton, Zenon
  <2> QED BY <2>1 DEF Null, Nill
<1> HIDE DEF sub, nb
<1>8. Tree(heap, D, sub)
  <2>1. Rooted(heap, D, sub)
    BY <1>2, <1>4, <1>5, <1>6, <1>7, SideFacts DEF Rooted
  <2>2. Joined(heap, D)
    BY <1>2, <1>4, <1>6 DEF Joined
  <2>3. Parted(heap, D, sub) /\ Ordered(heap, D, sub)
    BY <1>7 DEF Parted, Ordered
  <2>4. Nested(heap, D, sub)
    BY <1>6 DEF Nested
  <2> QED BY <2>1, <2>2, <2>3, <2>4 DEF Tree
<1>9. Balanced(heap, D, nb)
  <2>1. nb \in [D -> Nat \ {0}]
    BY <1>6
  <2> QED BY <1>2, <1>4, <1>5, <1>6, <1>7, <2>1 DEF Balanced, Even
<1>10. Settled(heap, D)
  BY <1>6, <1>8, <1>9 DEF Settled
<1> QED BY <1>4, <1>7, <1>10 DEF TreeInv, Tidy

\* The invariant of the next state, unfolded.
LEMMA InvNext ==
  TreeInv' <=> Tidy(DOMAIN heap', heap')
BY DEF TreeInv, Tidy, Heaps, TreeNode, Settled, Tree, Rooted, Joined, Parted, Ordered, Nested, Beside, Balanced, Even, EvenAt, Root

\* A call keeps the tree tidy, and adds or takes the node it was asked for.
LEMMA TreeStep ==
  ASSUME TreeInv, TreeNext
  PROVE  /\ TreeInv'
         /\ \/ \E v \in Keys : asked' = <<"insert", v>> /\ DOMAIN heap' = DOMAIN heap \union {v}
            \/ \E v \in Keys : asked' = <<"remove", v>> /\ DOMAIN heap' = DOMAIN heap \ {v}
<1> DEFINE D == DOMAIN heap
<1>1. Tidy(D, heap)
  BY DEF TreeInv
<1>2. ASSUME NEW E, Tidy(E, heap') PROVE TreeInv' /\ DOMAIN heap' = E
  <2>1. DOMAIN heap' = E
    BY <1>2, HeapFacts DEF Tidy
  <2>2. TreeInv' <=> Tidy(DOMAIN heap', heap')
    BY InvNext
  <2> QED BY <1>2, <2>1, <2>2
<1>3. PICK data \in Keys : Insert(data) \/ Remove_Node(data)
  BY DEF TreeNext
<1>4. CASE Insert(data)
  <2>1. heap' = Named(Real_Insert(heap, data)) /\ asked' = <<"insert", data>>
    BY <1>4 DEF Insert
  <2>2. Tidy(D \union {data}, heap')
    BY ONLY <1>1, <1>3, <2>1, InsertKeeps
  <2> QED BY <1>2, <2>1, <2>2, Zenon
<1>5. CASE Remove_Node(data)
  <2> DEFINE n == Get_Node(heap, data)
  <2>1. asked' = <<"remove", data>> /\ (n = Null => heap' = heap) /\ (n # Null => heap' = Named(Real_Remove(heap, n)))
    BY <1>5 DEF Remove_Node
  <2>2. n = IF data \in D THEN data ELSE Null
    BY <1>1, <1>3, SearchFinds
  <2>3. data # Null /\ data # Nill
    BY <1>3, KeysAssumption DEF Null, Nill
  <2> HIDE DEF n
  <2>4. CASE data \in D
    <3>1. n = data /\ n \in D \ {Nill} /\ heap' = Named(Real_Remove(heap, n))
      BY <2>1, <2>2, <2>3, <2>4
    <3>2. Tidy(D \ {n}, heap')
      BY ONLY <1>1, <3>1, RemoveKeeps
    <3> QED BY <1>2, <1>3, <2>1, <3>1, <3>2, Zenon
  <2>5. CASE data \notin D
    <3>1. heap' = heap /\ D \ {data} = D
      BY <2>1, <2>2, <2>5
    <3>2. Tidy(D \ {data}, heap')
      BY <1>1, <3>1
    <3> QED BY <1>2, <1>3, <2>1, <3>2
  <2> QED BY <2>4, <2>5, Zenon
<1> QED BY <1>3, <1>4, <1>5, Zenon

\* Between two calls, for any finite or infinite set of keys: the nodes below
\* nill_node are a search tree, no node of the heap is cut off or met twice,
\* parents and children agree, and the colours balance it.  Insert and
\* Remove_Node (BinaryTree.cpp) keep all of it through every rotation.
THEOREM TreeInvariance == TreeSpec => []TreeInv
<1>1. TreeInit => TreeInv
  BY TreeStarts
<1>2. TreeInv /\ [TreeNext]_treeVars => TreeInv'
  <2>1. ASSUME TreeInv, TreeNext PROVE TreeInv'
    BY <2>1, TreeStep
  <2>2. ASSUME TreeInv, UNCHANGED treeVars PROVE TreeInv'
    <3>1. heap' = heap
      BY <2>2 DEF treeVars
    <3>2. TreeInv' <=> Tidy(DOMAIN heap', heap')
      BY InvNext
    <3> QED BY ONLY <2>2, <3>1, <3>2 DEF TreeInv
  <2> QED BY <2>1, <2>2
<1> QED BY <1>1, <1>2, PTL DEF TreeSpec

\* After any sequence of insertions and removals Verific (WndProc.cpp) throws
\* nothing: as many black nodes on every path, no red child of a red node, a
\* black root and a black nill_node.
THEOREM VerificAlways == TreeSpec => []Verific
BY TreeInvariance, TidyVerific, PTL

\* A step adds to what is found what was inserted, and takes from it what was removed.
TreeStepIsSet ==
  /\ asked'[1] = "insert" => Found' = Found \union {asked'[2]}
  /\ asked'[1] = "remove" => Found' = Found \ {asked'[2]}
  /\ DOMAIN heap' = Found' \union {Nill}

\* What is found is what has a node.
FoundInv == Found = DOMAIN heap \ {Nill} /\ Nill \in DOMAIN heap

\* So it is after every call.
LEMMA FoundAlways == TreeSpec => []FoundInv
<1>1. TreeInv => FoundInv
  BY FoundIs DEF FoundInv
<1> QED BY <1>1, TreeInvariance, PTL

\* The tree is the set of what was inserted and not removed: Insert adds its
\* data and Remove_Node takes its data out of what a search finds, and no other,
\* although a node with two children goes by taking its successor over.
THEOREM TreeAlwaysSet == TreeSpec => TreeIsSet
<1>1. ASSUME TreeInv, FoundInv, FoundInv', TreeNext PROVE TreeStepIsSet
  <2>1. Found = DOMAIN heap \ {Nill} /\ Nill \in DOMAIN heap /\ Found' = DOMAIN heap' \ {Nill} /\ Nill \in DOMAIN heap'
    BY <1>1 DEF FoundInv
  <2>2. \/ \E v \in Keys : asked' = <<"insert", v>> /\ DOMAIN heap' = DOMAIN heap \union {v}
        \/ \E v \in Keys : asked' = <<"remove", v>> /\ DOMAIN heap' = DOMAIN heap \ {v}
    BY <1>1, TreeStep, Zenon
  <2>3. DOMAIN heap' = Found' \union {Nill}
    BY ONLY <2>1
  <2>4. ASSUME NEW v \in Keys, asked' = <<"insert", v>>, DOMAIN heap' = DOMAIN heap \union {v}
        PROVE  TreeStepIsSet
    <3>1. asked'[1] = "insert" /\ asked'[1] # "remove" /\ asked'[2] = v /\ v # Nill
      BY <2>4, KeysAssumption DEF Nill
    <3>2. Found' = Found \union {v}
      BY ONLY <2>1, <2>4, <3>1
    <3> QED BY ONLY <2>3, <3>1, <3>2 DEF TreeStepIsSet
  <2>5. ASSUME NEW v \in Keys, asked' = <<"remove", v>>, DOMAIN heap' = DOMAIN heap \ {v}
        PROVE  TreeStepIsSet
    <3>1. asked'[1] = "remove" /\ asked'[1] # "insert" /\ asked'[2] = v
      BY <2>5
    <3>2. Found' = Found \ {v}
      BY ONLY <2>1, <2>5
    <3> QED BY ONLY <2>3, <3>1, <3>2 DEF TreeStepIsSet
  <2> QED BY <2>2, <2>4, <2>5, Zenon
<1>2. TreeInv /\ FoundInv /\ FoundInv' /\ [TreeNext]_treeVars => [TreeStepIsSet]_treeVars
  BY <1>1
<1>3. TreeSpec => [][TreeStepIsSet]_treeVars
  BY <1>2, TreeInvariance, FoundAlways, PTL DEF TreeSpec
<1> QED BY <1>3 DEF TreeIsSet, TreeStepIsSet
=============================================================================
