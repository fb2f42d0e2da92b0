------------------------------ MODULE Spinlock ------------------------------
(***************************************************************************)
(* "22.10.12 - Spinlock/01 UseInterlocked.cpp": JLock spins on             *)
(* InterlockedExchange(&lock, 1), JUnlock is the plain store lock = 0, and *)
(* each thread does MaxRounds times JLock, cnt++, JUnlock.                 *)
(***************************************************************************)
EXTENDS StoreBuffers, FiniteSets

CONSTANTS Threads,
          MaxRounds  \* bound: iterations of the for loop, 1000000 in the code

ASSUME SpinlockAssumption == MaxRounds \in Nat /\ IsFiniteSet(Threads)

VARIABLES pc,       \* the statement each thread is at
          reg,      \* what each thread loaded of cnt
          rounds    \* iterations each thread has finished

vars == <<mem, buf, pc, reg, rounds>>

Init ==
  /\ mem = [x \in {"lock", "cnt"} |-> 0]
  /\ buf = [t \in Threads |-> <<>>]
  /\ pc = [t \in Threads |-> "lock"]
  /\ reg = [t \in Threads |-> 0]
  /\ rounds = [t \in Threads |-> 0]

Goto(t, from, to) ==
  /\ pc[t] = from
  /\ pc' = [pc EXCEPT ![t] = to]

\* Mutant: the exchange does not look at what it read.
AcquireBlindly(t) ==
  /\ Goto(t, "lock", "load")
  /\ rounds[t] < MaxRounds
  /\ Flushed(t)
  /\ mem' = [mem EXCEPT !["lock"] = 1]
  /\ UNCHANGED <<buf, reg, rounds>>

\* JLock: InterlockedExchange drains the buffer, then reads 0 and writes 1 in
\* one step.
Acquire(t) ==
  /\ Goto(t, "lock", "load")
  /\ rounds[t] < MaxRounds
  /\ Flushed(t)
  /\ mem["lock"] = 0
  /\ mem' = [mem EXCEPT !["lock"] = 1]
  /\ UNCHANGED <<buf, reg, rounds>>

\* JLock: the exchange returns 1, writes 1, and the loop goes on.
Spin(t) ==
  /\ pc[t] = "lock"
  /\ rounds[t] < MaxRounds
  /\ Flushed(t)
  /\ mem["lock"] = 1
  /\ UNCHANGED vars

\* cnt++: a load and a store
LoadCnt(t) ==
  /\ Goto(t, "load", "store")
  /\ reg' = [reg EXCEPT ![t] = Load(t, "cnt")]
  /\ UNCHANGED <<mem, buf, rounds>>

StoreCnt(t) ==
  /\ Goto(t, "store", "unlock")
  /\ Store(t, "cnt", reg[t] + 1)
  /\ UNCHANGED <<reg, rounds>>

\* Mutant: the lock is not given back.
UnlockForgotten(t) ==
  /\ Goto(t, "unlock", "lock")
  /\ rounds' = [rounds EXCEPT ![t] = @ + 1]
  /\ UNCHANGED <<mem, buf, reg>>

\* JUnlock: lock = 0
Unlock(t) ==
  /\ Goto(t, "unlock", "lock")
  /\ Store(t, "lock", 0)
  /\ rounds' = [rounds EXCEPT ![t] = @ + 1]
  /\ UNCHANGED reg

DrainStep(t) == Drain(t) /\ UNCHANGED <<pc, reg, rounds>>

Step(t) ==
  \/ Acquire(t)
  \/ Spin(t)
  \/ LoadCnt(t)
  \/ StoreCnt(t)
  \/ Unlock(t)

Done(t) == pc[t] = "lock" /\ rounds[t] = MaxRounds

\* Every thread has left its loop and main prints cnt.
Ended ==
  /\ \A t \in Threads : Done(t) /\ Flushed(t)
  /\ UNCHANGED vars

Next ==
  \/ \E t \in Threads : Step(t) \/ DrainStep(t)
  \/ Ended

Spec == Init /\ [][Next]_vars

\* Every thread is scheduled and store buffers drain.
FairSpec == Spec /\ \A t \in Threads : WF_vars(Step(t)) /\ WF_vars(DrainStep(t))

-----------------------------------------------------------------------------
Inside(t) == pc[t] \in {"load", "store", "unlock"}

\* What can be in a store buffer.
Stores == {"lock", "cnt"} \X Nat

TypeOK ==
  /\ mem \in [{"lock", "cnt"} -> Nat]
  /\ buf \in [Threads -> Seq(Stores)]
  /\ pc \in [Threads -> {"lock", "load", "store", "unlock"}]
  /\ reg \in [Threads -> Nat]
  /\ rounds \in [Threads -> Nat]

\* The lock is held from a thread's exchange until its store of 0 has
\* reached memory.
Holds(t) == Inside(t) \/ buf[t] # <<>>

\* One thread at a time is between JLock and the end of JUnlock, its buffered
\* stores included: lock = 0 does not overtake cnt.
MutualExclusion == \A t, u \in Threads : Holds(t) /\ Holds(u) => t = u

\* No cnt++ is lost: main prints the rounds of all threads.
CountExact ==
  (\A t \in Threads : Done(t) /\ Flushed(t)) =>
    mem["cnt"] = Cardinality(Threads) * MaxRounds

\* Every thread comes out of its loop: the lock is never left held, and who
\* keeps losing the exchange is alone in the end.
Terminates == \A t \in Threads : <>(Done(t) /\ Flushed(t))

-----------------------------------------------------------------------------
(* The strengthening that makes MutualExclusion inductive. *)

\* The stores a thread may have buffered at each statement.
BuffersOK ==
  \A t \in Threads :
    /\ ~Buffered => buf[t] = <<>>
    /\ pc[t] \in {"load", "store"} => buf[t] = <<>>
    /\ pc[t] = "unlock" => buf[t] = <<>> \/ \E n \in Nat : buf[t] = <<<<"cnt", n>>>>
    /\ pc[t] = "lock" =>
         \/ buf[t] = <<>>
         \/ buf[t] = <<<<"lock", 0>>>>
         \/ \E n \in Nat : buf[t] = <<<<"cnt", n>>, <<"lock", 0>>>>

\* The word is 1 as long as somebody holds the lock.
LockWord == \A t \in Threads : Holds(t) => mem["lock"] = 1

IInv == TypeOK /\ BuffersOK /\ LockWord /\ MutualExclusion

=============================================================================
