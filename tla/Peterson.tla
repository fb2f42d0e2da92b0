------------------------------ MODULE Peterson ------------------------------
(***************************************************************************)
(* Peterson's lock around cnt++, by two threads: without a fence           *)
(* ("22.10.12 - Spinlock/02 DontUseInterlocked.cpp") and with one between  *)
(* the store of flag and the store of turn ("22.10.19 - 피터슨 알고리즘    *)
(* 버그 찾기/소스.cpp").  f is thread 0 and f2 thread 1.                   *)
(***************************************************************************)
EXTENDS StoreBuffers

CONSTANTS Fence,     \* TRUE: atomic_thread_fence(memory_order_seq_cst)
          MaxRounds  \* bound: iterations of the for loop, 1000000 in the code

VARIABLES pc,       \* the statement each thread is at
          reg,      \* what each thread loaded of cnt
          rounds    \* iterations each thread has begun

vars == <<mem, buf, pc, reg, rounds>>

Threads == {0, 1}
Other(t) == 1 - t
Flag(t) == IF t = 0 THEN "flag0" ELSE "flag1"

Init ==
  /\ mem = [x \in {"flag0", "flag1", "turn", "cnt"} |->
              CASE x \in {"flag0", "flag1"} -> FALSE
                [] x = "turn" -> 2
                [] x = "cnt" -> 0]
  /\ buf = [t \in Threads |-> <<>>]
  /\ pc = [t \in Threads |-> "loop"]
  /\ reg = [t \in Threads |-> 0]
  /\ rounds = [t \in Threads |-> 0]

Goto(t, from, to) ==
  /\ pc[t] = from
  /\ pc' = [pc EXCEPT ![t] = to]

\* flag[t] = true
SetFlag(t) ==
  /\ Goto(t, "loop", "fence")
  /\ rounds[t] < MaxRounds
  /\ rounds' = [rounds EXCEPT ![t] = @ + 1]
  /\ Store(t, Flag(t), TRUE)
  /\ UNCHANGED reg

Leave(t) ==
  /\ Goto(t, "loop", "end")
  /\ rounds[t] = MaxRounds
  /\ UNCHANGED <<mem, buf, reg, rounds>>

ThreadFence(t) ==
  /\ Goto(t, "fence", "turn")
  /\ Fence => Flushed(t)
  /\ UNCHANGED <<mem, buf, reg, rounds>>

\* turn = the other one
SetTurn(t) ==
  /\ Goto(t, "turn", "testFlag")
  /\ Store(t, "turn", Other(t))
  /\ UNCHANGED <<reg, rounds>>

\* while (flag[other] && turn == other);
TestFlag(t) ==
  /\ Goto(t, "testFlag", IF Load(t, Flag(Other(t))) THEN "testTurn" ELSE "load")
  /\ UNCHANGED <<mem, buf, reg, rounds>>

TestTurn(t) ==
  /\ Goto(t, "testTurn", IF Load(t, "turn") = Other(t) THEN "testFlag" ELSE "load")
  /\ UNCHANGED <<mem, buf, reg, rounds>>

\* cnt++: a load and a store
LoadCnt(t) ==
  /\ Goto(t, "load", "store")
  /\ reg' = [reg EXCEPT ![t] = Load(t, "cnt")]
  /\ UNCHANGED <<mem, buf, rounds>>

StoreCnt(t) ==
  /\ Goto(t, "store", "unset")
  /\ Store(t, "cnt", reg[t] + 1)
  /\ reg' = [reg EXCEPT ![t] = 0]
  /\ UNCHANGED rounds

\* flag[t] = false
ClearFlag(t) ==
  /\ Goto(t, "unset", "loop")
  /\ Store(t, Flag(t), FALSE)
  /\ UNCHANGED <<reg, rounds>>

DrainStep(t) == Drain(t) /\ UNCHANGED <<pc, reg, rounds>>

Step(t) ==
  \/ SetFlag(t)
  \/ Leave(t)
  \/ ThreadFence(t)
  \/ SetTurn(t)
  \/ TestFlag(t)
  \/ TestTurn(t)
  \/ LoadCnt(t)
  \/ StoreCnt(t)
  \/ ClearFlag(t)

\* Both threads have ended and main prints cnt.
Ended ==
  /\ \A t \in Threads : pc[t] = "end" /\ Flushed(t)
  /\ UNCHANGED vars

Next ==
  \/ \E t \in Threads : Step(t) \/ DrainStep(t)
  \/ Ended

Spec == Init /\ [][Next]_vars

-----------------------------------------------------------------------------
\* What main prints is the number of iterations of both threads: no cnt++ is
\* lost.
CountExact ==
  (\A t \in Threads : pc[t] = "end" /\ Flushed(t)) =>
    mem["cnt"] = 2 * MaxRounds

=============================================================================
