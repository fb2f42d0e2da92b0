---------------------------- MODULE AtomicStack ----------------------------
(***************************************************************************)
(* What LockFreeStack promises its callers: a linearizable LIFO stack.     *)
(* Each call takes effect in one atomic step between its invocation and    *)
(* its return; Pop answers "empty" only when the stack is empty at that    *)
(* step.                                                                   *)
(*                                                                         *)
(* This is the interface of class LockFreeStack: void Push(T) and          *)
(* bool Pop, seen from its callers.                                       *)
(***************************************************************************)
EXTENDS Sequences, Naturals

CONSTANTS Threads,   \* the threads calling Push and Pop
          Values,    \* the data they push
          NoValue    \* no datum: Pop's answer when the stack is empty

VARIABLES stack,     \* the data on the stack, the top last
          call       \* what each thread is doing: [kind, val]

vars == <<stack, call>>

Kinds == {"idle", "pushing", "pushed", "popping", "popped"}

Call(kind, val) == [kind |-> kind, val |-> val]

Init ==
  /\ stack = <<>>
  /\ call = [t \in Threads |-> Call("idle", NoValue)]

InvokePush(t, v) ==
  /\ call[t].kind = "idle"
  /\ call' = [call EXCEPT ![t] = Call("pushing", v)]
  /\ UNCHANGED stack

InvokePop(t) ==
  /\ call[t].kind = "idle"
  /\ call' = [call EXCEPT ![t] = Call("popping", NoValue)]
  /\ UNCHANGED stack

\* The push takes effect.
DoPush(t) ==
  /\ call[t].kind = "pushing"
  /\ stack' = Append(stack, call[t].val)
  /\ call' = [call EXCEPT ![t] = Call("pushed", NoValue)]

\* The pop takes effect: the caller gets the datum pushed last.
DoPop(t) ==
  /\ call[t].kind = "popping"
  /\ stack # <<>>
  /\ stack' = SubSeq(stack, 1, Len(stack) - 1)
  /\ call' = [call EXCEPT ![t] = Call("popped", stack[Len(stack)])]

\* Pop returns false: only at an instant when nothing is on the stack.
PopEmpty(t) ==
  /\ call[t].kind = "popping"
  /\ stack = <<>>
  /\ call' = [call EXCEPT ![t] = Call("idle", NoValue)]
  /\ UNCHANGED stack

Return(t) ==
  /\ call[t].kind \in {"pushed", "popped"}
  /\ call' = [call EXCEPT ![t] = Call("idle", NoValue)]
  /\ UNCHANGED stack

Next ==
  \E t \in Threads :
    \/ \E v \in Values : InvokePush(t, v)
    \/ InvokePop(t)
    \/ DoPush(t)
    \/ DoPop(t)
    \/ PopEmpty(t)
    \/ Return(t)

Spec == Init /\ [][Next]_vars

=============================================================================
