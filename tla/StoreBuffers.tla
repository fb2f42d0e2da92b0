---------------------------- MODULE StoreBuffers ----------------------------
(***************************************************************************)
(* The memory the lock exercises of 22.10.12 and 22.10.19 run on: x64, so  *)
(* a plain store waits in its thread's store buffer, in order, until it    *)
(* drains to memory, a load sees the thread's own latest buffered store    *)
(* first, and a fence or an Interlocked call waits until the buffer is     *)
(* empty.  External: none of this is in the sources.                       *)
(***************************************************************************)
EXTENDS Integers, Sequences

CONSTANT Buffered   \* FALSE: stores go straight to memory

ASSUME BufferedAssumption == Buffered \in BOOLEAN

VARIABLES mem,   \* memory: the value of every shared variable
          buf    \* the store buffer of every thread: <<variable, value>>s

Store(t, x, v) ==
  IF Buffered
    THEN buf' = [buf EXCEPT ![t] = Append(@, <<x, v>>)] /\ UNCHANGED mem
    ELSE mem' = [mem EXCEPT ![x] = v] /\ UNCHANGED buf

Load(t, x) ==
  LET own == {i \in DOMAIN buf[t] : buf[t][i][1] = x}
  IN  IF own = {}
        THEN mem[x]
        ELSE buf[t][CHOOSE i \in own : \A j \in own : j <= i][2]

Flushed(t) == buf[t] = <<>>

\* The oldest buffered store of t reaches memory.
Drain(t) ==
  /\ buf[t] # <<>>
  /\ mem' = [mem EXCEPT ![Head(buf[t])[1]] = Head(buf[t])[2]]
  /\ buf' = [buf EXCEPT ![t] = Tail(@)]

=============================================================================
