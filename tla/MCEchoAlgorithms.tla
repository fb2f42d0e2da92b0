--------------------------- MODULE MCEchoAlgorithms ---------------------------
(* The IOCP echo server, the spinlock, the red-black tree and the two path   *)
(* searches share nothing.  One run explores the four one after the other:   *)
(* subject says which, and the variables of the others keep one initial      *)
(* value.                                                                    *)
EXTENDS IocpEcho, Spinlock, RedBlackTree, AStar, JumpPoint

CONSTANTS t1, t2, t3  \* Threads; the first two are Workers

VARIABLE subject

MCStarts == {<<1, 1>>, <<3, 2>>}

allVars == <<subject, echoVars, vars, treeVars, gridVars>>

\* The search that stands still while another subject is explored.
AtRest ==
  /\ program = "JPS" /\ start_point = <<1, 1>> /\ end_point = <<0, 0>>
  /\ obstacles = {}

MCInit ==
  /\ EchoInit /\ Init /\ TreeInit /\ GridInit
  /\ subject \in {"echo", "lock", "tree", "search"}
  /\ subject # "search" => AtRest

Echo(A) ==
  /\ subject = "echo" /\ ~thrown /\ A
  /\ UNCHANGED <<subject, vars, treeVars, gridVars>>
Lock(A) ==
  subject = "lock" /\ A /\ UNCHANGED <<subject, echoVars, treeVars, gridVars>>

MCNext ==
  /\ UNCHANGED subject
  /\ \/ /\ subject = "echo" /\ EchoNext
        /\ UNCHANGED <<vars, treeVars, gridVars>>
     \/ /\ subject = "lock" /\ Next
        /\ UNCHANGED <<echoVars, treeVars, gridVars>>
     \/ /\ subject = "tree" /\ TreeNext
        /\ UNCHANGED <<echoVars, vars, gridVars>>
     \/ /\ subject = "search" /\ (A_star \/ JPS)
        /\ UNCHANGED <<echoVars, vars, treeVars>>

\* The fairness of EchoFairSpec and of Spinlock's FairSpec: subject never
\* changes, so that a condition on one subject and one on the other can share
\* a conjunct.
MCSpec ==
  /\ MCInit /\ [][MCNext]_allVars
  /\ WF_allVars(Echo(AcceptStep) \/ Lock(DrainStep(t1)))
  /\ WF_allVars(Echo(RecvCompletes) \/ Lock(DrainStep(t2)))
  /\ WF_allVars(Echo(SendCompletes) \/ Lock(DrainStep(t3)))
  /\ WF_allVars(Echo(WorkerStep(t1)) \/ Lock(Step(t1)))
  /\ WF_allVars(Echo(WorkerStep(t2)) \/ Lock(Step(t2)))
  /\ WF_allVars(Lock(Step(t3)))

\* Where the lock's threads run, each of them leaves its loop in the end and
\* its stores drain.
LockTerminates == subject = "lock" => Terminates
=============================================================================
