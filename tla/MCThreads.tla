------------------------------- MODULE MCThreads -------------------------------
(* Thread_Debug and the APC echo server are each threads that wake each      *)
(* other by events, and share nothing.  One run explores both, one after the *)
(* other: subject says which, and the variables of the other keep their      *)
(* initial values.                                                           *)
EXTENDS ThreadDebug, ApcEcho

VARIABLE subject

MCMaxSent == <<2, 0>>

allVars == <<subject, vars, apcVars>>

MCInit == Init /\ ApcInit /\ subject \in {"debug", "apc"}

Debug(A) == subject = "debug" /\ A /\ UNCHANGED <<subject, apcVars>>
Apc(A) ==
  subject = "apc" /\ recving # "crashed" /\ A /\ UNCHANGED <<subject, vars>>

MCNext ==
  /\ UNCHANGED subject
  /\ \/ subject = "debug" /\ Next /\ UNCHANGED apcVars
     \/ subject = "apc" /\ ApcNext /\ UNCHANGED vars

\* The fairness of FairSpec and of ApcFairSpec: subject never changes, so that
\* a condition on one subject and one on the other can share a conjunct.
MCSpec ==
  /\ MCInit /\ [][MCNext]_allVars
  /\ WF_allVars(Debug(IOThread) \/ Apc(AcceptProc))
  /\ WF_allVars(Debug(AcceptThread) \/ Apc(RecvProc))
  /\ WF_allVars(Debug(UpdateThread) \/ Apc(Completes))
  /\ WF_allVars(Debug(Release))
=============================================================================
