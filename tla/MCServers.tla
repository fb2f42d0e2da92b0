------------------------------ MODULE MCServers ------------------------------
(* The chat server and the session table of the network library share        *)
(* nothing.  One run explores both, one after the other: subject says which, *)
(* and the variables of the other keep their initial values.                 *)
EXTENDS ChatServer, SessionTable

VARIABLE subject

MCInit == ChatInit /\ Init /\ subject \in {"chat", "table"}

\* The table's properties speak of what comes before the first race: TLC need
\* not follow a behaviour beyond it.
BeforeRaces == races = {}

MCNext ==
  /\ UNCHANGED subject
  /\ \/ subject = "chat" /\ ChatNext /\ UNCHANGED vars
     \/ subject = "table" /\ Next /\ UNCHANGED chatVars

MCSpec == MCInit /\ [][MCNext]_<<subject, chatVars, vars>>
=============================================================================
