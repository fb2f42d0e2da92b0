---------------------------- MODULE ThreadDebug ----------------------------
(***************************************************************************)
(* "22.10.24 - Thread_Debug/Thread_Debug.cpp": IOThread makes accept,      *)
(* disconnect and action packets, AcceptThread keeps g_SessionList and     *)
(* g_PlayerList, UpdateThread serves the players, and 'q' ends them all.   *)
(* Three packet lists, two object lists, five critical sections, two       *)
(* auto-reset events and a manual-reset one.                               *)
(*                                                                         *)
(* A critical section whose inside nobody else can see is one action, that *)
(* waits until nobody is in it.  push_back is two, for AcceptThread and    *)
(* UpdateThread call empty() and begin() outside: std::list counts the     *)
(* node first and links it then.                                           *)
(***************************************************************************)
EXTENDS Integers, Sequences, FiniteSets, SequencesExt

CONSTANTS Ids,        \* the session IDs IOThread draws
          Garbage,    \* what the end node of a list may hold, besides an ID
          Nobody,
          MaxPackets  \* bound: packets IOThread makes

Threads == {"main", "Accept", "IO", "Update"}

ASSUME DebugAssumption ==
  /\ Garbage \notin Ids
  /\ Nobody \notin Ids \union {Garbage} \union Threads
  /\ MaxPackets \in Nat

Packets == {"Accept", "Disconnect", "Action"}
Locks == Packets \union {"Session", "Player"}

VARIABLES
  size, list,     \* the packet lists: their counts and their linked nodes
  cs,             \* who is in each critical section
  exitEvent, acceptEvent, updateEvent,
  g_SessionList,  \* the SessionIDs, in order
  g_PlayerList,   \* the players, in order: [SessionID, Content]
  pc,             \* the statement each thread is at
  dwSessionID,    \* the packet each thread is at work on
  kind,           \* its list: of AcceptThread and of IOThread
  made            \* how many packets IOThread has made

events == <<exitEvent, acceptEvent, updateEvent>>
packets == <<size, list>>
objects == <<g_SessionList, g_PlayerList>>
locals == <<dwSessionID, kind>>
vars == <<packets, cs, events, objects, pc, locals, made>>

Init ==
  /\ size = [q \in Packets |-> 0] /\ list = [q \in Packets |-> <<>>]
  /\ cs = [c \in Locks |-> Nobody]
  /\ exitEvent = FALSE /\ acceptEvent = FALSE /\ updateEvent = FALSE
  /\ g_SessionList = <<>> /\ g_PlayerList = <<>>
  /\ pc = [t \in Threads |-> IF t = "main" THEN "getwch" ELSE "wait"]
  /\ dwSessionID = [t \in Threads |-> Nobody]
  /\ kind = [t \in Threads |-> "Accept"]
  /\ made = 0

Goto(t, from, to) == pc[t] = from /\ pc' = [pc EXCEPT ![t] = to]

\* Enter and leave at once.
Through(c) == cs[c] = Nobody /\ UNCHANGED cs
Enter(t, c) == cs[c] = Nobody /\ cs' = [cs EXCEPT ![c] = t]
Leave(c) == cs' = [cs EXCEPT ![c] = Nobody]

PopFront(q) ==
  /\ size' = [size EXCEPT ![q] = @ - 1]
  /\ list' = [list EXCEPT ![q] = Tail(@)]

\* Whatever list::begin() gives, dereferenced: the end node when none is
\* linked.
Begin(q) == IF list[q] = <<>> THEN Ids \union {Garbage} ELSE {Head(list[q])}

-----------------------------------------------------------------------------
(* IOThread *)

\* The wait for g_hExitThreadEvent times out; rand() chooses.
IoMake(q, id) ==
  /\ ~exitEvent /\ made < MaxPackets
  /\ Goto("IO", "wait", "push")
  /\ kind' = [kind EXCEPT !["IO"] = q]
  /\ dwSessionID' = [dwSessionID EXCEPT !["IO"] = id]
  /\ made' = made + 1
  /\ UNCHANGED <<packets, cs, events, objects>>

IoCount ==
  LET q == kind["IO"] IN
  /\ Goto("IO", "push", "link") /\ Enter("IO", q)
  /\ size' = [size EXCEPT ![q] = @ + 1]
  /\ UNCHANGED <<list, events, objects, locals, made>>

IoLink ==
  LET q == kind["IO"] IN
  /\ Goto("IO", "link", "signal") /\ Leave(q)
  /\ list' = [list EXCEPT ![q] = Append(@, dwSessionID["IO"])]
  /\ UNCHANGED <<size, events, objects, locals, made>>

IoSignal ==
  /\ Goto("IO", "signal", "wait")
  /\ acceptEvent' = (acceptEvent \/ kind["IO"] # "Action")
  /\ updateEvent' = (updateEvent \/ kind["IO"] = "Action")
  /\ UNCHANGED <<packets, cs, exitEvent, objects, locals, made>>

IoExits ==
  /\ exitEvent /\ Goto("IO", "wait", "ended")
  /\ UNCHANGED <<packets, cs, events, objects, locals, made>>

IOThread ==
  \/ \E q \in Packets, id \in Ids : IoMake(q, id)
  \/ IoCount \/ IoLink \/ IoSignal \/ IoExits

-----------------------------------------------------------------------------
(* AcceptThread *)

AcceptWakes ==
  /\ ~exitEvent /\ acceptEvent
  /\ Goto("Accept", "wait", "accepts")
  /\ acceptEvent' = FALSE
  /\ UNCHANGED <<packets, cs, exitEvent, updateEvent, objects, locals, made>>

\* Mutant: g_hExitThreadEvent is auto-reset, as it was.
AcceptExitsAlone ==
  /\ exitEvent /\ Goto("Accept", "wait", "ended")
  /\ exitEvent' = FALSE
  /\ UNCHANGED <<packets, cs, acceptEvent, updateEvent, objects, locals, made>>

\* The exit event comes first in hEvent, and stays set.
AcceptExits ==
  /\ exitEvent /\ Goto("Accept", "wait", "ended")
  /\ UNCHANGED <<packets, cs, events, objects, locals, made>>

NoMoreAccepts ==
  /\ size["Accept"] = 0 /\ Goto("Accept", "accepts", "disconnects")
  /\ UNCHANGED <<packets, cs, events, objects, locals, made>>

SomeAccept ==
  /\ size["Accept"] > 0 /\ Goto("Accept", "accepts", "peek")
  /\ kind' = [kind EXCEPT !["Accept"] = "Accept"]
  /\ UNCHANGED <<packets, cs, events, objects, dwSessionID, made>>

\* *begin() comes before LockAccept.
PeekAccept ==
  /\ Goto("Accept", "peek", "pop")
  /\ \E id \in Begin("Accept") :
       dwSessionID' = [dwSessionID EXCEPT !["Accept"] = id]
  /\ UNCHANGED <<packets, cs, events, objects, kind, made>>

PopAccept ==
  /\ Goto("Accept", "pop", "find") /\ Through("Accept")
  /\ PopFront("Accept")
  /\ UNCHANGED <<events, objects, locals, made>>

NoMoreDisconnects ==
  /\ size["Disconnect"] = 0 /\ Goto("Accept", "disconnects", "wait")
  /\ UNCHANGED <<packets, cs, events, objects, locals, made>>

SomeDisconnect ==
  /\ size["Disconnect"] > 0 /\ Goto("Accept", "disconnects", "take")
  /\ kind' = [kind EXCEPT !["Accept"] = "Disconnect"]
  /\ UNCHANGED <<packets, cs, events, objects, dwSessionID, made>>

PopDisconnect ==
  /\ Goto("Accept", "take", "find") /\ Through("Disconnect")
  /\ dwSessionID' = [dwSessionID EXCEPT !["Accept"] = Head(list["Disconnect"])]
  /\ PopFront("Disconnect")
  /\ UNCHANGED <<events, objects, kind, made>>

\* Mutant: if for while.
ResumeOnce(q) == IF q = "Accept" THEN "disconnects" ELSE "wait"

\* The while loop a packet was taken in.
Resume(q) == IF q = "Accept" THEN "accepts" ELSE "disconnects"

\* Mutant: who has a session is registered again.
FindAnew ==
  /\ Goto("Accept", "find", IF kind["Accept"] = "Accept" THEN "newSession"
                                                         ELSE "deleteSession")
  /\ Through("Session")
  /\ UNCHANGED <<packets, events, objects, locals, made>>

\* FindSessionList: only the new are registered, only the known deleted.
FindSessionList ==
  LET found == dwSessionID["Accept"] \in ToSet(g_SessionList)
      q == kind["Accept"]
  IN  /\ Goto("Accept", "find",
              CASE q = "Accept" /\ ~found -> "newSession"
                [] q = "Disconnect" /\ found -> "deleteSession"
                [] OTHER -> Resume(q))
      /\ Through("Session")
      /\ UNCHANGED <<packets, events, objects, locals, made>>

NewSession ==
  /\ Goto("Accept", "newSession", "newPlayer") /\ Through("Session")
  /\ g_SessionList' = Append(g_SessionList, dwSessionID["Accept"])
  /\ UNCHANGED <<packets, events, g_PlayerList, locals, made>>

NewPlayer ==
  /\ Goto("Accept", "newPlayer", Resume("Accept")) /\ Through("Player")
  /\ g_PlayerList' = Append(g_PlayerList,
       [SessionID |-> dwSessionID["Accept"], Content |-> 0])
  /\ UNCHANGED <<packets, events, g_SessionList, locals, made>>

DeleteSession ==
  /\ Goto("Accept", "deleteSession", "deletePlayer") /\ Through("Session")
  /\ g_SessionList' = RemoveFirst(g_SessionList, dwSessionID["Accept"])
  /\ UNCHANGED <<packets, events, g_PlayerList, locals, made>>

DeletePlayer ==
  /\ Goto("Accept", "deletePlayer", Resume("Disconnect")) /\ Through("Player")
  /\ g_PlayerList' = RemoveFirstMatch(g_PlayerList,
       LAMBDA p : p.SessionID = dwSessionID["Accept"])
  /\ UNCHANGED <<packets, events, g_SessionList, locals, made>>

AcceptThread ==
  \/ AcceptWakes \/ AcceptExits
  \/ NoMoreAccepts \/ SomeAccept \/ PeekAccept \/ PopAccept
  \/ NoMoreDisconnects \/ SomeDisconnect \/ PopDisconnect
  \/ FindSessionList
  \/ NewSession \/ NewPlayer \/ DeleteSession \/ DeletePlayer

-----------------------------------------------------------------------------
(* UpdateThread *)

UpdateWakes ==
  /\ ~exitEvent /\ updateEvent
  /\ Goto("Update", "wait", "actions")
  /\ updateEvent' = FALSE
  /\ UNCHANGED <<packets, cs, exitEvent, acceptEvent, objects, locals, made>>

UpdateExits ==
  /\ exitEvent /\ Goto("Update", "wait", "ended")
  /\ UNCHANGED <<packets, cs, events, objects, locals, made>>

NoMoreActions ==
  /\ size["Action"] = 0 /\ Goto("Update", "actions", "wait")
  /\ UNCHANGED <<packets, cs, events, objects, locals, made>>

SomeAction ==
  /\ size["Action"] > 0 /\ Goto("Update", "actions", "take")
  /\ UNCHANGED <<packets, cs, events, objects, locals, made>>

PopAction ==
  /\ Goto("Update", "take", "act") /\ Enter("Update", "Action")
  /\ dwSessionID' = [dwSessionID EXCEPT !["Update"] = Head(list["Action"])]
  /\ PopFront("Action")
  /\ UNCHANGED <<events, objects, kind, made>>

\* LockPlayer inside LockAction; both are left.
Act ==
  /\ Goto("Update", "act", "actions")
  /\ cs["Player"] = Nobody /\ Leave("Action")
  /\ LET i == SelectInSeq(g_PlayerList,
                LAMBDA p : p.SessionID = dwSessionID["Update"])
     IN  g_PlayerList' = IF i = 0 THEN g_PlayerList
                         ELSE [g_PlayerList EXCEPT ![i].Content = @ + 1]
  /\ UNCHANGED <<packets, events, g_SessionList, locals, made>>

UpdateThread ==
  UpdateWakes \/ UpdateExits \/ NoMoreActions \/ SomeAction \/ PopAction \/ Act

-----------------------------------------------------------------------------
(* main *)

Quit ==
  /\ Goto("main", "getwch", "join")
  /\ exitEvent' = TRUE
  /\ UNCHANGED <<packets, cs, acceptEvent, updateEvent, objects, locals, made>>

\* The three handles are signalled.
Release ==
  /\ \A t \in Threads \ {"main"} : pc[t] = "ended"
  /\ Goto("main", "join", "ended")
  /\ size' = [q \in Packets |-> 0] /\ list' = [q \in Packets |-> <<>>]
  /\ g_SessionList' = <<>> /\ g_PlayerList' = <<>>
  /\ UNCHANGED <<cs, events, locals, made>>

Next == IOThread \/ AcceptThread \/ UpdateThread \/ Quit \/ Release

Spec == Init /\ [][Next]_vars

\* Windows runs every thread that can go on, and an event that is set wakes
\* its thread.  Nobody has to press 'q'.
FairSpec ==
  /\ Spec
  /\ WF_vars(IOThread) /\ WF_vars(AcceptThread) /\ WF_vars(UpdateThread)
  /\ WF_vars(Release)

-----------------------------------------------------------------------------
(* Properties *)

\* A session has one player and a player one session, but for the one that
\* AcceptThread is registering or deleting: nobody is registered twice,
\* whatever begin() gave and however the packets were queued.
OnePlayerEach ==
  LET at == IF pc["Accept"] \in {"newPlayer", "deletePlayer"}
              THEN {dwSessionID["Accept"]} ELSE {}
      players == [i \in DOMAIN g_PlayerList |-> g_PlayerList[i].SessionID]
  IN  /\ IsInjective(g_SessionList) /\ IsInjective(players)
      /\ ToSet(g_SessionList) \ at = ToSet(players) \ at

\* No packet stays in its list unless the program is to end: events that are
\* set together, or while the thread is at work, lose none, so that all lists
\* run empty once IOThread has made its last packet.
PacketsServed == []<>((\A q \in Packets : list[q] = <<>>) \/ exitEvent)

\* 'q' ends all three threads, wherever they are, and main releases what is
\* left: nobody waits for ever for a lock or an event.
QuitEnds == pc["main"] = "join" ~> pc["main"] = "ended"
=============================================================================
