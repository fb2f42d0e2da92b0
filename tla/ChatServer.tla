------------------------------ MODULE ChatServer ------------------------------
(***************************************************************************)
(* "22.09.16 - 채팅서버/Server.cpp": one thread that selects over the      *)
(* listening socket and all sessions, handles what is ready one socket     *)
(* after the other, and then takes disconnected sessions off a queue.      *)
(* Sessions, rooms and nicknames live in tables that the packet handlers   *)
(* change together.                                                        *)
(*                                                                         *)
(* A handler is a function from the server's state to the server's state.  *)
(* Packets are whole: what a partial packet leaves in recv_buf, the header *)
(* code and the checksum are left out, and so are more than 63 sessions    *)
(* (one Select_Proc for all).  send_buf holds BufMax messages.             *)
(*                                                                         *)
(* External: winsock, J_LIB's RingBuffer, and its ObjectPool, which hands  *)
(* out the object freed last as it was left (22.08.24's is its source).    *)
(***************************************************************************)
EXTENDS Integers, Sequences, FiniteSets, SequencesExt

CONSTANTS Names, RoomNames,
          MaxUser, MaxRoomNum, MaxRoomSession,  \* MAX_USER, MAX_ROOM_NUM, MAX_ROOM_SESSION
          BufMax,                               \* messages in a full send_buf
          MaxConnects, MaxPackets, MaxHangs     \* bounds: connections, requests,
                                                \* connections that break off

ASSUME ChatAssumption ==
  /\ {MaxUser, MaxRoomNum, MaxRoomSession, BufMax} \subseteq Nat \ {0}
  /\ {MaxConnects, MaxPackets, MaxHangs} \subseteq Nat

VARIABLES
  (* the clients *)
  pending,    \* connections accept has not returned yet
  connects, packets,
  net,        \* the requests on their way from each client
  line,       \* of each connection: "up", "fin" or "reset"
  (* the server: its tables, and why it is down, if it is *)
  server,
  (* NetWork_Process *)
  phase,               \* "select" or "serve"
  readable, writable   \* what select has reported and is still to be served

clients == <<pending, connects, packets, net, line>>
loop == <<phase, readable, writable>>
chatVars == <<clients, server, loop>>

LISTEN == 0                 \* the table id of listen_sock
Ids == 1..MaxConnects       \* Get_Session_ID
Live == DOMAIN server.session_map

\* What a client can know: the rooms, and who is in its own.
Untold == [listed |-> FALSE, known |-> {}, view |-> {}]

ChatInit ==
  /\ pending = 0 /\ connects = 0 /\ packets = 0
  /\ net = [i \in Ids |-> <<>>]
  /\ line = [i \in Ids |-> "up"]
  /\ server = [session_map |-> <<>>,       \* id -> Session
               disconnect_queue |-> <<>>,
               chatRoom_map |-> <<>>,      \* room_no -> ChatRoom
               nickName_table |-> [n \in Names |-> 0],
               session_pool |-> <<>>,      \* the `no' freed objects still have
               id |-> 1, room_id |-> 1,    \* the statics of Get_..._ID, _No
               down |-> "no",
               broke |-> FALSE]            \* history: a session was freed in a room
  /\ phase = "select" /\ readable = {} /\ writable = {}

-----------------------------------------------------------------------------
(* Sending *)

\* A table with the entry x of a new key.
Inserted(f, key, x) == [k \in DOMAIN f \cup {key} |-> IF k = key THEN x ELSE f[k]]

\* The process has thrown or followed a null pointer.
Down(s, why) == [s EXCEPT !.down = why]

\* Mutant: disconnect_flag is not looked at.
QueueAgain(s, id) ==
  [s EXCEPT !.session_map[id].disconnect_flag = TRUE,
            !.disconnect_queue = Append(@, id)]

emplace_disconnect_queue(s, id) ==
  IF s.session_map[id].disconnect_flag THEN s
  ELSE [s EXCEPT !.session_map[id].disconnect_flag = TRUE,
                 !.disconnect_queue = Append(@, id)]

\* What message m tells client id.
Learn(told, id, m) ==
  CASE m.type = "RES_ROOM_LIST"   -> [told EXCEPT !.listed = TRUE,
                                                  !.known = m.rooms]
    [] m.type = "RES_ROOM_CREATE" -> [told EXCEPT !.known = @ \cup {m.no}]
    [] m.type = "RES_ROOM_DELETE" -> [told EXCEPT !.known = @ \ {m.no}]
    [] m.type = "RES_ROOM_ENTER"  -> [told EXCEPT !.view = m.members]
    [] m.type = "RES_USER_ENTER"  -> [told EXCEPT !.view = @ \cup {m.id}]
    [] m.type = "RES_ROOM_LEAVE"  -> [told EXCEPT !.view = IF m.id = id THEN {}
                                                          ELSE @ \ {m.id}]
    [] OTHER -> told

\* An id that is not in session_map throws; a full send_buf disconnects.
Unicast(s, id, m) ==
  IF s.down # "no" THEN s
  ELSE IF id \notin DOMAIN s.session_map THEN Down(s, "ghost")
  ELSE IF s.session_map[id].send_buf = BufMax THEN emplace_disconnect_queue(s, id)
  ELSE [s EXCEPT !.session_map[id].send_buf = @ + 1,
                 !.session_map[id].told = Learn(@, id, m)]

UnicastAll(s, ids, m) ==
  LET After[n \in 0 .. Len(ids)] ==
        IF n = 0 THEN s ELSE Unicast(After[n - 1], ids[n], m)
  IN After[Len(ids)]

Broadcast(s, m) == UnicastAll(s, SetToSeq(DOMAIN s.session_map), m)

-----------------------------------------------------------------------------
(* PacketProc *)

Room(s, id) == s.session_map[id].no
InRoom(s, no) == no \in DOMAIN s.chatRoom_map
Members(s, no) == s.chatRoom_map[no].session_list

\* A session_list without session id.
Others(q, id) ==
  LET Of[n \in 0 .. Len(q)] ==
        IF n = 0 THEN <<>>
        ELSE IF q[n] = id THEN Of[n - 1] ELSE Append(Of[n - 1], q[n])
  IN Of[Len(q)]

\* REQ_LOGIN.  The comparator of nickName_table (wcscmp(a, b) != 0) is no
\* order, so that a name that is there may or may not be found; names are
\* never taken out.
Login(s, id, name) ==
  LET count(n) == s.nickName_table[n]
      Sum[T \in SUBSET Names] ==
        IF T = {} THEN 0
        ELSE LET n == CHOOSE n \in T : TRUE IN count(n) + Sum[T \ {n}]
      taken == [s EXCEPT !.nickName_table[name] = @ + 1]
  IN {Unicast(t, id, [type |-> "RES_LOGIN"]) :
        t \in (IF Sum[Names] < MaxUser THEN {taken} ELSE {s})
              \cup (IF count(name) > 0 THEN {s} ELSE {})}

\* REQ_ROOM_LIST: every member's nickname is read through Find_Session.
RoomList(s, id) ==
  IF \E no \in DOMAIN s.chatRoom_map :
       \E i \in ToSet(Members(s, no)) : i \notin DOMAIN s.session_map
    THEN Down(s, "ghost")
    ELSE Unicast(s, id, [type |-> "RES_ROOM_LIST",
                         rooms |-> DOMAIN s.chatRoom_map])

\* REQ_ROOM_CREATE
RoomCreate(s, id, name) ==
  IF \/ \E no \in DOMAIN s.chatRoom_map : s.chatRoom_map[no].name = name
     \/ Cardinality(DOMAIN s.chatRoom_map) + 1 > MaxRoomNum
    THEN Unicast(s, id, [type |-> "RES_FAILED"])
    ELSE Broadcast(
           [s EXCEPT !.chatRoom_map = Inserted(@, s.room_id, [name |-> name,
                                                              session_list |-> <<>>]),
                     !.room_id = @ + 1],
           [type |-> "RES_ROOM_CREATE", no |-> s.room_id])

Entered(s, id, no) ==
  [s EXCEPT !.session_map[id].no = no,
            !.chatRoom_map[no].session_list = Append(@, id)]

\* What the session that asks gets: refused, or the members, read through
\* Find_Session.
EnterAnswered(s, id, no) ==
  IF Len(Members(s, no)) + 1 > MaxRoomSession \/ Room(s, id) # 0
    THEN Unicast(s, id, [type |-> "RES_FAILED"])
  ELSE IF ~(ToSet(Members(s, no)) \subseteq DOMAIN s.session_map)
    THEN Down(s, "ghost")
  ELSE Unicast(Entered(s, id, no), id,
               [type |-> "RES_ROOM_ENTER",
                members |-> ToSet(Members(Entered(s, id, no), no))])

\* REQ_ROOM_ENTER.  A room that is not there throws, before the test that
\* would answer RESULT_ROOM_ENTER_NOT.  A refused session is still announced
\* to the room it is in; when it is in none, end() is dereferenced.
RoomEnter(s, id, no) ==
  LET t == EnterAnswered(s, id, no)
  IN IF ~InRoom(s, no) THEN Down(s, "no room")
     ELSE IF t.down # "no" THEN t
     ELSE IF ~InRoom(t, Room(t, id)) THEN Down(t, "roomless")
     ELSE UnicastAll(t, Others(Members(t, Room(t, id)), id),
                     [type |-> "RES_USER_ENTER", id |-> id])

\* REQ_CHAT
Chat(s, id) ==
  IF ~InRoom(s, Room(s, id)) THEN Down(s, "roomless")
  ELSE UnicastAll(s, Others(Members(s, Room(s, id)), id), [type |-> "RES_CHAT"])

\* Mutant: the session keeps its room number.
ExitUnset(s, id) ==
  [s EXCEPT !.chatRoom_map[Room(s, id)].session_list = Others(@, id)]

\* The session leaves the list, and its room number is reset.
Exit_room(s, id) ==
  [s EXCEPT !.chatRoom_map[Room(s, id)].session_list = Others(@, id),
            !.session_map[id].no = 0]

\* The room is erased from chatRoom_map.
Closed(s, no) ==
  [s EXCEPT !.chatRoom_map = [r \in DOMAIN @ \ {no} |-> @[r]]]

\* Mutant: the members are told after Exit_room, and the leaver is not.
LeaveUntold(s, id) ==
  LET no == Room(s, id)
      left == Exit_room(s, id)
      told == UnicastAll(left, Members(left, no),
                         [type |-> "RES_ROOM_LEAVE", id |-> id])
  IN IF ~InRoom(s, no) THEN {Down(s, "roomless")}
     ELSE {IF Members(left, no) # <<>> THEN told
           ELSE Broadcast(Closed(left, no), [type |-> "RES_ROOM_DELETE", no |-> no])}

\* REQ_ROOM_LEAVE.  Exit_room goes on with the iterator it has erased: that
\* may work, or end the process.
RoomLeave(s, id) ==
  LET no == Room(s, id)
      told == UnicastAll(s, Members(s, no),
                         [type |-> "RES_ROOM_LEAVE", id |-> id])
      left == Exit_room(told, id)
  IN IF ~InRoom(s, no) THEN {Down(s, "roomless")}
     ELSE IF told.down # "no" THEN {told}
     ELSE {IF Members(left, no) # <<>> THEN left
           ELSE Broadcast(Closed(left, no), [type |-> "RES_ROOM_DELETE", no |-> no])}
          \cup (IF id \in ToSet(Members(s, no)) THEN {Down(s, "erased")} ELSE {})

PacketProc(s, id, p) ==
  CASE p.type = "REQ_LOGIN"       -> Login(s, id, p.name)
    [] p.type = "REQ_ROOM_LIST"   -> {RoomList(s, id)}
    [] p.type = "REQ_ROOM_CREATE" -> {RoomCreate(s, id, p.name)}
    [] p.type = "REQ_ROOM_ENTER"  -> {RoomEnter(s, id, p.no)}
    [] p.type = "REQ_CHAT"        -> {Chat(s, id)}
    [] p.type = "REQ_ROOM_LEAVE"  -> RoomLeave(s, id)

-----------------------------------------------------------------------------
(* The clients *)

Up(i) == i \in Live /\ server.session_map[i].sock /\ line[i] = "up"

Send(i, p) ==
  /\ packets < MaxPackets
  /\ packets' = packets + 1
  /\ net' = [net EXCEPT ![i] = Append(@, p)]
  /\ UNCHANGED <<pending, connects, line, server, loop>>

\* What a client that follows the protocol asks for, by what it has been told:
\* one request at a time, though it may chat and leave at once.
ClientSends(i) ==
  LET told == server.session_map[i].told IN
  /\ Up(i)
  /\ \/ /\ net[i] = <<>>
        /\ \/ /\ told = Untold
              /\ \E n \in Names : Send(i, [type |-> "REQ_LOGIN", name |-> n])
           \/ ~told.listed /\ Send(i, [type |-> "REQ_ROOM_LIST"])
           \/ /\ told.view = {}
              /\ \E n \in RoomNames :
                   Send(i, [type |-> "REQ_ROOM_CREATE", name |-> n])
           \/ \E no \in told.known :
                Send(i, [type |-> "REQ_ROOM_ENTER", no |-> no])
           \/ told.view # {} /\ Send(i, [type |-> "REQ_CHAT"])
     \/ /\ net[i] \in {<<>>, <<[type |-> "REQ_CHAT"]>>} /\ told.view # {}
        /\ Send(i, [type |-> "REQ_ROOM_LEAVE"])

Connects ==
  /\ connects < MaxConnects
  /\ connects' = connects + 1 /\ pending' = pending + 1
  /\ UNCHANGED <<packets, net, line, server, loop>>

\* FIN comes after what was sent, a reset instead of it.
Hangs(i) ==
  /\ Up(i)
  /\ Cardinality({j \in Ids : line[j] # "up"}) < MaxHangs
  /\ \/ line' = [line EXCEPT ![i] = "fin"] /\ UNCHANGED net
     \/ line' = [line EXCEPT ![i] = "reset"] /\ net' = [net EXCEPT ![i] = <<>>]
  /\ UNCHANGED <<pending, connects, packets, server, loop>>

-----------------------------------------------------------------------------
(* NetWork_Process *)

\* An invalid socket in the set makes select fail, every time.
Deaf == \E i \in Live : ~server.session_map[i].sock

CanRead == {i \in Live : net[i] # <<>> \/ line[i] # "up"}
           \cup (IF pending > 0 THEN {LISTEN} ELSE {})
CanWrite == {i \in Live : server.session_map[i].send_buf > 0}

\* select, with a timeout of 0: what is ready now.  A round with nothing to do
\* changes nothing, and is left out.
Select ==
  /\ phase = "select" /\ phase' = "serve"
  /\ IF Deaf
       THEN /\ server.disconnect_queue # <<>>
            /\ readable' = {} /\ writable' = {}
       ELSE /\ CanRead \cup CanWrite # {} \/ server.disconnect_queue # <<>>
            /\ readable' = CanRead
            /\ writable' \in SUBSET CanWrite
  /\ UNCHANGED <<clients, server>>

\* Accept_Proc: listen_sock is the first entry of the table.  When accept fails
\* because the client is gone (10054) the session is made all the same.  Set
\* leaves `no' as it is.
Accept_Proc ==
  \E ok \in BOOLEAN :
    /\ LISTEN \in readable
    /\ readable' = readable \ {LISTEN}
    /\ pending' = pending - 1
    /\ LET pool == server.session_pool
           p_session == [no |-> IF pool = <<>> THEN 0 ELSE Head(pool),
                         disconnect_flag |-> FALSE, send_buf |-> 0,
                         sock |-> ok, told |-> Untold]
       IN server' = [server EXCEPT
            !.id = @ + 1,
            !.session_pool = IF pool = <<>> THEN pool ELSE Tail(pool),
            !.session_map = Inserted(@, server.id, p_session)]
    /\ UNCHANGED <<connects, packets, net, line, phase, writable>>

\* Send_Proc sends what send_buf holds; a reset disconnects.
Send_Proc(s, i) ==
  IF line[i] = "reset" THEN emplace_disconnect_queue(s, i)
  ELSE [s EXCEPT !.session_map[i].send_buf = 0]

\* Recv_Proc: FIN and a reset disconnect; of the packets that have come, the
\* first is handled and the others are dequeued with it as its payload.
Recv_Proc(s, i) ==
  IF net[i] = <<>> THEN {emplace_disconnect_queue(s, i)}
  ELSE PacketProc(s, i, Head(net[i]))

\* Select_Proc: one entry of the table, in the order session_map has.
Serve(i) ==
  LET sent == IF i \in writable THEN Send_Proc(server, i) ELSE server IN
  /\ LISTEN \notin readable
  /\ i \in readable \cup writable
  /\ readable' = readable \ {i} /\ writable' = writable \ {i}
  /\ IF i \notin readable THEN server' = sent /\ UNCHANGED net
     ELSE /\ server' \in Recv_Proc(sent, i)
          /\ \E n \in 0..Len(net[i]) :
               /\ n = 0 <=> net[i] = <<>>
               /\ net' = [net EXCEPT ![i] = SubSeq(@, n + 1, Len(@))]
  /\ UNCHANGED <<pending, connects, packets, line, phase>>

\* Mutant: the half that is taken is rounded down.
TakenDown(q) == Len(q) \div 2

\* The last loop pops and counts against the size that shrinks: turn i is made
\* if i is less than the Len(q) - i that are left.  Half of the queue, rounded
\* up, is taken; the rest waits for the next time round.
Taken(q) == (Len(q) + 1) \div 2

\* Disconnect, session_pool.Free and session_map.erase
Erase(s, id) ==
  [s EXCEPT !.session_map = [i \in DOMAIN @ \ {id} |-> @[i]],
            !.session_pool = <<Room(s, id)>> \o @,
            !.broke = @ \/ Room(s, id) # 0]

EraseAll(s, ids) ==
  LET After[n \in 0 .. Len(ids)] ==
        IF n = 0 THEN s ELSE Erase(After[n - 1], ids[n])
  IN After[Len(ids)]

DisconnectPass ==
  LET q == server.disconnect_queue IN
  /\ phase = "serve" /\ readable = {} /\ writable = {}
  /\ phase' = "select"
  /\ server' = EraseAll([server EXCEPT !.disconnect_queue =
                           SubSeq(q, Taken(q) + 1, Len(q))],
                        SubSeq(q, 1, Taken(q)))
  /\ UNCHANGED <<clients, readable, writable>>

\* Server_Run
ServerStep ==
  \/ Select \/ Accept_Proc \/ DisconnectPass
  \/ \E i \in Ids : Serve(i)

\* What clients do while the ready sockets are served can as well be done
\* before or after: recv takes any number of the packets that are there, and
\* the sockets are served in any order.
ClientStep ==
  /\ phase = "select"
  /\ Connects \/ \E i \in Ids : ClientSends(i) \/ Hangs(i)

ChatNext == server.down = "no" /\ (ServerStep \/ ClientStep)

ChatSpec == ChatInit /\ [][ChatNext]_chatVars

-----------------------------------------------------------------------------
(* Properties *)

Occurrences(q, x) == Cardinality({n \in DOMAIN q : q[n] = x})

\* disconnect_flag: a session is queued for disconnection exactly once, from
\* whatever handler, and only sessions that are there are; the pass at the end
\* of the round finds each of them.
QueuedOnce ==
  /\ \A i \in Live :
       Occurrences(server.disconnect_queue, i) =
         (IF server.session_map[i].disconnect_flag THEN 1 ELSE 0)
  /\ ToSet(server.disconnect_queue) \subseteq Live

\* ENTER, LEAVE, the disconnect pass: as long as no session was freed while it
\* was in a room, the rooms and the sessions agree on who is where, and a
\* packet never goes to an id that is not in session_map.
RoomsAgree ==
  ~server.broke =>
    /\ \A i \in Live, no \in DOMAIN server.chatRoom_map :
         Occurrences(Members(server, no), i) = (IF Room(server, i) = no THEN 1
                                                                      ELSE 0)
    /\ \A no \in DOMAIN server.chatRoom_map :
         ToSet(Members(server, no)) \subseteq Live
    /\ \A i \in Live : Room(server, i) \in DOMAIN server.chatRoom_map \cup {0}
    /\ server.down # "ghost"

\* The notices of rooms made and deleted and of members that come and go: what
\* a client was told, and did not lose to a full send_buf, is what the server's
\* tables say, on the same condition.
ClientsKnow ==
  \A i \in Live :
    LET told == server.session_map[i].told IN
    server.down = "no" /\ ~server.session_map[i].disconnect_flag =>
      /\ told.known \subseteq DOMAIN server.chatRoom_map
      /\ told.listed => told.known = DOMAIN server.chatRoom_map
      /\ ~server.broke =>
           told.view = IF Room(server, i) = 0 THEN {}
                       ELSE ToSet(Members(server, Room(server, i)))

\* The loop over a queue that shrinks leaves sessions behind, but never the one
\* that has waited longest: a disconnected session is gone after as many rounds
\* as there are sessions queued before it.
OldestLeaves ==
  [][phase = "serve" /\ phase' = "select" /\ server.disconnect_queue # <<>>
       => Head(server.disconnect_queue) \notin Live']_chatVars
=============================================================================
