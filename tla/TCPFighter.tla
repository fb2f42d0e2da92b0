----------------------------- MODULE TCPFighter -----------------------------
(***************************************************************************)
(* "22.10.10 - MMO TCPFighter Server": one thread that goes round          *)
(* ProcessNetIO, Update and Disconnect_Session.  The map is cut into       *)
(* sectors; a client is told of the characters in the 3 by 3 sectors       *)
(* around its own, and of nothing else.                                    *)
(*                                                                         *)
(* A session, its character and its SESSION_ID are one model value.        *)
(* External: the sockets (select, accept, recv and send fail or succeed as *)
(* they like) and the clock.  A client may send positions off the map; the  *)
(* program is followed up to the first one that is accepted ("undefined"). *)
(* Left out: what packets carry besides who is there and how it moves      *)
(* (direction, coordinates, names of the three attacks), the batches of    *)
(* more than FD_SETSIZE sockets, logging.                                  *)
(***************************************************************************)
EXTENDS Integers, Sequences, FiniteSets, SequencesExt

CONSTANTS Sessions, Nobody,
          RANGE_MOVE_RIGHT, RANGE_MOVE_BOTTOM, SECTOR_SIZE,
          SPEED_PLAYER_X, SPEED_PLAYER_Y, SYNC_RANGE,
          RangeX, RangeY,  \* ATTACKn_RANGE_X and _Y of the attack in use
          Damage, Hp,      \* its damage, and the hp a character starts with
          HpFloor,         \* bound: nobody is hit below it
          Moves            \* the moving ACTIONs clients use

Actions == {"LL", "LU", "UU", "RU", "RR", "RD", "DD", "LD", "STOP"}

\* What Define.h has: whole sectors, no step, jump or blow beyond the next.
ASSUME FighterAssumption ==
  /\ {SECTOR_SIZE, RANGE_MOVE_RIGHT, RANGE_MOVE_BOTTOM} \subseteq Nat \ {0}
  /\ RANGE_MOVE_RIGHT % SECTOR_SIZE = 0 /\ RANGE_MOVE_BOTTOM % SECTOR_SIZE = 0
  /\ {SPEED_PLAYER_X, SPEED_PLAYER_Y, SYNC_RANGE, RangeX, RangeY}
       \subseteq 1..(SECTOR_SIZE - 1)
  /\ Damage \in Nat \ {0} /\ Hp \in Nat \ {0} /\ HpFloor \in Int
  /\ IsFiniteSet(Sessions) /\ Nobody \notin Sessions
  /\ Moves \subseteq Actions \ {"STOP"}

VARIABLES
  connected,   \* the sessions in sessionMap, whose characters are in
               \* character_map
  pos, cur_sector, action, hp,          \* Character
  sectors,     \* who is in each sector
  flag_disconnect, disconnect_queue,
  phase,       \* where main's loop is: "accept", "net", "update",
               \* "disconnect"; or "undefined", see OffMap
  todo,        \* the sockets or characters this part has still to visit
  serving,     \* the session whose packets ProcRecv is working through
  left,        \* the disconnects this Disconnect_Session has still to do
  told         \* what each client was told of each character, see ViewsExact

character == <<pos, cur_sector, action, hp, sectors>>
drops == <<flag_disconnect, disconnect_queue>>
loop == <<phase, todo, serving, left>>
vars == <<connected, character, drops, loop, told>>

Positions == [x : 0..RANGE_MOVE_RIGHT - 1, y : 0..RANGE_MOVE_BOTTOM - 1]
\* What a client near the edge may send and have accepted.
Sent == [x : -SYNC_RANGE..RANGE_MOVE_RIGHT - 1 + SYNC_RANGE,
         y : -SYNC_RANGE..RANGE_MOVE_BOTTOM - 1 + SYNC_RANGE]
SECTOR_MAX_X == RANGE_MOVE_RIGHT \div SECTOR_SIZE
SECTOR_MAX_Y == RANGE_MOVE_BOTTOM \div SECTOR_SIZE
SectorPos == [x : 0..SECTOR_MAX_X - 1, y : 0..SECTOR_MAX_Y - 1]
SectorOf(p) == [x |-> p.x \div SECTOR_SIZE, y |-> p.y \div SECTOR_SIZE]

Origin == [x |-> 0, y |-> 0]
Blank == [c \in Sessions |-> "absent"]

Init ==
  /\ connected = {}
  /\ pos = [s \in Sessions |-> Origin]
  /\ cur_sector = [s \in Sessions |-> Origin]
  /\ action = [s \in Sessions |-> "STOP"]
  /\ hp = [s \in Sessions |-> Hp]
  /\ sectors = [t \in SectorPos |-> {}]
  /\ flag_disconnect = [s \in Sessions |-> FALSE]
  /\ disconnect_queue = <<>>
  /\ phase = "accept" /\ todo = {} /\ serving = Nobody /\ left = 0
  /\ told = [s \in Sessions |-> Blank]

-----------------------------------------------------------------------------
(* Sectors *)

\* Get_SectorAround
Around(t) ==
  {u \in SectorPos : u.x - t.x \in -1..1 /\ u.y - t.y \in -1..1}

Occupants(secs, S) == UNION {secs[t] : t \in S}

\* The sectors map once p has gone from one sector to another.
Moved(p, from, to) ==
  IF from = to
    THEN sectors
    ELSE [sectors EXCEPT ![from] = @ \ {p}, ![to] = @ \union {p}]

\* Mutant: p's own client is not told to delete whom it leaves behind.
SectorUpdateOneWay(p, from, to, secs, acts, view) ==
  LET remove == Occupants(secs, Around(from) \ Around(to))
      add == Occupants(secs, Around(to) \ Around(from))
  IN  [q \in Sessions |-> [c \in Sessions |->
         CASE c = p /\ q \in remove -> "absent"
           [] c = p /\ q \in add -> acts[p]
           [] q = p /\ c \in add -> acts[c]
           [] OTHER -> view[q][c]]]

\* CharacterSectorUpdate: both sides are told of who comes into view and who
\* leaves it; CREATE_OTHER_CHARACTER is followed by MOVE_START for who moves.
CharacterSectorUpdate(p, from, to, secs, acts, view) ==
  LET remove == Occupants(secs, Around(from) \ Around(to))
      add == Occupants(secs, Around(to) \ Around(from))
  IN  [q \in Sessions |-> [c \in Sessions |->
         CASE (c = p /\ q \in remove) \/ (q = p /\ c \in remove) -> "absent"
           [] (c = p /\ q \in add) \/ (q = p /\ c \in add) -> acts[c]
           [] OTHER -> view[q][c]]]

\* MOVE_START, MOVE_STOP or ATTACK of p: a client that has p takes its action.
Announce(p, recipients, act, view) ==
  [q \in Sessions |->
     IF q \in recipients /\ view[q][p] # "absent"
       THEN [view[q] EXCEPT ![p] = act]
       ELSE view[q]]

-----------------------------------------------------------------------------
(* Disconnecting *)

\* Mutant: flag_disconnect is not looked at.
Input_DisconnectTwice(S, queue, view) ==
  /\ \E order \in SetToSeqs(S) : disconnect_queue' = queue \o order
  /\ flag_disconnect' = [s \in Sessions |-> flag_disconnect[s] \/ s \in S]
  /\ told' = [s \in Sessions |-> IF flag_disconnect'[s] THEN Blank ELSE view[s]]

\* Input_DisconnectQ for every session of S that is not flagged already, in
\* any order (the containers are unordered).  What a client was told no
\* longer counts once it is to be dropped.
Input_DisconnectQ(S, queue, view) ==
  /\ \E order \in SetToSeqs({s \in S : ~flag_disconnect[s]}) :
       disconnect_queue' = queue \o order
  /\ flag_disconnect' = [s \in Sessions |-> flag_disconnect[s] \/ s \in S]
  /\ told' = [s \in Sessions |-> IF flag_disconnect'[s] THEN Blank ELSE view[s]]

\* SendPacket_Unicast to every recipient: any of them may find its send_buf
\* full, for its client has not read, and is then disconnected.
Send(recipients, view) ==
  \E full \in SUBSET recipients :
    Input_DisconnectQ(full, disconnect_queue, view)

-----------------------------------------------------------------------------
(* Network::ProcessNetIO *)

\* select: who is connected now is visited, the listening socket first.
NoAccept ==
  /\ phase = "accept"
  /\ phase' = "net" /\ todo' = connected
  /\ UNCHANGED <<connected, character, drops, serving, left, told>>

\* ProcAccept: a character at a random place; CREATE_MY_CHARACTER tells those
\* around of it, and it of them.
ProcAccept(s, at) ==
  LET near == Occupants(sectors, Around(SectorOf(at))) IN
  /\ phase = "accept" /\ s \notin connected
  /\ phase' = "net" /\ todo' = connected
  /\ connected' = connected \union {s}
  /\ pos' = [pos EXCEPT ![s] = at]
  /\ cur_sector' = [cur_sector EXCEPT ![s] = SectorOf(at)]
  /\ sectors' = [sectors EXCEPT ![SectorOf(at)] = @ \union {s}]
  /\ action' = [action EXCEPT ![s] = "STOP"]
  /\ hp' = [hp EXCEPT ![s] = Hp]
  /\ Send(near \union {s},
          [q \in Sessions |->
             IF q = s THEN [c \in Sessions |->
                              IF c \in near THEN action[c] ELSE "absent"]
             ELSE IF q \in near THEN [told[q] EXCEPT ![s] = "STOP"]
             ELSE told[q]])
  /\ UNCHANGED <<serving, left>>

Visits(s) == phase = "net" /\ serving = Nobody /\ s \in todo

\* The socket of s is not ready, or only send was called, and succeeded.
NotReady(s) ==
  /\ Visits(s)
  /\ todo' = todo \ {s}
  /\ UNCHANGED <<connected, character, drops, phase, serving, left, told>>

\* ProcSend fails: ProcRecv is not called.
SendFails(s) ==
  /\ Visits(s)
  /\ todo' = todo \ {s}
  /\ Input_DisconnectQ({s}, disconnect_queue, told)
  /\ UNCHANGED <<connected, character, phase, serving, left>>

\* ProcRecv: recv returns 0 or an error.
RecvEnds(s) ==
  /\ Visits(s)
  /\ todo' = todo \ {s}
  /\ Input_DisconnectQ({s}, disconnect_queue, told)
  /\ UNCHANGED <<connected, character, phase, serving, left>>

\* ProcRecv: some bytes have come; the packets in recv_buf follow.
RecvSome(s) ==
  /\ Visits(s)
  /\ serving' = s
  /\ UNCHANGED <<connected, character, drops, phase, todo, left, told>>

\* Complete_RecvPacket: no complete packet is left.
RecvDone(s) ==
  /\ serving = s
  /\ serving' = Nobody /\ todo' = todo \ {s}
  /\ UNCHANGED <<connected, character, drops, phase, left, told>>

\* A wrong packet code, or a Proc_Packet that returned false.
RecvBad(s) ==
  /\ serving = s
  /\ serving' = Nobody /\ todo' = todo \ {s}
  /\ Input_DisconnectQ({s}, disconnect_queue, told)
  /\ UNCHANGED <<connected, character, phase, left>>

\* ECHO and unknown types: Proc_Packet ends without a return statement, so
\* this or RecvBad happens.
Echo(s) == serving = s /\ UNCHANGED vars

\* The client's position counts if it is within SYNC_RANGE, or else the
\* server's own, which is sent back (SYNC).
Accepts(s, at) ==
  /\ serving = s
  /\ at.x - pos[s].x \in -SYNC_RANGE..SYNC_RANGE
  /\ at.y - pos[s].y \in -SYNC_RANGE..SYNC_RANGE

\* No handler asks whether the position is on the map.  When it is not, the
\* quotient of Update_SectorPos (of unsigned numbers) is no sector, and sectors
\* is indexed out of its bounds: what follows is undefined.
OffMap(s, at, act) ==
  /\ Accepts(s, at) /\ at \notin Positions
  /\ pos' = [pos EXCEPT ![s] = at]
  /\ action' = [action EXCEPT ![s] = act]
  /\ phase' = "undefined" /\ serving' = Nobody
  /\ UNCHANGED <<connected, cur_sector, hp, sectors, drops, todo, left, told>>

\* What the handlers have in common on the map: the sector is updated and
\* those around are told; a blow is also heard around its victim.
Handle(s, at, act, heard) ==
  LET from == cur_sector[s]
      to == SectorOf(at)
      secs == Moved(s, from, to)
      acts == [action EXCEPT ![s] = act]
      view == IF from = to THEN told
              ELSE CharacterSectorUpdate(s, from, to, secs, acts, told)
      around == Around(to)
  IN  /\ Accepts(s, at)
      /\ pos' = [pos EXCEPT ![s] = at]
      /\ cur_sector' = [cur_sector EXCEPT ![s] = to]
      /\ sectors' = secs
      /\ action' = acts
      /\ Send(Occupants(secs, Around(from) \union around \union heard),
              Announce(s, Occupants(secs, around), act, view))
      /\ UNCHANGED <<connected, loop>>

MoveStart(s, at, act) ==
  act \in Moves /\ Handle(s, at, act, {}) /\ UNCHANGED hp

MoveStop(s, at) == Handle(s, at, "STOP", {}) /\ UNCHANGED hp

\* The sectors a blow is looked for in, in this order.
DamageSectors(at, dir) ==
  LET here == SectorOf(at)
      dx == IF dir = "RR" THEN 1 ELSE -1
      sideways == /\ here.x + dx \in 0..SECTOR_MAX_X - 1
                  /\ here.x + dx = (at.x + dx * RangeX) \div SECTOR_SIZE
      offset == at.y % SECTOR_SIZE
      dy == IF offset < RangeY /\ here.y > 0 THEN -1
            ELSE IF /\ offset > SECTOR_SIZE - RangeY
                    /\ here.y < SECTOR_MAX_Y - 1 THEN 1
            ELSE 0
      Column(y) ==
        <<[here EXCEPT !.y = y]>>
        \o IF sideways THEN <<[x |-> here.x + dx, y |-> y]>> ELSE <<>>
  IN  Column(here.y) \o IF dy = 0 THEN <<>> ELSE Column(here.y + dy)

InReach(at, dir, other) ==
  /\ other.y - at.y \in -RangeY..RangeY
  /\ IF dir = "LL" THEN at.x - other.x \in 0..RangeX
                   ELSE other.x - at.x \in 0..RangeX

\* The characters an attack may hit: those within reach in the first sector
\* that has one (a sector is an unordered_set).
Victims(s, at, dir) ==
  LET searched == DamageSectors(at, dir)
      In(i) == {c \in Moved(s, cur_sector[s], SectorOf(at))[searched[i]] \ {s} :
                  InReach(at, dir, pos[c])}
  IN  UNION {In(i) : i \in {j \in DOMAIN searched :
                              \A k \in 1..j - 1 : In(k) = {}}}

\* Proc_Packet_ATTACK1, 2 and 3: at most one is hit.
Attack(s, at, dir) ==
  /\ Accepts(s, at)
  /\ \/ /\ Victims(s, at, dir) = {}
        /\ Handle(s, at, "STOP", {})
        /\ UNCHANGED hp
     \/ \E c \in Victims(s, at, dir) :
          /\ hp[c] - Damage >= HpFloor
          /\ Handle(s, at, "STOP", Around(cur_sector[c]))
          /\ hp' = [hp EXCEPT ![c] = @ - Damage]

EndNet ==
  /\ phase = "net" /\ todo = {} /\ serving = Nobody
  /\ phase' \in {"update", "disconnect"}  \* whether a frame is due
  /\ todo' = IF phase' = "update" THEN connected ELSE {}
  /\ left' = IF phase' = "update" THEN 0 ELSE Len(disconnect_queue)
  /\ UNCHANGED <<connected, character, drops, serving, told>>

ProcessNetIO ==
  \/ NoAccept
  \/ \E s \in Sessions, at \in Positions : ProcAccept(s, at)
  \/ \E s \in Sessions :
       \/ NotReady(s) \/ SendFails(s) \/ RecvEnds(s)
       \/ RecvSome(s) \/ RecvDone(s) \/ RecvBad(s)
       \/ Echo(s)
       \/ \E at \in Positions :
            \/ \E act \in Moves : MoveStart(s, at, act)
            \/ MoveStop(s, at)
            \/ \E dir \in {"LL", "RR"} : Attack(s, at, dir)
       \/ \E at \in Sent, act \in Moves \union {"STOP"} : OffMap(s, at, act)
  \/ EndNet

-----------------------------------------------------------------------------
(* Update: one frame *)

Frames(s) == phase = "update" /\ s \in todo /\ todo' = todo \ {s}


Dies(s) ==
  /\ Frames(s) /\ hp[s] <= 0
  /\ Input_DisconnectQ({s}, disconnect_queue, told)
  /\ UNCHANGED <<connected, character, phase, serving, left>>

\* Nothing has come from s for dfNETWORK_PACKET_RECV_TIMEOUT.
TimesOut(s) ==
  /\ Frames(s) /\ hp[s] > 0
  /\ Input_DisconnectQ({s}, disconnect_queue, told)
  /\ UNCHANGED <<connected, character, phase, serving, left>>

\* One coordinate after a frame in direction d: clamped at the wall.
Step(v, d, speed, size) ==
  CASE d = 0 -> v
    [] d = -1 -> IF v <= speed THEN 0 ELSE v - speed
    [] d = 1 -> IF v >= size - speed THEN size - 1 ELSE v + speed

Clamped(v, d, speed, size) ==
  CASE d = 0 -> TRUE
    [] d = -1 -> v <= speed
    [] d = 1 -> v >= size - speed

AtWall(v, d, size) == (d = -1 /\ v <= 0) \/ (d = 1 /\ v >= size - 1)

Dx(act) == CASE act \in {"LL", "LU", "LD"} -> -1
             [] act \in {"RR", "RU", "RD"} -> 1
             [] OTHER -> 0
Dy(act) == CASE act \in {"UU", "LU", "RU"} -> -1
             [] act \in {"DD", "LD", "RD"} -> 1
             [] OTHER -> 0

\* A diagonal move stops when either wall is reached.
Next_Pos(s) ==
  LET dx == Dx(action[s])
      dy == Dy(action[s])
  IN  IF /\ dx # 0 /\ dy # 0
         /\ \/ AtWall(pos[s].x, dx, RANGE_MOVE_RIGHT)
            \/ AtWall(pos[s].y, dy, RANGE_MOVE_BOTTOM)
        THEN pos[s]
        ELSE [x |-> Step(pos[s].x, dx, SPEED_PLAYER_X, RANGE_MOVE_RIGHT),
              y |-> Step(pos[s].y, dy, SPEED_PLAYER_Y, RANGE_MOVE_BOTTOM)]

\* is_move: a step that only met the wall does not count, and the sector is
\* not updated.
Is_Move(s) ==
  /\ Next_Pos(s) # pos[s]
  /\ \/ ~Clamped(pos[s].x, Dx(action[s]), SPEED_PLAYER_X, RANGE_MOVE_RIGHT)
     \/ ~Clamped(pos[s].y, Dy(action[s]), SPEED_PLAYER_Y, RANGE_MOVE_BOTTOM)

\* Mutant: the sector is updated only when its y is another.
MoveDownOnly(s) ==
  LET from == cur_sector[s]
      to == IF Is_Move(s) /\ SectorOf(Next_Pos(s)).y # from.y
              THEN SectorOf(Next_Pos(s)) ELSE from
      secs == Moved(s, from, to)
  IN  /\ Frames(s) /\ hp[s] > 0
      /\ pos' = [pos EXCEPT ![s] = Next_Pos(s)]
      /\ cur_sector' = [cur_sector EXCEPT ![s] = to]
      /\ sectors' = secs
      /\ IF from = to
           THEN UNCHANGED <<drops, told>>
           ELSE Send(Occupants(secs, Around(from) \union Around(to)),
                     CharacterSectorUpdate(s, from, to, secs, action, told))
      /\ UNCHANGED <<connected, action, hp, phase, serving, left>>

Move(s) ==
  LET from == cur_sector[s]
      to == IF Is_Move(s) THEN SectorOf(Next_Pos(s)) ELSE from
      secs == Moved(s, from, to)
  IN  /\ Frames(s) /\ hp[s] > 0
      /\ pos' = [pos EXCEPT ![s] = Next_Pos(s)]
      /\ cur_sector' = [cur_sector EXCEPT ![s] = to]
      /\ sectors' = secs
      /\ IF from = to
           THEN UNCHANGED <<drops, told>>
           ELSE Send(Occupants(secs, Around(from) \union Around(to)),
                     CharacterSectorUpdate(s, from, to, secs, action, told))
      /\ UNCHANGED <<connected, action, hp, phase, serving, left>>

EndUpdate ==
  /\ phase = "update" /\ todo = {}
  /\ phase' = "disconnect" /\ left' = Len(disconnect_queue)
  /\ UNCHANGED <<connected, character, drops, todo, serving, told>>

Update == EndUpdate \/ \E s \in Sessions : Dies(s) \/ TimesOut(s) \/ Move(s)

-----------------------------------------------------------------------------
(* Network::Disconnect_Session *)

\* The front of the queue leaves its sector, those around are told to delete
\* it, and its session and character go back to their pools, where nothing is
\* read of them until Set.  Who is queued meanwhile waits for the next call.
DisconnectOne(s) ==
  LET secs == [sectors EXCEPT ![cur_sector[s]] = @ \ {s}]
      near == Occupants(secs, Around(cur_sector[s]))
  IN  /\ phase = "disconnect" /\ left > 0 /\ s = Head(disconnect_queue)
      /\ left' = left - 1
      /\ connected' = connected \ {s}
      /\ sectors' = secs
      /\ \E full \in SUBSET near :
           /\ \E order \in SetToSeqs({q \in full : ~flag_disconnect[q]}) :
                disconnect_queue' = Tail(disconnect_queue) \o order
           /\ flag_disconnect' = [q \in Sessions |->
                q # s /\ (flag_disconnect[q] \/ q \in full)]
           /\ told' = [q \in Sessions |->
                IF q = s \/ flag_disconnect'[q] THEN Blank
                ELSE IF q \in near THEN [told[q] EXCEPT ![s] = "absent"]
                ELSE told[q]]
      /\ pos' = [pos EXCEPT ![s] = Origin]
      /\ cur_sector' = [cur_sector EXCEPT ![s] = Origin]
      /\ action' = [action EXCEPT ![s] = "STOP"]
      /\ hp' = [hp EXCEPT ![s] = Hp]
      /\ UNCHANGED <<phase, todo, serving>>

EndDisconnect ==
  /\ phase = "disconnect" /\ left = 0
  /\ phase' = "accept"
  /\ UNCHANGED <<connected, character, drops, todo, serving, left, told>>

Disconnect_Session == EndDisconnect \/ \E s \in Sessions : DisconnectOne(s)

\* The model does not follow the program any further.
Gone == phase = "undefined" /\ UNCHANGED vars

Next == ProcessNetIO \/ Update \/ Disconnect_Session \/ Gone

Spec == Init /\ [][Next]_vars

\* main's loop goes round for ever (a recv_buf holds finitely many packets),
\* and as time passes a frame is due again and again.
FairSpec ==
  /\ Spec
  /\ []<>(phase \in {"update", "undefined"})
  /\ []<>(phase \in {"accept", "undefined"})

-----------------------------------------------------------------------------
(* Properties *)

\* The values every part of the state may have; frames, accepts and packets
\* leave the characters on the map, but for the packet after which nothing is
\* defined.
TypeOK ==
  /\ connected \subseteq Sessions /\ todo \subseteq connected
  /\ pos \in [Sessions -> Sent] /\ cur_sector \in [Sessions -> SectorPos]
  /\ phase # "undefined" => pos \in [Sessions -> Positions]
  /\ action \in [Sessions -> Actions] /\ hp \in [Sessions -> Int]
  /\ sectors \in [SectorPos -> SUBSET Sessions]
  /\ flag_disconnect \in [Sessions -> BOOLEAN]
  /\ phase \in {"accept", "net", "update", "disconnect", "undefined"}
  /\ serving \in Sessions \union {Nobody} /\ left \in 0..Len(disconnect_queue)

\* Define.h:13-16, and "화면 이동 범위" (the range of movement) in 작업문서.txt:13:
\* every character is on the map.  Frames stop at its walls; a packet does not.
OnTheMap == \A c \in connected : pos[c] \in Positions

SectorsRight ==
  \A t \in SectorPos :
    /\ sectors[t] = {c \in connected : cur_sector[c] = t}
    /\ sectors[t] = {c \in connected : SectorOf(pos[c]) = t}

\* As long as no packet has taken a character off the map: every character is
\* in the sector of its position and in no other, whatever packets, frames and
\* walls moved it, and nobody who is gone is in one: Erase_Sectors never throws.
SectorsExact == phase # "undefined" => SectorsRight

ToldRight ==
  \A q \in connected : ~flag_disconnect[q] =>
    \A c \in Sessions :
      told[q][c] =
        IF /\ c # q /\ c \in connected
           /\ cur_sector[c] \in Around(cur_sector[q])
          THEN action[c] ELSE "absent"

\* As long as no packet has taken a character off the map: a client that is
\* not to be dropped was told of exactly the others in the sectors around its
\* own, each with the way it moves now, and was never told to create itself as
\* another.
ViewsExact == phase # "undefined" => ToldRight

\* A session is in disconnect_queue once when it is flagged, and else not at
\* all, and only while it is connected: what Disconnect_Session frees was not
\* freed before.
QueueExact ==
  /\ IsInjective(disconnect_queue)
  /\ ToSet(disconnect_queue) = {s \in Sessions : flag_disconnect[s]}
  /\ ToSet(disconnect_queue) \subseteq connected


=============================================================================
