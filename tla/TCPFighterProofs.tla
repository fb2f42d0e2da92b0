-------------------------- MODULE TCPFighterProofs --------------------------
(***************************************************************************)
(* Theorems about TCPFighter, for any finite set of sessions and any map   *)
(* that is a whole number of sectors.                                      *)
(***************************************************************************)
EXTENDS TCPFighter, SequenceTheorems, FiniteSetTheorems, TLAPS

(***************************************************************************)
(* Lemmas about the queue.                                                 *)
(***************************************************************************)

\* An order in which the members of a set are visited has each of them once.
LEMMA OrderFacts ==
  ASSUME NEW S, IsFiniteSet(S), NEW order \in SetToSeqs(S)
  PROVE  /\ order \in Seq(S)
         /\ ToSet(order) = S
         /\ IsInjective(order)
<1> DEFINE n == Cardinality(S)
<1>1. n \in Nat
  BY FS_CardinalityType
<1>2. /\ order \in [1..n -> S]
      /\ \A i, j \in 1..n : i # j => order[i] # order[j]
  BY DEF SetToSeqs
<1>3. order \in Injection(1..n, S)
  BY <1>2 DEF Injection, IsInjective
<1>4. Cardinality(1..n) = n
  BY <1>1, FS_Interval
<1>5. order \in Surjection(1..n, S)
  BY <1>3, <1>4, FS_Injection
<1>6. order \in Seq(S)
  BY <1>1, <1>2, SeqDef
<1>7. ToSet(order) = S
  BY <1>2, <1>5 DEF ToSet, Surjection
<1> QED
  BY <1>2, <1>6, <1>7 DEF IsInjective

\* Appending the members of a set that are not in the queue yet.
LEMMA AppendOrder ==
  ASSUME NEW T, NEW q \in Seq(T), IsInjective(q),
         NEW S \in SUBSET T, IsFiniteSet(S), S \intersect ToSet(q) = {},
         NEW order \in SetToSeqs(S)
  PROVE  /\ q \o order \in Seq(T)
         /\ IsInjective(q \o order)
         /\ ToSet(q \o order) = ToSet(q) \union S
         /\ Len(q \o order) \in Nat /\ Len(q) \in Nat
         /\ Len(q) <= Len(q \o order)
<1>1. /\ order \in Seq(S) /\ ToSet(order) = S /\ IsInjective(order)
  BY OrderFacts
<1>2. order \in Seq(T)
  BY <1>1, SeqMonotonic
<1> DEFINE r == q \o order
<1>3. /\ r \in Seq(T)
      /\ Len(r) = Len(q) + Len(order)
      /\ \A i \in 1..Len(q) + Len(order) :
           r[i] = IF i <= Len(q) THEN q[i] ELSE order[i - Len(q)]
  BY <1>2, ConcatProperties
<1>4. /\ Len(q) \in Nat /\ DOMAIN q = 1..Len(q)
      /\ Len(order) \in Nat /\ DOMAIN order = 1..Len(order)
      /\ DOMAIN r = 1..Len(r)
  BY <1>1, <1>3, LenProperties
<1> HIDE DEF r
<1>5. \A i \in 1..Len(q) : q[i] \in ToSet(q)
  BY <1>4 DEF ToSet
<1>6. \A i \in 1..Len(order) : order[i] \in S
  BY <1>1, <1>4 DEF ToSet
<1>7. IsInjective(r)
  <2> SUFFICES ASSUME NEW i \in 1..Len(r), NEW j \in 1..Len(r), r[i] = r[j]
               PROVE  i = j
    BY <1>4 DEF IsInjective
  <2>1. CASE i <= Len(q) /\ j <= Len(q)
    BY <1>3, <1>4, <2>1 DEF IsInjective
  <2>2. CASE i > Len(q) /\ j > Len(q)
    <3>1. /\ i - Len(q) \in 1..Len(order) /\ j - Len(q) \in 1..Len(order)
          /\ order[i - Len(q)] = order[j - Len(q)]
      BY <1>3, <1>4, <2>2
    <3>2. i - Len(q) = j - Len(q)
      BY <3>1, <1>1, <1>4 DEF IsInjective
    <3> QED
      BY <3>2, <1>3, <1>4
  <2>3. CASE i <= Len(q) /\ j > Len(q)
    <3>1. r[i] \in ToSet(q) /\ r[j] \in S
      BY <1>3, <1>4, <1>5, <1>6, <2>3
    <3> QED
      BY <3>1
  <2>4. CASE i > Len(q) /\ j <= Len(q)
    <3>1. r[j] \in ToSet(q) /\ r[i] \in S
      BY <1>3, <1>4, <1>5, <1>6, <2>4
    <3> QED
      BY <3>1
  <2> QED
    BY <1>3, <1>4, <2>1, <2>2, <2>3, <2>4
<1>8. ToSet(r) = ToSet(q) \union S
  <2>1. \A i \in 1..Len(q) : i \in DOMAIN r /\ r[i] = q[i]
    BY <1>3, <1>4
  <2>2. \A i \in 1..Len(order) :
          Len(q) + i \in DOMAIN r /\ r[Len(q) + i] = order[i]
    BY <1>3, <1>4
  <2>3. \A i \in DOMAIN r : r[i] \in ToSet(q) \/ r[i] \in S
    BY <1>3, <1>4, <1>5, <1>6
  <2>4. ToSet(q) \subseteq ToSet(r)
    BY <1>4, <2>1 DEF ToSet
  <2>5. S \subseteq ToSet(r)
    BY <1>1, <1>4, <2>2 DEF ToSet
  <2>6. ToSet(r) \subseteq ToSet(q) \union S
    BY <2>3 DEF ToSet
  <2> QED
    BY <2>4, <2>5, <2>6
<1> QED
  BY <1>3, <1>4, <1>7, <1>8 DEF r

\* Taking the front off.
LEMMA TailFacts ==
  ASSUME NEW T, NEW q \in Seq(T), q # <<>>, IsInjective(q)
  PROVE  /\ Tail(q) \in Seq(T)
         /\ IsInjective(Tail(q))
         /\ ToSet(Tail(q)) = ToSet(q) \ {Head(q)}
         /\ Head(q) \in ToSet(q)
         /\ Len(Tail(q)) = Len(q) - 1
<1> DEFINE r == Tail(q)
<1>1. /\ r \in Seq(T) /\ Len(r) = Len(q) - 1
      /\ \A i \in 1..Len(r) : r[i] = q[i + 1]
  BY HeadTailProperties
<1>2. /\ Len(q) \in Nat \ {0} /\ DOMAIN q = 1..Len(q) /\ DOMAIN r = 1..Len(r)
  BY <1>1, LenProperties, EmptySeq
<1>3. Head(q) = q[1]
  BY <1>2
<1> HIDE DEF r
<1>4. IsInjective(r)
  <2> SUFFICES ASSUME NEW i \in 1..Len(r), NEW j \in 1..Len(r), r[i] = r[j]
               PROVE  i = j
    BY <1>2 DEF IsInjective
  <2>1. i + 1 \in DOMAIN q /\ j + 1 \in DOMAIN q /\ q[i + 1] = q[j + 1]
    BY <1>1, <1>2
  <2>2. i + 1 = j + 1
    BY <2>1 DEF IsInjective
  <2> QED
    BY <2>2, <1>1, <1>2
<1>5. \A i \in 1..Len(r) : r[i] \in ToSet(q) /\ r[i] # q[1]
  <2> SUFFICES ASSUME NEW i \in 1..Len(r)
               PROVE  r[i] \in ToSet(q) /\ r[i] # q[1]
    OBVIOUS
  <2>1. i + 1 \in DOMAIN q /\ 1 \in DOMAIN q /\ r[i] = q[i + 1] /\ i + 1 # 1
    BY <1>1, <1>2
  <2> QED
    BY <2>1 DEF ToSet, IsInjective
<1>6. ToSet(q) \subseteq ToSet(r) \union {q[1]}
  <2> SUFFICES ASSUME NEW i \in DOMAIN q, i # 1
               PROVE  q[i] \in ToSet(r)
    BY DEF ToSet
  <2>1. i - 1 \in DOMAIN r /\ r[i - 1] = q[i]
    BY <1>1, <1>2
  <2> QED
    BY <2>1 DEF ToSet
<1>7. ToSet(r) = ToSet(q) \ {q[1]}
  BY <1>2, <1>5, <1>6 DEF ToSet
<1>8. q[1] \in ToSet(q)
  BY <1>2 DEF ToSet
<1> QED
  BY <1>1, <1>3, <1>4, <1>7, <1>8 DEF r

(***************************************************************************)
(* Lemmas about sectors.                                                   *)
(***************************************************************************)

\* What \div is.
LEMMA Division ==
  ASSUME NEW a \in Nat, NEW b \in Nat \ {0}
  PROVE  /\ a \div b \in Nat
         /\ (a \div b) * b <= a
         /\ a < (a \div b) * b + b
  OBVIOUS

\* Multiplying by a positive number keeps the order.
LEMMA Multiplying ==
  ASSUME NEW p \in Nat, NEW q \in Nat, NEW b \in Nat \ {0}, p < q
  PROVE  p * b + b <= q * b
  OBVIOUS

\* A quotient is what lies between its multiples.
LEMMA Quotient ==
  ASSUME NEW a \in Nat, NEW b \in Nat \ {0}, NEW q \in Nat,
         q * b <= a, a < q * b + b
  PROVE  a \div b = q
<1> DEFINE p == a \div b
<1>1. p \in Nat /\ p * b <= a /\ a < p * b + b
  BY Division
<1> HIDE DEF p
<1>2. CASE p < q
  BY <1>1, <1>2, Multiplying
<1>3. CASE q < p
  BY <1>1, <1>3, Multiplying
<1> QED
  BY <1>1, <1>2, <1>3 DEF p

\* A position on the map is in a sector of the map.
LEMMA SectorIndex ==
  ASSUME NEW size \in Nat \ {0}, NEW b \in Nat \ {0}, size % b = 0,
         NEW v \in 0..size - 1
  PROVE  v \div b \in 0..(size \div b) - 1
<1> DEFINE m == size \div b
           q == v \div b
<1>1. m \in Nat /\ size = m * b
  OBVIOUS
<1>2. q \in Nat /\ q * b <= v
  BY Division
<1> HIDE DEF m, q
<1>3. CASE m < q
  BY <1>1, <1>2, <1>3, Multiplying
<1>4. CASE m = q
  BY <1>1, <1>2, <1>4
<1> QED
  BY <1>1, <1>2, <1>3, <1>4 DEF m, q

\* Two names that keep the divisions out of sight where they are not needed.
Tiled(size, b) == size % b = 0
SameSector(u, v, b) == u \div b = v \div b

\* One coordinate after a frame stays on the map, and a step that only meets
\* the wall stays in its sector.
LEMMA StepFacts ==
  ASSUME NEW size \in Nat \ {0}, NEW b \in Nat \ {0}, Tiled(size, b),
         NEW speed \in 1..b - 1, NEW v \in 0..size - 1, NEW d \in {-1, 0, 1}
  PROVE  /\ Step(v, d, speed, size) \in 0..size - 1
         /\ Clamped(v, d, speed, size) =>
              SameSector(Step(v, d, speed, size), v, b)
<1> USE DEF Tiled, SameSector
<1>1. CASE d = 0
  BY <1>1 DEF Step, Clamped
<1>2. CASE d = -1
  <2>1. Step(v, d, speed, size) = IF v <= speed THEN 0 ELSE v - speed
    BY <1>2 DEF Step
  <2>2. v <= speed => v \div b = 0
    BY Quotient
  <2>3. 0 \div b = 0
    BY Quotient
  <2> QED
    BY <1>2, <2>1, <2>2, <2>3 DEF Clamped
<1>3. CASE d = 1
  <2>1. Step(v, d, speed, size) = IF v >= size - speed THEN size - 1 ELSE v + speed
    BY <1>3 DEF Step
  <2>2. SUFFICES ASSUME v >= size - speed
                 PROVE  v \div b = (size - 1) \div b
    BY <1>3, <2>1 DEF Clamped
  <2> DEFINE m == size \div b
  <2>3. m \in Nat /\ size = m * b
    OBVIOUS
  <2> HIDE DEF m
  <2>4. m - 1 \in Nat
    BY <2>3
  <2> DEFINE q == m - 1
  <2>5. q \in Nat /\ q * b = size - b
    BY <2>3, <2>4
  <2> HIDE DEF q
  <2>6. v \in Nat /\ q * b <= v /\ v < q * b + b
    BY <2>2, <2>5
  <2>7. size - 1 \in Nat /\ q * b <= size - 1 /\ size - 1 < q * b + b
    BY <2>5
  <2>8. v \div b = q
    BY <2>5, <2>6, Quotient
  <2>9. (size - 1) \div b = q
    BY <2>5, <2>7, Quotient
  <2> QED
    BY <2>8, <2>9
<1> QED
  BY <1>1, <1>2, <1>3

LEMMA SectorOfType == \A p \in Positions : SectorOf(p) \in SectorPos
  BY FighterAssumption, SectorIndex
     DEF Positions, SectorOf, SectorPos, SECTOR_MAX_X, SECTOR_MAX_Y

LEMMA DirectionType == \A act : Dx(act) \in {-1, 0, 1} /\ Dy(act) \in {-1, 0, 1}
  BY DEF Dx, Dy

\* A frame leaves a character on the map; if the sector is not looked up
\* again, it is still the one of its position.
LEMMA NextPosFacts ==
  ASSUME NEW s \in Sessions, pos[s] \in Positions
  PROVE  /\ Next_Pos(s) \in Positions
         /\ ~Is_Move(s) => SectorOf(Next_Pos(s)) = SectorOf(pos[s])
<1> DEFINE dx == Dx(action[s])
           dy == Dy(action[s])
           px == pos[s].x
           py == pos[s].y
           x == Step(px, dx, SPEED_PLAYER_X, RANGE_MOVE_RIGHT)
           y == Step(py, dy, SPEED_PLAYER_Y, RANGE_MOVE_BOTTOM)
<1>1. px \in 0..RANGE_MOVE_RIGHT - 1 /\ py \in 0..RANGE_MOVE_BOTTOM - 1
  BY DEF Positions
<1>2. dx \in {-1, 0, 1} /\ dy \in {-1, 0, 1}
  BY DirectionType
<1>3. Next_Pos(s) = pos[s] \/ Next_Pos(s) = [x |-> x, y |-> y]
  BY DEF Next_Pos
<1>4. ~Is_Move(s) =>
        \/ Next_Pos(s) = pos[s]
        \/ /\ Clamped(px, dx, SPEED_PLAYER_X, RANGE_MOVE_RIGHT)
           /\ Clamped(py, dy, SPEED_PLAYER_Y, RANGE_MOVE_BOTTOM)
  BY DEF Is_Move
<1>5. /\ SECTOR_SIZE \in Nat \ {0}
      /\ RANGE_MOVE_RIGHT \in Nat \ {0} /\ Tiled(RANGE_MOVE_RIGHT, SECTOR_SIZE)
      /\ RANGE_MOVE_BOTTOM \in Nat \ {0} /\ Tiled(RANGE_MOVE_BOTTOM, SECTOR_SIZE)
      /\ SPEED_PLAYER_X \in 1..SECTOR_SIZE - 1
      /\ SPEED_PLAYER_Y \in 1..SECTOR_SIZE - 1
  BY FighterAssumption DEF Tiled
<1> HIDE DEF dx, dy, px, py
<1>6. /\ x \in 0..RANGE_MOVE_RIGHT - 1
      /\ Clamped(px, dx, SPEED_PLAYER_X, RANGE_MOVE_RIGHT) =>
           SameSector(x, px, SECTOR_SIZE)
  BY <1>1, <1>2, <1>5, StepFacts
<1>7. /\ y \in 0..RANGE_MOVE_BOTTOM - 1
      /\ Clamped(py, dy, SPEED_PLAYER_Y, RANGE_MOVE_BOTTOM) =>
           SameSector(y, py, SECTOR_SIZE)
  BY <1>1, <1>2, <1>5, StepFacts
<1> HIDE DEF x, y
<1>8. Next_Pos(s) \in Positions
  BY <1>3, <1>6, <1>7 DEF Positions
<1>9. ~Is_Move(s) => SectorOf(Next_Pos(s)) = SectorOf(pos[s])
  BY <1>3, <1>4, <1>6, <1>7 DEF SectorOf, SameSector, px, py
<1> QED
  BY <1>8, <1>9

(***************************************************************************)
(* The inductive invariant.                                                *)
(***************************************************************************)

\* Characters are on the map, in the sectors of their positions.
CharactersOK ==
  /\ connected \subseteq Sessions
  /\ pos \in [Sessions -> Positions] /\ cur_sector \in [Sessions -> SectorPos]
  /\ action \in [Sessions -> Actions] /\ hp \in [Sessions -> Int]
  /\ sectors \in [SectorPos -> SUBSET Sessions]
  /\ SectorsRight

\* Whoever is served or visited is connected: nobody leaves while main is in
\* ProcessNetIO or Update.
LoopOK ==
  /\ phase \in {"accept", "net", "update", "disconnect"}
  /\ todo \subseteq connected
  /\ phase = "disconnect" => todo = {}
  /\ serving \in Sessions \union {Nobody}
  /\ serving # Nobody => phase = "net" /\ serving \in todo

QueueOK ==
  /\ disconnect_queue \in Seq(Sessions)
  /\ flag_disconnect \in [Sessions -> BOOLEAN]
  /\ left \in 0..Len(disconnect_queue)
  /\ QueueExact

Running == CharactersOK /\ LoopOK /\ QueueOK

\* After OffMap: nothing is claimed of the sectors.
Stopped == phase = "undefined" /\ serving = Nobody /\ TypeOK /\ QueueOK

IInv == Running \/ Stopped

\* The map has a sector, and Origin is in one.
LEMMA OriginType == Origin \in Positions /\ SectorOf(Origin) = Origin
                    /\ Origin \in SectorPos
<1>1. RANGE_MOVE_RIGHT \in Nat \ {0} /\ RANGE_MOVE_BOTTOM \in Nat \ {0}
  BY FighterAssumption
<1>2. Origin \in Positions
  BY <1>1 DEF Origin, Positions
<1>3. 0 \div SECTOR_SIZE = 0
  BY FighterAssumption, Quotient
<1>4. SectorOf(Origin) = Origin
  BY <1>3 DEF SectorOf, Origin
<1> QED
  BY <1>2, <1>4, SectorOfType

\* The constructors leave no session, no character and an empty queue.
LEMMA InitInv == Init => Running
<1> SUFFICES ASSUME Init
             PROVE  Running
  OBVIOUS
<1>1. CharactersOK
  BY OriginType, FighterAssumption
     DEF Init, CharactersOK, SectorsRight, Actions
<1>2. LoopOK
  BY DEF Init, LoopOK
<1>3. QueueOK
  <2>1. disconnect_queue = <<>> /\ Len(disconnect_queue) = 0
        /\ DOMAIN disconnect_queue = {}
    BY DEF Init
  <2> QED
    BY <2>1, EmptySeq DEF Init, QueueOK, QueueExact, ToSet, IsInjective
<1> QED
  BY <1>1, <1>2, <1>3 DEF Running

\* Who is in some sectors is connected.
LEMMA OccupantsConnected ==
  ASSUME NEW C, NEW secs, NEW S \in SUBSET SectorPos,
         \A t \in SectorPos : secs[t] \subseteq C
  PROVE  Occupants(secs, S) \subseteq C
  BY DEF Occupants

LEMMA AroundType == \A t : Around(t) \subseteq SectorPos
  BY DEF Around

\* Input_DisconnectQ, for sessions that stay connected.
LEMMA QueueStep ==
  ASSUME QueueOK, connected \subseteq connected', connected' \subseteq Sessions,
         NEW S \in SUBSET connected',
         NEW order \in SetToSeqs({s \in S : ~flag_disconnect[s]}),
         disconnect_queue' = disconnect_queue \o order,
         flag_disconnect' = [s \in Sessions |-> flag_disconnect[s] \/ s \in S],
         left' = left
  PROVE  QueueOK'
<1> DEFINE added == {s \in S : ~flag_disconnect[s]}
<1>1. added \in SUBSET Sessions /\ IsFiniteSet(added)
  BY FS_Subset, FighterAssumption
<1>2. /\ disconnect_queue \in Seq(Sessions) /\ IsInjective(disconnect_queue)
      /\ added \intersect ToSet(disconnect_queue) = {}
  BY DEF QueueOK, QueueExact
<1> HIDE DEF added
<1>3. /\ disconnect_queue' \in Seq(Sessions)
      /\ IsInjective(disconnect_queue')
      /\ ToSet(disconnect_queue') = ToSet(disconnect_queue) \union added
      /\ Len(disconnect_queue') \in Nat /\ Len(disconnect_queue) \in Nat
      /\ Len(disconnect_queue) <= Len(disconnect_queue')
  BY <1>1, <1>2, AppendOrder DEF added
<1>4. left' \in 0..Len(disconnect_queue')
  BY <1>3 DEF QueueOK
<1>5. /\ ToSet(disconnect_queue') = {s \in Sessions : flag_disconnect'[s]}
      /\ ToSet(disconnect_queue') \subseteq connected'
  BY <1>1, <1>3 DEF QueueOK, QueueExact, added
<1>6. flag_disconnect' \in [Sessions -> BOOLEAN]
  OBVIOUS
<1> QED
  BY <1>3, <1>4, <1>5, <1>6 DEF QueueOK, QueueExact

\* A character goes to a position and the sector of that position.
LEMMA SectorStep ==
  ASSUME CharactersOK, NEW s \in connected, NEW at \in Positions,
         pos' = [pos EXCEPT ![s] = at],
         cur_sector' = [cur_sector EXCEPT ![s] = SectorOf(at)],
         sectors' = Moved(s, cur_sector[s], SectorOf(at)),
         connected' = connected,
         action' \in [Sessions -> Actions], hp' \in [Sessions -> Int]
  PROVE  CharactersOK'
<1>1. SectorOf(at) \in SectorPos
  BY SectorOfType
<1>2. /\ pos' \in [Sessions -> Positions] /\ cur_sector' \in [Sessions -> SectorPos]
      /\ sectors' \in [SectorPos -> SUBSET Sessions]
  BY <1>1 DEF CharactersOK, Moved
<1>3. SectorsRight'
  BY <1>1, <1>2 DEF CharactersOK, SectorsRight, Moved
<1> QED
  BY <1>2, <1>3 DEF CharactersOK

\* Every handler, with or without a blow: who sent the packet is in the sector
\* of its position, and only connected sessions are queued.
LEMMA HandleStep ==
  ASSUME Running, NEW s \in Sessions, NEW at \in Positions, NEW act \in Actions,
         NEW heard \in SUBSET SectorPos, Handle(s, at, act, heard),
         hp' \in [Sessions -> Int]
  PROVE  Running'
<1>1. /\ s \in connected /\ connected' = connected
      /\ UNCHANGED <<phase, todo, serving, left>>
  BY FighterAssumption DEF Handle, Accepts, Running, LoopOK, loop
<1>2. CharactersOK'
  <2>1. action' \in [Sessions -> Actions]
    BY DEF Handle, Running, CharactersOK
  <2> QED
    BY <1>1, <2>1, SectorStep DEF Handle, Running
<1>3. LoopOK'
  BY <1>1 DEF Running, LoopOK
<1>4. QueueOK'
  <2> DEFINE S == Around(cur_sector[s]) \union Around(SectorOf(at)) \union heard
  <2>1. Occupants(sectors', S) \subseteq connected'
    <3>1. S \subseteq SectorPos
      BY AroundType
    <3>2. \A t \in SectorPos : sectors'[t] \subseteq connected'
      BY <1>2 DEF CharactersOK, SectorsRight
    <3> QED
      BY <3>1, <3>2, OccupantsConnected
  <2>2. PICK full \in SUBSET Occupants(sectors', S) :
          /\ \E order \in SetToSeqs({q \in full : ~flag_disconnect[q]}) :
               disconnect_queue' = disconnect_queue \o order
          /\ flag_disconnect' = [q \in Sessions |-> flag_disconnect[q] \/ q \in full]
    BY DEF Handle, Send, Input_DisconnectQ
  <2>3. PICK order \in SetToSeqs({q \in full : ~flag_disconnect[q]}) :
          disconnect_queue' = disconnect_queue \o order
    BY <2>2
  <2>4. connected \subseteq connected' /\ connected' \subseteq Sessions
    BY <1>1 DEF Running, CharactersOK
  <2>5. full \in SUBSET connected'
    BY <2>1
  <2> QED
    BY <1>1, <2>2, <2>3, <2>4, <2>5, QueueStep DEF Running
<1> QED
  BY <1>2, <1>3, <1>4 DEF Running

\* One session is condemned by its own socket, its death or its silence.
LEMMA CondemnStep ==
  ASSUME Running, NEW s \in connected,
         Input_DisconnectQ({s}, disconnect_queue, told),
         UNCHANGED <<connected, left>>
  PROVE  QueueOK'
<1>1. PICK order \in SetToSeqs({q \in {s} : ~flag_disconnect[q]}) :
        disconnect_queue' = disconnect_queue \o order
  BY DEF Input_DisconnectQ
<1>2. flag_disconnect' = [q \in Sessions |-> flag_disconnect[q] \/ q \in {s}]
  BY DEF Input_DisconnectQ
<1>3. {s} \in SUBSET connected' /\ connected \subseteq connected'
      /\ connected' \subseteq Sessions /\ left' = left
  BY DEF Running, CharactersOK
<1> QED
  BY <1>1, <1>2, <1>3, QueueStep DEF Running

\* ProcAccept: the new character is in one sector, and it or those around may
\* be queued.
LEMMA AcceptStep ==
  ASSUME Running, NEW s \in Sessions, NEW at \in Positions, ProcAccept(s, at)
  PROVE  Running'
<1> DEFINE near == Occupants(sectors, Around(SectorOf(at)))
<1>1. /\ s \notin connected /\ connected' = connected \union {s}
      /\ UNCHANGED <<serving, left>>
      /\ phase = "accept" /\ phase' = "net" /\ todo' = connected
  BY DEF ProcAccept
<1>2. CharactersOK'
  <2>1. SectorOf(at) \in SectorPos
    BY SectorOfType
  <2>2. /\ pos' \in [Sessions -> Positions] /\ cur_sector' \in [Sessions -> SectorPos]
        /\ sectors' \in [SectorPos -> SUBSET Sessions]
        /\ action' \in [Sessions -> Actions] /\ hp' \in [Sessions -> Int]
        /\ connected' \subseteq Sessions
    BY <2>1, FighterAssumption DEF ProcAccept, Running, CharactersOK, Actions
  <2>3. SectorsRight'
    BY <2>1 DEF ProcAccept, Running, CharactersOK, SectorsRight
  <2> QED
    BY <2>2, <2>3 DEF CharactersOK
<1>3. LoopOK'
  BY <1>1 DEF Running, LoopOK
<1>4. QueueOK'
  <2>1. near \subseteq connected
    BY AroundType, OccupantsConnected DEF Running, CharactersOK, SectorsRight
  <2>2. PICK full \in SUBSET (near \union {s}) :
          /\ \E order \in SetToSeqs({q \in full : ~flag_disconnect[q]}) :
               disconnect_queue' = disconnect_queue \o order
          /\ flag_disconnect' = [q \in Sessions |-> flag_disconnect[q] \/ q \in full]
    BY DEF ProcAccept, Send, Input_DisconnectQ
  <2>3. PICK order \in SetToSeqs({q \in full : ~flag_disconnect[q]}) :
          disconnect_queue' = disconnect_queue \o order
    BY <2>2
  <2>4. connected \subseteq connected' /\ connected' \subseteq Sessions
        /\ full \in SUBSET connected'
    BY <1>1, <2>1 DEF Running, CharactersOK
  <2> QED
    BY <1>1, <2>2, <2>3, <2>4, QueueStep DEF Running
<1> QED
  BY <1>2, <1>3, <1>4 DEF Running

\* A frame of one character that is alive and not timed out.
LEMMA MoveStep ==
  ASSUME Running, NEW s \in Sessions, Move(s)
  PROVE  Running'
<1> DEFINE from == cur_sector[s]
           to == IF Is_Move(s) THEN SectorOf(Next_Pos(s)) ELSE from
<1>1. /\ s \in connected /\ connected' = connected /\ phase = "update"
      /\ todo' = todo \ {s} /\ UNCHANGED <<phase, serving, left, action, hp>>
  BY DEF Move, Frames, Running, LoopOK
<1>2. Next_Pos(s) \in Positions /\ to = SectorOf(Next_Pos(s))
  <2>1. pos[s] \in Positions /\ from = SectorOf(pos[s])
    BY <1>1, SectorOfType DEF Running, CharactersOK, SectorsRight
  <2> QED
    BY <2>1, NextPosFacts
<1>3. /\ pos' = [pos EXCEPT ![s] = Next_Pos(s)]
      /\ cur_sector' = [cur_sector EXCEPT ![s] = to]
      /\ sectors' = Moved(s, from, to)
      /\ from = to => UNCHANGED drops
      /\ from # to => Send(Occupants(sectors', Around(from) \union Around(to)),
                           CharacterSectorUpdate(s, from, to, sectors', action, told))
  BY DEF Move
<1> HIDE DEF to
<1>4. CharactersOK'
  <2>1. action' \in [Sessions -> Actions] /\ hp' \in [Sessions -> Int]
    BY <1>1 DEF Running, CharactersOK
  <2> QED
    BY <1>1, <1>2, <1>3, <2>1, SectorStep DEF Running
<1>5. LoopOK'
  BY <1>1 DEF Running, LoopOK
<1>6. QueueOK'
  <2>1. CASE from = to
    BY <1>1, <1>3, <2>1 DEF Running, QueueOK, QueueExact, drops
  <2>2. CASE from # to
    <3>1. Occupants(sectors', Around(from) \union Around(to)) \subseteq connected'
      <4>1. \A t \in SectorPos : sectors'[t] \subseteq connected'
        BY <1>4 DEF CharactersOK, SectorsRight
      <4> QED
        BY <4>1, AroundType, OccupantsConnected
    <3>2. PICK full \in SUBSET Occupants(sectors', Around(from) \union Around(to)) :
            /\ \E order \in SetToSeqs({q \in full : ~flag_disconnect[q]}) :
                 disconnect_queue' = disconnect_queue \o order
            /\ flag_disconnect' = [q \in Sessions |-> flag_disconnect[q] \/ q \in full]
      BY <1>3, <2>2 DEF Send, Input_DisconnectQ
    <3>3. PICK order \in SetToSeqs({q \in full : ~flag_disconnect[q]}) :
            disconnect_queue' = disconnect_queue \o order
      BY <3>2
    <3>4. connected \subseteq connected' /\ connected' \subseteq Sessions
          /\ full \in SUBSET connected'
      BY <1>1, <3>1 DEF Running, CharactersOK
    <3> QED
      BY <1>1, <3>2, <3>3, <3>4, QueueStep DEF Running
  <2> QED
    BY <2>1, <2>2
<1> QED
  BY <1>4, <1>5, <1>6 DEF Running

\* Disconnect_Session, one session: it leaves the map, the queue and the
\* flag together, and those who cannot be told are queued behind the others.
LEMMA DisconnectStep ==
  ASSUME Running, NEW s \in Sessions, DisconnectOne(s)
  PROVE  Running'
<1> DEFINE near == Occupants([sectors EXCEPT ![cur_sector[s]] = @ \ {s}],
                             Around(cur_sector[s]))
           rest == Tail(disconnect_queue)
<1>1. /\ phase = "disconnect" /\ left > 0 /\ s = Head(disconnect_queue)
      /\ left' = left - 1 /\ connected' = connected \ {s}
      /\ UNCHANGED <<phase, todo, serving>>
  BY DEF DisconnectOne
<1>2. /\ disconnect_queue \in Seq(Sessions) /\ disconnect_queue # <<>>
      /\ IsInjective(disconnect_queue)
      /\ left \in Nat /\ left <= Len(disconnect_queue)
      /\ Len(disconnect_queue) \in Nat
  <2>1. disconnect_queue \in Seq(Sessions) /\ IsInjective(disconnect_queue)
        /\ left \in 0..Len(disconnect_queue)
    BY DEF Running, QueueOK, QueueExact
  <2>2. Len(disconnect_queue) \in Nat
    BY <2>1, LenProperties
  <2>3. disconnect_queue # <<>>
    BY <1>1, <2>1, EmptySeq
  <2> QED
    BY <2>1, <2>2, <2>3
<1>3. /\ rest \in Seq(Sessions)
      /\ IsInjective(rest)
      /\ ToSet(rest) = ToSet(disconnect_queue) \ {s}
      /\ s \in ToSet(disconnect_queue)
      /\ Len(rest) = Len(disconnect_queue) - 1
  BY <1>1, <1>2, TailFacts
<1> HIDE DEF rest
<1>4. s \in connected
  BY <1>3 DEF Running, QueueOK, QueueExact
<1>5. CharactersOK'
  <2>1. /\ pos' \in [Sessions -> Positions] /\ cur_sector' \in [Sessions -> SectorPos]
        /\ sectors' \in [SectorPos -> SUBSET Sessions]
        /\ action' \in [Sessions -> Actions] /\ hp' \in [Sessions -> Int]
        /\ connected' \subseteq Sessions
    BY <1>1, OriginType, FighterAssumption
       DEF DisconnectOne, Running, CharactersOK, Actions
  <2>2. SectorsRight'
    BY <1>4 DEF DisconnectOne, Running, CharactersOK, SectorsRight
  <2> QED
    BY <2>1, <2>2 DEF CharactersOK
<1>6. LoopOK'
  BY <1>1 DEF Running, LoopOK
<1>7. QueueOK'
  <2>1. near \subseteq connected \ {s}
    <3>1. \A t \in SectorPos :
            [sectors EXCEPT ![cur_sector[s]] = @ \ {s}][t] \subseteq connected \ {s}
      BY <1>4 DEF Running, CharactersOK, SectorsRight
    <3> QED
      BY <3>1, AroundType, OccupantsConnected
  <2>2. PICK full \in SUBSET near :
          /\ \E order \in SetToSeqs({q \in full : ~flag_disconnect[q]}) :
               disconnect_queue' = rest \o order
          /\ flag_disconnect' = [q \in Sessions |->
               q # s /\ (flag_disconnect[q] \/ q \in full)]
    BY DEF DisconnectOne, rest
  <2> DEFINE added == {q \in full : ~flag_disconnect[q]}
  <2>3. PICK order \in SetToSeqs(added) :
          disconnect_queue' = rest \o order
    BY <2>2
  <2>4. /\ added \in SUBSET Sessions /\ added \subseteq connected \ {s}
        /\ added \intersect ToSet(rest) = {}
    BY <1>3, <2>1 DEF Running, CharactersOK, QueueOK, QueueExact
  <2>5. IsFiniteSet(added)
    BY <2>4, FS_Subset, FighterAssumption
  <2>6. /\ \A q \in Sessions : flag_disconnect[q] <=> q \in ToSet(disconnect_queue)
        /\ ToSet(disconnect_queue) \subseteq connected
    BY DEF Running, QueueOK, QueueExact
  <2>7. \A q \in Sessions : flag_disconnect'[q] <=>
          q # s /\ (q \in ToSet(disconnect_queue) \/ q \in added)
    BY <2>2, <2>6
  <2> HIDE DEF added
  <2>8. /\ disconnect_queue' \in Seq(Sessions)
        /\ IsInjective(disconnect_queue')
        /\ ToSet(disconnect_queue') = ToSet(rest) \union added
        /\ Len(disconnect_queue') \in Nat
        /\ Len(rest) <= Len(disconnect_queue')
    BY <1>3, <2>3, <2>4, <2>5, AppendOrder
  <2>9. left' \in 0..Len(disconnect_queue')
    BY <1>1, <1>2, <1>3, <2>8
  <2>10. /\ ToSet(disconnect_queue') = {q \in Sessions : flag_disconnect'[q]}
         /\ ToSet(disconnect_queue') \subseteq connected'
         /\ flag_disconnect' \in [Sessions -> BOOLEAN]
    <3>1. ToSet(disconnect_queue') \subseteq connected'
      BY <1>1, <1>3, <2>4, <2>6, <2>8
    <3>2. connected' \subseteq Sessions
      BY <1>5 DEF CharactersOK
    <3>3. flag_disconnect' \in [Sessions -> BOOLEAN]
      BY <2>2
    <3>4. \A q \in Sessions : flag_disconnect'[q] <=> q \in ToSet(disconnect_queue')
      BY <1>3, <2>4, <2>7, <2>8
    <3> QED
      BY <3>1, <3>2, <3>3, <3>4
  <2> QED
    BY <2>8, <2>9, <2>10 DEF QueueOK, QueueExact
<1> QED
  BY <1>5, <1>6, <1>7 DEF Running

\* Steps that touch no character and no queue.
LEMMA QuietStep ==
  ASSUME Running, UNCHANGED <<connected, character, drops>>,
         LoopOK', left' \in 0..Len(disconnect_queue)
  PROVE  Running'
<1>1. CharactersOK'
  BY DEF Running, CharactersOK, SectorsRight, character
<1>2. QueueOK'
  BY DEF Running, QueueOK, QueueExact, drops
<1> QED
  BY <1>1, <1>2 DEF Running

\* Steps that condemn the session they are at.
LEMMA CondemningStep ==
  ASSUME Running, NEW s \in connected,
         Input_DisconnectQ({s}, disconnect_queue, told),
         UNCHANGED <<connected, character, left>>, LoopOK'
  PROVE  Running'
<1>1. CharactersOK'
  BY DEF Running, CharactersOK, SectorsRight, character
<1> QED
  BY <1>1, CondemnStep DEF Running

\* A packet that takes a character off the map.
TakenOff == \E s \in Sessions, at \in Sent, act \in Moves \union {"STOP"} :
              OffMap(s, at, act)

\* Every other step of the server preserves the invariant.
LEMMA RunningStep == Running /\ [Next]_vars => Running' \/ TakenOff
<1> SUFFICES ASSUME Running, [Next]_vars, ~TakenOff
             PROVE  Running'
  OBVIOUS
<1>0. Len(disconnect_queue) \in Nat /\ left \in 0..Len(disconnect_queue)
  BY LenProperties DEF Running, QueueOK
<1>1. CASE NoAccept
  BY <1>0, <1>1, QuietStep DEF NoAccept, Running, LoopOK, CharactersOK
<1>2. ASSUME NEW s \in Sessions, NEW at \in Positions, ProcAccept(s, at)
      PROVE  Running'
  BY <1>2, AcceptStep
<1>3. ASSUME NEW s \in Sessions, NotReady(s)
      PROVE  Running'
  BY <1>0, <1>3, QuietStep DEF NotReady, Visits, Running, LoopOK
<1>4. ASSUME NEW s \in Sessions, SendFails(s)
      PROVE  Running'
  BY <1>4, CondemningStep DEF SendFails, Visits, Running, LoopOK
<1>5. ASSUME NEW s \in Sessions, RecvEnds(s)
      PROVE  Running'
  BY <1>5, CondemningStep DEF RecvEnds, Visits, Running, LoopOK
<1>6. ASSUME NEW s \in Sessions, RecvSome(s)
      PROVE  Running'
  BY <1>0, <1>6, QuietStep DEF RecvSome, Visits, Running, LoopOK
<1>7. ASSUME NEW s \in Sessions, RecvDone(s)
      PROVE  Running'
  BY <1>0, <1>7, QuietStep DEF RecvDone, Running, LoopOK
<1>8. ASSUME NEW s \in Sessions, RecvBad(s)
      PROVE  Running'
  <2>1. s \in connected /\ LoopOK'
    BY <1>8, FighterAssumption DEF RecvBad, Running, LoopOK
  <2> QED
    BY <1>8, <2>1, CondemningStep DEF RecvBad
<1>9. ASSUME NEW s \in Sessions, NEW at \in Positions, NEW act \in Moves,
             MoveStart(s, at, act)
      PROVE  Running'
  <2>1. act \in Actions /\ hp' \in [Sessions -> Int]
    BY <1>9, FighterAssumption DEF MoveStart, Running, CharactersOK
  <2> QED
    BY <1>9, <2>1, HandleStep DEF MoveStart
<1>10. ASSUME NEW s \in Sessions, NEW at \in Positions, MoveStop(s, at)
       PROVE  Running'
  <2>1. "STOP" \in Actions /\ hp' \in [Sessions -> Int]
    BY <1>10 DEF MoveStop, Running, CharactersOK, Actions
  <2> QED
    BY <1>10, <2>1, HandleStep DEF MoveStop
<1>11. ASSUME NEW s \in Sessions, NEW at \in Positions, NEW dir \in {"LL", "RR"},
              Attack(s, at, dir)
       PROVE  Running'
  <2>1. PICK heard \in SUBSET SectorPos : Handle(s, at, "STOP", heard)
    BY <1>11, AroundType DEF Attack
  <2>2. "STOP" \in Actions
    BY DEF Actions
  <2>3. hp' \in [Sessions -> Int]
    BY <1>11, FighterAssumption DEF Attack, Running, CharactersOK
  <2> QED
    BY <2>1, <2>2, <2>3, HandleStep
<1>12. CASE EndNet
  BY <1>0, <1>12, QuietStep DEF EndNet, Running, LoopOK
<1>13. CASE EndUpdate
  BY <1>0, <1>13, QuietStep DEF EndUpdate, Running, LoopOK
<1>14. ASSUME NEW s \in Sessions, Dies(s)
       PROVE  Running'
  BY <1>14, CondemningStep DEF Dies, Frames, Running, LoopOK
<1>15. ASSUME NEW s \in Sessions, TimesOut(s)
       PROVE  Running'
  BY <1>15, CondemningStep DEF TimesOut, Frames, Running, LoopOK
<1>16. ASSUME NEW s \in Sessions, Move(s)
       PROVE  Running'
  BY <1>16, MoveStep
<1>17. CASE EndDisconnect
  BY <1>0, <1>17, QuietStep DEF EndDisconnect, Running, LoopOK
<1>18. ASSUME NEW s \in Sessions, DisconnectOne(s)
       PROVE  Running'
  BY <1>18, DisconnectStep
<1>19. CASE UNCHANGED vars
  BY <1>0, <1>19, QuietStep DEF vars, loop, Running, LoopOK
<1> QED
  BY <1>1, <1>2, <1>3, <1>4, <1>5, <1>6, <1>7, <1>8, <1>9, <1>10, <1>11, <1>12,
     <1>13, <1>14, <1>15, <1>16, <1>17, <1>18, <1>19
     DEF Next, ProcessNetIO, Update, Disconnect_Session, Echo, Gone, TakenOff

\* A position of the map is one a client may send.
LEMMA SentFacts == Positions \subseteq Sent
  BY FighterAssumption DEF Positions, Sent

\* While the server runs, the values are those of TypeOK.
LEMMA RunningType == Running => TypeOK
  BY SentFacts DEF Running, CharactersOK, LoopOK, QueueOK, TypeOK

LEMMA TakenOffStep == Running /\ TakenOff => Stopped'
<1> SUFFICES ASSUME Running, NEW s \in Sessions, NEW at \in Sent,
                    NEW act \in Moves \union {"STOP"}, OffMap(s, at, act)
             PROVE  Stopped'
  BY DEF TakenOff
<1>1. /\ pos' = [pos EXCEPT ![s] = at] /\ action' = [action EXCEPT ![s] = act]
      /\ phase' = "undefined" /\ serving' = Nobody
      /\ UNCHANGED <<connected, cur_sector, hp, sectors, flag_disconnect,
                      disconnect_queue, todo, left>>
  BY DEF OffMap, drops
<1>2. act \in Actions
  BY FighterAssumption DEF Actions
<1>3. TypeOK'
  BY <1>1, <1>2, RunningType DEF TypeOK
<1>4. QueueOK'
  BY <1>1 DEF Running, QueueOK, QueueExact
<1> QED
  BY <1>1, <1>3, <1>4 DEF Stopped

\* Then nothing happens any more.
LEMMA StoppedStep == Stopped /\ [Next]_vars => UNCHANGED vars
<1> SUFFICES ASSUME Stopped, Next
             PROVE  UNCHANGED vars
  OBVIOUS
<1>1. phase = "undefined" /\ \A s \in Sessions : serving # s
  BY FighterAssumption DEF Stopped
<1>2. ~Update /\ ~Disconnect_Session
  BY <1>1 DEF Update, EndUpdate, Dies, TimesOut, Move, Frames,
              Disconnect_Session, EndDisconnect, DisconnectOne
<1>3. ~NoAccept /\ ~EndNet /\ \A s, at : ~ProcAccept(s, at)
  BY <1>1 DEF NoAccept, EndNet, ProcAccept
<1>4. ASSUME NEW s \in Sessions
      PROVE  /\ ~NotReady(s) /\ ~SendFails(s) /\ ~RecvEnds(s) /\ ~RecvSome(s)
             /\ ~RecvDone(s) /\ ~RecvBad(s) /\ ~Echo(s)
             /\ \A at, act : ~OffMap(s, at, act) /\ ~Handle(s, at, act, {})
             /\ \A at, dir : ~Attack(s, at, dir)
  BY <1>1 DEF NotReady, SendFails, RecvEnds, RecvSome, Visits, RecvDone, RecvBad,
              Echo, OffMap, Handle, Attack, Accepts
<1> QED
  BY <1>2, <1>3, <1>4 DEF Next, ProcessNetIO, MoveStart, MoveStop, Gone

\* Every step of the server preserves the invariant.
LEMMA StepInv == IInv /\ [Next]_vars => IInv'
<1>1. ASSUME Running, [Next]_vars
      PROVE  IInv'
  BY <1>1, RunningStep, TakenOffStep DEF IInv
<1>2. ASSUME Stopped, [Next]_vars
      PROVE  IInv'
  <2>1. UNCHANGED vars
    BY <1>2, StoppedStep
  <2> QED
    BY <1>2, <2>1 DEF vars, character, drops, loop, IInv, Stopped, TypeOK,
                      QueueOK, QueueExact
<1> QED
  BY <1>1, <1>2 DEF IInv

(***************************************************************************)
(* What the clients were told.                                             *)
(***************************************************************************)

Views == [Sessions -> [Sessions -> Actions \union {"absent"}]]

ViewsOK == told \in Views /\ ToldRight

\* Being around is mutual.
LEMMA AroundFacts ==
  /\ \A t, u \in SectorPos : u \in Around(t) <=> t \in Around(u)
  /\ \A t \in SectorPos : t \in Around(t)
<1>1. \A t \in SectorPos : t.x \in Int /\ t.y \in Int
  BY DEF SectorPos
<1> QED
  BY <1>1 DEF Around

\* Two coordinates less than a sector apart are in the same or neighbouring
\* sectors.
LEMMA NearIndex ==
  ASSUME NEW a \in Nat, NEW c \in Nat, NEW b \in Nat \ {0}, NEW r \in 1..b - 1,
         a - c \in -r..r
  PROVE  a \div b - c \div b \in -1..1
<1> DEFINE p == a \div b
           q == c \div b
<1>1. /\ p \in Nat /\ p * b <= a /\ a < p * b + b
      /\ q \in Nat /\ q * b <= c /\ c < q * b + b
  BY Division
<1> HIDE DEF p, q
<1>2. CASE q + 1 < p
  <2>1. (q + 1) * b + b <= p * b
    BY <1>1, <1>2, Multiplying
  <2>2. (q + 1) * b = q * b + b
    BY <1>1
  <2>3. q * b \in Int /\ p * b \in Int
    BY <1>1
  <2> QED
    BY <1>1, <2>1, <2>2, <2>3
<1>3. CASE p + 1 < q
  <2>1. (p + 1) * b + b <= q * b
    BY <1>1, <1>3, Multiplying
  <2>2. (p + 1) * b = p * b + b
    BY <1>1
  <2>3. q * b \in Int /\ p * b \in Int
    BY <1>1
  <2> QED
    BY <1>1, <2>1, <2>2, <2>3
<1> QED
  BY <1>1, <1>2, <1>3 DEF p, q

\* Who moves less than a sector goes to a sector around its own.
LEMMA NearSector ==
  ASSUME NEW p \in Positions, NEW q \in Positions,
         NEW rx \in 1..SECTOR_SIZE - 1, NEW ry \in 1..SECTOR_SIZE - 1,
         q.x - p.x \in -rx..rx, q.y - p.y \in -ry..ry
  PROVE  SectorOf(q) \in Around(SectorOf(p))
<1> DEFINE px == p.x
           py == p.y
           qx == q.x
           qy == q.y
<1>1. px \in Nat /\ py \in Nat /\ qx \in Nat /\ qy \in Nat
      /\ SECTOR_SIZE \in Nat \ {0}
  BY FighterAssumption DEF Positions
<1>2. qx - px \in -rx..rx /\ qy - py \in -ry..ry
  OBVIOUS
<1> HIDE DEF px, py, qx, qy
<1>3. qx \div SECTOR_SIZE - px \div SECTOR_SIZE \in -1..1
  BY <1>1, <1>2, NearIndex
<1>4. qy \div SECTOR_SIZE - py \div SECTOR_SIZE \in -1..1
  BY <1>1, <1>2, NearIndex
<1>5. SectorOf(q) \in SectorPos
  BY SectorOfType
<1> QED
  BY <1>3, <1>4, <1>5 DEF Around, SectorOf, px, py, qx, qy

\* A frame moves nobody further than its speed.
LEMMA NextPosNear ==
  ASSUME NEW s \in Sessions, pos[s] \in Positions
  PROVE  SectorOf(Next_Pos(s)) \in Around(SectorOf(pos[s]))
<1> DEFINE n == Next_Pos(s)
<1>1. /\ SPEED_PLAYER_X \in 1..SECTOR_SIZE - 1
      /\ SPEED_PLAYER_Y \in 1..SECTOR_SIZE - 1
      /\ RANGE_MOVE_RIGHT \in Nat /\ RANGE_MOVE_BOTTOM \in Nat
      /\ SECTOR_SIZE \in Nat
  BY FighterAssumption
<1>2. /\ pos[s].x \in 0..RANGE_MOVE_RIGHT - 1
      /\ pos[s].y \in 0..RANGE_MOVE_BOTTOM - 1
  BY DEF Positions
<1>3. n \in Positions
  BY NextPosFacts
<1>4. n.x - pos[s].x \in -SPEED_PLAYER_X..SPEED_PLAYER_X
  BY <1>1, <1>2, DirectionType DEF Next_Pos, Step
<1>5. n.y - pos[s].y \in -SPEED_PLAYER_Y..SPEED_PLAYER_Y
  BY <1>1, <1>2, DirectionType DEF Next_Pos, Step
<1> QED
  BY <1>1, <1>3, <1>4, <1>5, NearSector

\* c is on q's screen, or should be.
Sees(q, c) ==
  c # q /\ c \in connected /\ cur_sector[c] \in Around(cur_sector[q])

\* CharacterSectorUpdate shows to both sides whom it brings together and
\* takes away whom it parts, and itself to nobody.
LEMMA SectorUpdateViews ==
  ASSUME CharactersOK, CharactersOK', ViewsOK, NEW s \in connected,
         NEW from, from = cur_sector[s],
         NEW to \in SectorPos, to \in Around(from),
         connected' = connected, cur_sector' = [cur_sector EXCEPT ![s] = to],
         \A c \in Sessions \ {s} : action'[c] = action[c],
         NEW view,
         view = CharacterSectorUpdate(s, from, to, sectors', action', told)
  PROVE  /\ view \in Views
         /\ \A q \in connected : ~flag_disconnect[q] => \A c \in Sessions :
              view[q][c] \in IF Sees(q, c)' THEN {action[c], action'[c]}
                                            ELSE {"absent"}
<1> DEFINE remove == Occupants(sectors', Around(from) \ Around(to))
           add == Occupants(sectors', Around(to) \ Around(from))
<1>1. \A c \in connected : cur_sector[c] \in SectorPos /\ c \in Sessions
  BY DEF CharactersOK
<1>2. remove = {c \in connected : cur_sector'[c] \in Around(from) \ Around(to)}
  <2> DEFINE S == Around(from) \ Around(to)
  <2>1. S \in SUBSET SectorPos
    BY AroundType
  <2>2. \A t \in SectorPos : sectors'[t] = {c \in connected' : cur_sector'[c] = t}
    BY DEF CharactersOK, SectorsRight
  <2> HIDE DEF S
  <2>3. \A c : c \in Occupants(sectors', S) <=>
               c \in connected' /\ cur_sector'[c] \in S
    BY <2>1, <2>2 DEF Occupants
  <2> QED
    BY <2>3 DEF S
<1>3. add = {c \in connected : cur_sector'[c] \in Around(to) \ Around(from)}
  <2> DEFINE S == Around(to) \ Around(from)
  <2>1. S \in SUBSET SectorPos
    BY AroundType
  <2>2. \A t \in SectorPos : sectors'[t] = {c \in connected' : cur_sector'[c] = t}
    BY DEF CharactersOK, SectorsRight
  <2> HIDE DEF S
  <2>3. \A c : c \in Occupants(sectors', S) <=>
               c \in connected' /\ cur_sector'[c] \in S
    BY <2>1, <2>2 DEF Occupants
  <2> QED
    BY <2>3 DEF S
<1>4. view = [q \in Sessions |-> [c \in Sessions |->
                CASE (c = s /\ q \in remove) \/ (q = s /\ c \in remove) -> "absent"
                  [] (c = s /\ q \in add) \/ (q = s /\ c \in add) -> action'[c]
                  [] OTHER -> told[q][c]]]
  BY Zenon DEF CharacterSectorUpdate
<1> HIDE DEF remove, add
<1>5. view \in Views
  <2>1. \A c \in Sessions : action'[c] \in Actions
    BY DEF CharactersOK
  <2> QED
    BY <1>4, <2>1 DEF ViewsOK, Views
<1>6. from \in SectorPos /\ from \in Around(to) /\ to \in Around(to)
      /\ from \in Around(from)
  BY <1>1, AroundFacts
<1>7. s \notin remove /\ s \notin add
  BY <1>1, <1>2, <1>3, <1>6 DEF CharactersOK
<1>8. ASSUME NEW q \in connected, ~flag_disconnect[q], NEW c \in Sessions
      PROVE  view[q][c] \in IF Sees(q, c)' THEN {action[c], action'[c]}
                                           ELSE {"absent"}
  <2>1. told[q][c] = IF Sees(q, c) THEN action[c] ELSE "absent"
    BY <1>8 DEF ViewsOK, ToldRight, Sees
  <2>2. cur_sector'[s] = to /\ \A d \in Sessions \ {s} : cur_sector'[d] = cur_sector[d]
    BY <1>1 DEF CharactersOK
  <2>3. view[q][c] =
          CASE (c = s /\ q \in remove) \/ (q = s /\ c \in remove) -> "absent"
            [] (c = s /\ q \in add) \/ (q = s /\ c \in add) -> action'[c]
            [] OTHER -> told[q][c]
    <3>1. q \in Sessions /\ c \in Sessions
      BY <1>1
    <3> QED
      BY <1>4, <3>1, Zenon
  <2>4. CASE q # s /\ c # s
    BY <1>1, <2>1, <2>2, <2>3, <2>4 DEF Sees
  <2>5. CASE q = s /\ c = s
    BY <1>7, <2>1, <2>3, <2>5 DEF Sees
  <2>6. CASE q # s /\ c = s
    <3>1. q \in remove <=> cur_sector[q] \in Around(from) \ Around(to)
      BY <1>1, <1>2, <2>2, <2>6
    <3>2. q \in add <=> cur_sector[q] \in Around(to) \ Around(from)
      BY <1>1, <1>3, <2>2, <2>6
    <3>3. Sees(q, c)' <=> cur_sector[q] \in Around(to)
      BY <1>1, <2>2, <2>6, AroundFacts DEF Sees
    <3>4. Sees(q, c) <=> cur_sector[q] \in Around(from)
      BY <1>1, <1>6, <2>6, AroundFacts DEF Sees
    <3> QED
      BY <2>1, <2>3, <2>6, <3>1, <3>2, <3>3, <3>4
  <2>7. CASE q = s /\ c # s
    <3>1. c \in remove <=> c \in connected /\ cur_sector[c] \in Around(from) \ Around(to)
      BY <1>2, <2>2, <2>7
    <3>2. c \in add <=> c \in connected /\ cur_sector[c] \in Around(to) \ Around(from)
      BY <1>3, <2>2, <2>7
    <3>3. Sees(q, c)' <=> c \in connected /\ cur_sector[c] \in Around(to)
      BY <2>2, <2>7 DEF Sees
    <3>4. Sees(q, c) <=> c \in connected /\ cur_sector[c] \in Around(from)
      BY <2>7 DEF Sees
    <3> QED
      BY <2>1, <2>3, <2>7, <3>1, <3>2, <3>3, <3>4
  <2> QED
    BY <2>4, <2>5, <2>6, <2>7
<1> QED
  BY <1>5, <1>8

\* What Input_DisconnectQ leaves of a view: the views of those not flagged.
LEMMA KeepViews ==
  ASSUME NEW view \in Views,
         told' = [q \in Sessions |-> IF flag_disconnect'[q] THEN Blank ELSE view[q]],
         connected' \subseteq Sessions,
         \A q \in connected' : ~flag_disconnect'[q] => \A c \in Sessions :
           view[q][c] = IF Sees(q, c)' THEN action'[c] ELSE "absent"
  PROVE  ViewsOK'
<1>1. Blank \in [Sessions -> Actions \union {"absent"}]
  BY DEF Blank
<1>2. told' \in Views
  BY <1>1 DEF Views
<1>3. \A q \in connected' : ~flag_disconnect'[q] => told'[q] = view[q]
  OBVIOUS
<1> QED
  BY <1>2, <1>3 DEF ViewsOK, ToldRight, Sees

\* Every handler leaves the screens of all clients right.
LEMMA HandleViews ==
  ASSUME Running, Running', ViewsOK, NEW s \in Sessions, NEW at \in Positions,
         NEW act \in Actions, NEW heard, Handle(s, at, act, heard)
  PROVE  ViewsOK'
<1> DEFINE from == cur_sector[s]
           to == SectorOf(at)
           secs == Moved(s, from, to)
           acts == [action EXCEPT ![s] = act]
           view0 == IF from = to THEN told
                    ELSE CharacterSectorUpdate(s, from, to, secs, acts, told)
           recipients == Occupants(secs, Around(to))
           view1 == Announce(s, recipients, act, view0)
<1>1. /\ s \in connected /\ connected' = connected /\ connected \subseteq Sessions
      /\ cur_sector' = [cur_sector EXCEPT ![s] = to]
      /\ action' = acts /\ sectors' = secs
  BY FighterAssumption DEF Handle, Accepts, Running, LoopOK, CharactersOK
<1>2. /\ from \in SectorPos /\ to \in SectorPos /\ to \in Around(from)
      /\ cur_sector \in [Sessions -> SectorPos]
      /\ cur_sector' \in [Sessions -> SectorPos]
      /\ action \in [Sessions -> Actions]
  <2>1. pos[s] \in Positions /\ from = SectorOf(pos[s])
    BY <1>1, SectorOfType DEF Running, CharactersOK, SectorsRight
  <2>2. to \in Around(SectorOf(pos[s]))
    BY <2>1, NearSector, FighterAssumption DEF Handle, Accepts
  <2> QED
    BY <2>1, <2>2, SectorOfType DEF Running, CharactersOK
<1>3. \E full : told' = [q \in Sessions |->
                           IF flag_disconnect'[q] THEN Blank ELSE view1[q]]
                /\ flag_disconnect' =
                     [q \in Sessions |-> flag_disconnect[q] \/ q \in full]
  BY DEF Handle, Send, Input_DisconnectQ
<1> HIDE DEF secs
<1>4. \A q \in connected : cur_sector'[q] \in Around(to) => q \in recipients
  <2>1. \A t \in SectorPos : sectors'[t] = {c \in connected' : cur_sector'[c] = t}
    BY DEF Running, CharactersOK, SectorsRight
  <2>2. Around(to) \subseteq SectorPos
    BY AroundType
  <2> QED
    BY <1>1, <2>1, <2>2 DEF Occupants
<1>5. /\ view0 \in Views
      /\ \A q \in connected : ~flag_disconnect[q] => \A c \in Sessions :
           view0[q][c] \in IF Sees(q, c)' THEN {action[c], action'[c]}
                                          ELSE {"absent"}
  <2>1. CASE from = to
    <3>1. cur_sector' = cur_sector
      BY <1>1, <1>2, <2>1
    <3>2. \A q, c : Sees(q, c)' <=> Sees(q, c)
      BY <1>1, <3>1 DEF Sees
    <3> QED
      BY <2>1, <3>2 DEF ViewsOK, ToldRight, Sees
  <2>2. CASE from # to
    <3>1. view0 = CharacterSectorUpdate(s, from, to, secs, acts, told)
      BY <2>2
    <3>2. \A c \in Sessions \ {s} : action'[c] = action[c]
      BY <1>1, <1>2
    <3> HIDE DEF view0
    <3>3. view0 = CharacterSectorUpdate(s, from, to, sectors', action', told)
      BY <1>1, <3>1
    <3> QED
      BY <1>1, <1>2, <3>2, <3>3, SectorUpdateViews DEF Running
  <2> QED
    BY <2>1, <2>2
<1> HIDE DEF view0, recipients
<1>6. view1 \in Views
  BY <1>5 DEF Announce, Views
<1>7. ASSUME NEW q \in connected, ~flag_disconnect[q], NEW c \in Sessions
      PROVE  view1[q][c] = IF Sees(q, c)' THEN action'[c] ELSE "absent"
  <2>1. view0[q][c] \in IF Sees(q, c)' THEN {action[c], action'[c]} ELSE {"absent"}
    BY <1>5, <1>7
  <2>2. q \in Sessions /\ view0[q] \in [Sessions -> Actions \union {"absent"}]
    BY <1>1, <1>5 DEF Views
  <2>3. view1[q] = IF q \in recipients /\ view0[q][s] # "absent"
                     THEN [view0[q] EXCEPT ![s] = act] ELSE view0[q]
    BY <2>2 DEF Announce
  <2>4. CASE c # s
    BY <1>1, <1>2, <2>1, <2>2, <2>3, <2>4
  <2>5. CASE c = s
    <3>1. Sees(q, s)' => q \in recipients
      BY <1>1, <1>2, <1>4, <2>2, AroundFacts DEF Sees
    <3>2. action[s] # "absent" /\ action'[s] # "absent" /\ action'[s] = act
      BY <1>1, <1>2 DEF Actions
    <3> QED
      BY <2>1, <2>2, <2>3, <2>5, <3>1, <3>2
  <2> QED
    BY <2>4, <2>5
<1> HIDE DEF view1
<1>8. \A q \in connected' : ~flag_disconnect'[q] => ~flag_disconnect[q]
  BY <1>1, <1>3
<1> QED
  BY <1>1, <1>3, <1>6, <1>7, <1>8, KeepViews

\* A frame shows a character to those it comes to and takes it from those it
\* leaves, and them from it.
LEMMA MoveViews ==
  ASSUME Running, Running', ViewsOK, NEW s \in Sessions, Move(s)
  PROVE  ViewsOK'
<1> DEFINE from == cur_sector[s]
           to == IF Is_Move(s) THEN SectorOf(Next_Pos(s)) ELSE from
           view0 == CharacterSectorUpdate(s, from, to, sectors', action', told)
<1>1. /\ s \in connected /\ connected' = connected /\ connected \subseteq Sessions
      /\ cur_sector' = [cur_sector EXCEPT ![s] = to] /\ action' = action
  BY DEF Move, Frames, Running, LoopOK, CharactersOK
<1>2. /\ from \in SectorPos /\ to \in SectorPos /\ to \in Around(from)
      /\ cur_sector \in [Sessions -> SectorPos]
  <2>1. pos[s] \in Positions /\ from = SectorOf(pos[s]) /\ from \in SectorPos
    BY <1>1, SectorOfType DEF Running, CharactersOK, SectorsRight
  <2>2. Next_Pos(s) \in Positions /\ SectorOf(Next_Pos(s)) \in Around(from)
    BY <2>1, NextPosFacts, NextPosNear
  <2>3. from \in Around(from)
    BY <2>1, AroundFacts
  <2> QED
    BY <2>1, <2>2, <2>3, SectorOfType DEF Running, CharactersOK
<1>3. CASE from = to
  <2>1. cur_sector' = cur_sector /\ UNCHANGED <<drops, told>>
    BY <1>1, <1>2, <1>3 DEF Move
  <2>2. \A q, c : Sees(q, c)' <=> Sees(q, c)
    BY <1>1, <2>1 DEF Sees
  <2> QED
    BY <1>1, <2>1, <2>2 DEF ViewsOK, ToldRight, Sees, drops
<1>4. CASE from # to
  <2>1. \E full : told' = [q \in Sessions |->
                             IF flag_disconnect'[q] THEN Blank ELSE view0[q]]
                  /\ flag_disconnect' =
                       [q \in Sessions |-> flag_disconnect[q] \/ q \in full]
    <3>1. sectors' = Moved(s, from, to)
      BY DEF Move
    <3>2. Send(Occupants(sectors', Around(from) \union Around(to)),
               CharacterSectorUpdate(s, from, to, sectors', action, told))
      BY <1>4, <3>1 DEF Move
    <3>3. Send(Occupants(sectors', Around(from) \union Around(to)), view0)
      BY <1>1, <3>2
    <3> HIDE DEF view0
    <3> QED
      BY <3>3 DEF Send, Input_DisconnectQ
  <2> HIDE DEF to
  <2>2. view0 = CharacterSectorUpdate(s, from, to, sectors', action', told)
    OBVIOUS
  <2> HIDE DEF view0
  <2>3. /\ view0 \in Views
        /\ \A q \in connected : ~flag_disconnect[q] => \A c \in Sessions :
             view0[q][c] \in IF Sees(q, c)' THEN {action[c], action'[c]}
                                            ELSE {"absent"}
    BY <1>1, <1>2, <2>2, SectorUpdateViews DEF Running
  <2>4. \A q \in connected' : ~flag_disconnect'[q] => ~flag_disconnect[q]
    BY <1>1, <2>1
  <2>5. \A q \in connected' : ~flag_disconnect'[q] => \A c \in Sessions :
          view0[q][c] = IF Sees(q, c)' THEN action'[c] ELSE "absent"
    BY <1>1, <2>3, <2>4
  <2> QED
    BY <1>1, <2>1, <2>3, <2>5, KeepViews
<1> QED
  BY <1>3, <1>4

\* ProcAccept: the newcomer and those around are shown to each other.
LEMMA AcceptViews ==
  ASSUME Running, Running', ViewsOK, NEW s \in Sessions, NEW at \in Positions,
         ProcAccept(s, at)
  PROVE  ViewsOK'
<1> DEFINE to == SectorOf(at)
           near == Occupants(sectors, Around(to))
           view == [q \in Sessions |->
                      IF q = s THEN [c \in Sessions |->
                                       IF c \in near THEN action[c] ELSE "absent"]
                      ELSE IF q \in near THEN [told[q] EXCEPT ![s] = "STOP"]
                      ELSE told[q]]
<1>1. /\ s \notin connected /\ connected' = connected \union {s}
      /\ connected' \subseteq Sessions /\ to \in SectorPos
      /\ cur_sector \in [Sessions -> SectorPos] /\ action \in [Sessions -> Actions]
      /\ cur_sector' = [cur_sector EXCEPT ![s] = to]
      /\ action' = [action EXCEPT ![s] = "STOP"]
  BY SectorOfType DEF ProcAccept, Running, CharactersOK
<1>2. \E full : told' = [q \in Sessions |->
                           IF flag_disconnect'[q] THEN Blank ELSE view[q]]
                /\ flag_disconnect' =
                     [q \in Sessions |-> flag_disconnect[q] \/ q \in full]
  BY DEF ProcAccept, Send, Input_DisconnectQ
<1>3. \A c : c \in near <=> c \in connected /\ cur_sector[c] \in Around(to)
  <2>1. \A t \in SectorPos : sectors[t] = {c \in connected : cur_sector[c] = t}
    BY DEF Running, CharactersOK, SectorsRight
  <2>2. Around(to) \subseteq SectorPos
    BY AroundType
  <2> QED
    BY <2>1, <2>2 DEF Occupants
<1> HIDE DEF near, to
<1>4. view \in Views
  BY <1>1 DEF ViewsOK, Views, Actions
<1>5. ASSUME NEW q \in connected', ~flag_disconnect'[q], NEW c \in Sessions
      PROVE  view[q][c] = IF Sees(q, c)' THEN action'[c] ELSE "absent"
  <2>1. q \in Sessions /\ ~flag_disconnect[q]
    BY <1>1, <1>2, <1>5
  <2>2. /\ cur_sector'[s] = to /\ action'[s] = "STOP"
        /\ \A d \in Sessions \ {s} :
             cur_sector'[d] = cur_sector[d] /\ action'[d] = action[d]
    BY <1>1
  <2>3. q # s => told[q][c] = IF Sees(q, c) THEN action[c] ELSE "absent"
    BY <1>1, <2>1 DEF ViewsOK, ToldRight, Sees
  <2>4. CASE q = s
    <3>1. view[q][c] = IF c \in near THEN action[c] ELSE "absent"
      BY <2>1, <2>4
    <3>2. Sees(q, c)' <=> c \in near
      BY <1>1, <1>3, <2>2, <2>4 DEF Sees
    <3> QED
      BY <1>1, <1>3, <2>2, <3>1, <3>2
  <2>5. CASE q # s /\ c # s
    <3>1. view[q][c] = told[q][c]
      BY <2>1, <2>5 DEF ViewsOK, Views
    <3>2. Sees(q, c)' <=> Sees(q, c)
      BY <1>1, <2>1, <2>2, <2>5 DEF Sees
    <3> QED
      BY <2>2, <2>3, <2>5, <3>1, <3>2
  <2>6. CASE q # s /\ c = s
    <3>1. view[q][c] = IF q \in near THEN "STOP" ELSE told[q][c]
      BY <2>1, <2>6 DEF ViewsOK, Views
    <3>2. Sees(q, c)' <=> q \in near
      BY <1>1, <1>3, <2>1, <2>2, <2>6, AroundFacts DEF Sees
    <3>3. ~Sees(q, c)
      BY <1>1, <2>6 DEF Sees
    <3> QED
      BY <2>2, <2>3, <2>6, <3>1, <3>2, <3>3
  <2> QED
    BY <2>4, <2>5, <2>6
<1> HIDE DEF view
<1> QED
  BY <1>1, <1>2, <1>4, <1>5, KeepViews

\* DisconnectOne: those around are told to delete the one that leaves.
LEMMA DisconnectViews ==
  ASSUME Running, Running', ViewsOK, NEW s \in Sessions, DisconnectOne(s)
  PROVE  ViewsOK'
<1> DEFINE secs == [sectors EXCEPT ![cur_sector[s]] = @ \ {s}]
           near == Occupants(secs, Around(cur_sector[s]))
<1>1. /\ connected' = connected \ {s} /\ connected \subseteq Sessions
      /\ cur_sector \in [Sessions -> SectorPos]
      /\ sectors \in [SectorPos -> SUBSET Sessions]
      /\ \A d \in Sessions \ {s} :
           cur_sector'[d] = cur_sector[d] /\ action'[d] = action[d]
  BY DEF DisconnectOne, Running, CharactersOK
<1>2. \E full :
        /\ flag_disconnect' = [q \in Sessions |->
             q # s /\ (flag_disconnect[q] \/ q \in full)]
        /\ told' = [q \in Sessions |->
             IF q = s \/ flag_disconnect'[q] THEN Blank
             ELSE IF q \in near THEN [told[q] EXCEPT ![s] = "absent"]
             ELSE told[q]]
  BY DEF DisconnectOne
<1>3. \A q \in connected \ {s} : cur_sector[q] \in Around(cur_sector[s]) => q \in near
  <2>1. \A q \in connected \ {s} : q \in secs[cur_sector[q]]
    BY <1>1 DEF Running, CharactersOK, SectorsRight
  <2> QED
    BY <2>1 DEF Occupants
<1> HIDE DEF near
<1>4. /\ \A q \in Sessions : q = s \/ flag_disconnect'[q] => told'[q] = Blank
      /\ \A q \in Sessions \ {s} : ~flag_disconnect'[q] =>
           /\ ~flag_disconnect[q]
           /\ q \in near => told'[q] = [told[q] EXCEPT ![s] = "absent"]
           /\ q \notin near => told'[q] = told[q]
  BY <1>2
<1>5. told' \in Views
  <2>1. Blank \in [Sessions -> Actions \union {"absent"}]
    BY DEF Blank
  <2>2. ASSUME NEW q \in Sessions
        PROVE  told'[q] \in [Sessions -> Actions \union {"absent"}]
    <3>1. told[q] \in [Sessions -> Actions \union {"absent"}]
      BY DEF ViewsOK, Views
    <3>2. \/ told'[q] = Blank \/ told'[q] = told[q]
          \/ told'[q] = [told[q] EXCEPT ![s] = "absent"]
      BY <1>4
    <3> QED
      BY <2>1, <3>1, <3>2
  <2>3. told' = [q \in Sessions |-> told'[q]]
    BY <1>2
  <2> QED
    BY <2>2, <2>3 DEF Views
<1>6. ASSUME NEW q \in connected', ~flag_disconnect'[q], NEW c \in Sessions
      PROVE  told'[q][c] = IF Sees(q, c)' THEN action'[c] ELSE "absent"
  <2>1. q \in connected /\ q \in Sessions /\ q # s /\ ~flag_disconnect[q]
    BY <1>1, <1>4, <1>6
  <2>2. told[q][c] = IF Sees(q, c) THEN action[c] ELSE "absent"
    BY <2>1 DEF ViewsOK, ToldRight, Sees
  <2>3. told[q] \in [Sessions -> Actions \union {"absent"}]
    BY <2>1 DEF ViewsOK, Views
  <2>4. CASE c # s
    <3>1. told'[q][c] = told[q][c]
      BY <1>4, <1>6, <2>1, <2>3, <2>4
    <3>2. Sees(q, c)' <=> Sees(q, c)
      BY <1>1, <2>1, <2>4 DEF Sees
    <3> QED
      BY <1>1, <2>2, <2>4, <3>1, <3>2
  <2>5. CASE c = s
    <3>1. ~Sees(q, c)'
      BY <1>1, <2>5 DEF Sees
    <3>2. Sees(q, c) => q \in near
      BY <1>1, <1>3, <2>1, <2>5, AroundFacts DEF Sees
    <3> QED
      BY <1>4, <1>6, <2>1, <2>2, <2>3, <2>5, <3>1, <3>2
  <2> QED
    BY <2>4, <2>5
<1> QED
  BY <1>5, <1>6 DEF ViewsOK, ToldRight, Sees

\* Who is condemned no longer counts; nobody else's screen changes.
LEMMA CondemnViews ==
  ASSUME Running, ViewsOK, NEW s \in Sessions,
         Input_DisconnectQ({s}, disconnect_queue, told),
         UNCHANGED <<connected, character>>
  PROVE  ViewsOK'
<1>1. /\ told' = [q \in Sessions |-> IF flag_disconnect'[q] THEN Blank ELSE told[q]]
      /\ flag_disconnect' = [q \in Sessions |-> flag_disconnect[q] \/ q \in {s}]
      /\ connected' = connected /\ connected \subseteq Sessions
      /\ cur_sector' = cur_sector /\ action' = action
  BY DEF Input_DisconnectQ, character, Running, CharactersOK
<1>2. \A q \in connected' : ~flag_disconnect'[q] => \A c \in Sessions :
        told[q][c] = IF Sees(q, c)' THEN action'[c] ELSE "absent"
  BY <1>1 DEF ViewsOK, ToldRight, Sees
<1> QED
  BY <1>1, <1>2, KeepViews DEF ViewsOK

\* Steps that touch nothing a screen depends on.
LEMMA QuietViews ==
  ASSUME ViewsOK, UNCHANGED <<connected, character, drops, told>>
  PROVE  ViewsOK'
  BY DEF ViewsOK, ToldRight, character, drops

\* Every other step of the server keeps the screens right.
LEMMA StepViews == Running /\ ViewsOK /\ [Next]_vars => ViewsOK' \/ TakenOff
<1> SUFFICES ASSUME Running, ViewsOK, [Next]_vars, ~TakenOff
             PROVE  ViewsOK'
  OBVIOUS
<1>0. Running'
  BY RunningStep
<1>1. CASE \/ NoAccept \/ EndNet \/ EndUpdate \/ EndDisconnect \/ UNCHANGED vars
           \/ \E s \in Sessions : NotReady(s) \/ RecvSome(s) \/ RecvDone(s) \/ Echo(s)
  BY <1>1, QuietViews
     DEF NoAccept, EndNet, EndUpdate, EndDisconnect, NotReady, RecvSome, RecvDone,
         Echo, vars
<1>2. ASSUME NEW s \in Sessions,
             \/ SendFails(s) \/ RecvEnds(s) \/ RecvBad(s) \/ Dies(s) \/ TimesOut(s)
      PROVE  ViewsOK'
  BY <1>2, CondemnViews DEF SendFails, RecvEnds, RecvBad, Dies, TimesOut
<1>3. ASSUME NEW s \in Sessions, NEW at \in Positions, ProcAccept(s, at)
      PROVE  ViewsOK'
  BY <1>0, <1>3, AcceptViews
<1>4. ASSUME NEW s \in Sessions, NEW at \in Positions, NEW act \in Moves,
             MoveStart(s, at, act)
      PROVE  ViewsOK'
  BY <1>0, <1>4, HandleViews, FighterAssumption DEF MoveStart
<1>5. ASSUME NEW s \in Sessions, NEW at \in Positions,
             MoveStop(s, at) \/ \E dir \in {"LL", "RR"} : Attack(s, at, dir)
      PROVE  ViewsOK'
  <2>1. PICK heard : Handle(s, at, "STOP", heard)
    BY <1>5 DEF MoveStop, Attack
  <2>2. "STOP" \in Actions
    BY DEF Actions
  <2> QED
    BY <1>0, <2>1, <2>2, HandleViews
<1>6. ASSUME NEW s \in Sessions, Move(s)
      PROVE  ViewsOK'
  BY <1>0, <1>6, MoveViews
<1>7. ASSUME NEW s \in Sessions, DisconnectOne(s)
      PROVE  ViewsOK'
  BY <1>0, <1>7, DisconnectViews
<1> QED
  BY <1>1, <1>2, <1>3, <1>4, <1>5, <1>6, <1>7
     DEF Next, ProcessNetIO, Update, Disconnect_Session, Gone, TakenOff

(***************************************************************************)
(* The theorems.                                                           *)
(***************************************************************************)

\* The invariant holds in every reachable state.
THEOREM FighterInvariance == Spec => []IInv
<1>1. Init => IInv
  BY InitInv DEF IInv
<1> QED
  BY <1>1, StepInv, PTL DEF Spec

\* Every part of the state keeps its type.  Frames, accepts and the packets
\* whose position is on the map leave the characters there: the one packet
\* that takes a character off it is the last step the program defines.
THEOREM FighterTypeCorrect == Spec => []TypeOK
<1>1. IInv => TypeOK
  BY RunningType DEF IInv, Stopped
<1> QED
  BY <1>1, FighterInvariance, PTL

\* Until a packet takes a character off the map, cur_sector does not go stale
\* and a character is in one sector, whatever packets, frames and walls move it.
THEOREM SectorsExactAlways == Spec => []SectorsExact
<1>1. IInv => SectorsExact
  BY DEF IInv, Running, Stopped, CharactersOK, SectorsExact
<1> QED
  BY <1>1, FighterInvariance, PTL

\* A session is queued for disconnection once, by however many causes, and
\* freed once.
THEOREM QueueExactAlways == Spec => []QueueExact
<1>1. IInv => QueueExact
  BY DEF IInv, Running, Stopped, QueueOK
<1> QED
  BY <1>1, FighterInvariance, PTL

\* Until a packet takes a character off the map, a client that is to stay has
\* been told of exactly the characters in the sectors around its own, and how
\* each moves now, whatever the order of accepts, packets, frames and
\* disconnects.
THEOREM ViewsExactAlways == Spec => []ViewsExact
<1> DEFINE VInv == (Running /\ ViewsOK) \/ Stopped
<1>1. Init => VInv
  <2>1. ASSUME Init
        PROVE  ViewsOK
    BY <2>1 DEF Init, ViewsOK, ToldRight, Views, Blank
  <2> QED
    BY <2>1, InitInv
<1>2. VInv /\ [Next]_vars => VInv'
  <2>1. ASSUME Running, ViewsOK, [Next]_vars
        PROVE  VInv'
    BY <2>1, RunningStep, StepViews, TakenOffStep
  <2>2. ASSUME Stopped, [Next]_vars
        PROVE  Stopped'
    <3>1. UNCHANGED vars
      BY <2>2, StoppedStep
    <3> QED
      BY <2>2, <3>1 DEF vars, character, drops, loop, Stopped, TypeOK, QueueOK,
                        QueueExact
  <2> QED
    BY <2>1, <2>2
<1>3. VInv => ViewsExact
  BY DEF ViewsOK, Stopped, ViewsExact
<1> HIDE DEF VInv
<1> QED
  BY <1>1, <1>2, <1>3, PTL DEF Spec

=============================================================================
