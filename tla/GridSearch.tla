------------------------------ MODULE GridSearch ------------------------------
(***************************************************************************)
(* What the two path searches share: the grid of                           *)
(* "22.08.31 - A 스타/main.cpp" and of "22.09.05 - JPS/JPS.h", the lists   *)
(* and the nodes they keep in global variables, and what a search must     *)
(* leave behind for Draw_Way.  Distances are doubled, so that a diagonal   *)
(* step costs 3 and a straight one 2.  Drawing and colours are left out.   *)
(***************************************************************************)
EXTENDS Integers, FiniteSets, FiniteSetsExt, SequencesExt

CONSTANTS GRID_WIDTH, GRID_HEIGHT,
          Starts,    \* start points the runs try
          None

Tiles == (0 .. GRID_WIDTH - 1) \X (0 .. GRID_HEIGHT - 1)

ASSUME GridAssumption ==
  /\ {GRID_WIDTH, GRID_HEIGHT} \subseteq Nat \ {0} /\ Starts \subseteq Tiles
  /\ None \notin Tiles

VARIABLES program,      \* "A_star" or "JPS"
          obstacles,    \* tiles of type OBSTACLE
          start_point, end_point,
          open_list,    \* positions of the nodes, in the list's order
          close_list,   \* the same, the order is not read
          nodes,        \* the node of each tile
          result        \* "searching", what the search returns, "undefined"

gridVars == <<program, obstacles, start_point, end_point, open_list,
              close_list, nodes, result>>

Check_Inside(p) == p \in Tiles
Blocked(p) == ~Check_Inside(p) \/ p \in obstacles

At(p, d, k) == <<p[1] + k * d[1], p[2] + k * d[2]>>

AbsOf(i) == IF i < 0 THEN -i ELSE i
Get_Distance(p, q) == AbsOf(p[1] - q[1]) + AbsOf(p[2] - q[2])
Get_h(p, end) == 2 * Get_Distance(end, p)

IsDiagonal(d) == d[1] # 0 /\ d[2] # 0

\* Node::Set.
Node(p, end, g, parent, dir) ==
  [g |-> g, f |-> g + Get_h(p, end), parent |-> parent, dir |-> dir]

Fine_open_list(p) == p \in Range(open_list)
Fine_close_list(p) == p \in close_list

\* std::list::sort with Compare_node_p: by f, and stable.
Sorted(list, ns) ==
  LET before(i, j) == \/ ns[list[i]].f < ns[list[j]].f
                      \/ ns[list[i]].f = ns[list[j]].f /\ i < j
      rank == [i \in DOMAIN list |->
                 Cardinality({j \in DOMAIN list : before(j, i)}) + 1] IN
  [k \in DOMAIN list |-> list[CHOOSE i \in DOMAIN list : rank[i] = k]]

\* The user has drawn obstacles and moved the ends, which stay apart and
\* free; '1' starts the search.
GridInit ==
  /\ program \in {"A_star", "JPS"}
  /\ start_point \in Starts
  /\ end_point \in Tiles \ {start_point}
  /\ obstacles \in SUBSET (Tiles \ {start_point, end_point})
  /\ open_list = <<start_point>>
  /\ close_list = {}
  /\ nodes = [p \in Tiles |-> Node(p, end_point, 0, None, <<0, 0>>)]
  /\ result = "searching"

Arrives(visit) == visit = end_point

-----------------------------------------------------------------------------
(* Properties *)

\* The tiles eight-way moves over free tiles can reach.
Reachable ==
  LET around(q) == {p \in Tiles \ obstacles :
                      AbsOf(p[1] - q[1]) < 2 /\ AbsOf(p[2] - q[2]) < 2}
      within[k \in 0 .. Cardinality(Tiles)] ==
        IF k = 0 THEN {start_point}
        ELSE UNION {around(q) : q \in within[k - 1]} IN
  within[Cardinality(Tiles)]

\* The nodes Draw_Way is at, from the end on: the k-th after k lines.
Way ==
  LET next == [p \in Tiles \union {None} |->
                 IF p \in {start_point, None} THEN p ELSE nodes[p].parent]
      way[k \in 0 .. Cardinality(Tiles)] ==
        IF k = 0 THEN end_point ELSE next[way[k - 1]] IN
  way

\* A straight or diagonal line over free tiles.
ClearLine(p, q) ==
  \E d \in ({-1, 0, 1} \X {-1, 0, 1}) \ {<<0, 0>>}, k \in 1 .. GRID_WIDTH + GRID_HEIGHT :
    /\ At(p, d, k) = q
    /\ \A i \in 0 .. k : ~Blocked(At(p, d, i))

\* A search that returns true leaves parents that Draw_Way can follow from
\* the end to the start: no cycle, no null, and no line through an obstacle,
\* although nodes are given new parents while they wait in the open list.
WayFound ==
  result = "true" =>
    /\ Way[Cardinality(Tiles)] = start_point
    /\ \A k \in 1 .. Cardinality(Tiles) :
         Way[k - 1] # start_point => ClearLine(Way[k - 1], Way[k])

\* The end is found exactly if it can be reached: the tiles that JPS jumps
\* over and the directions it does not try lose no way.
EndsRight ==
  result # "searching" => (result = "true" <=> end_point \in Reachable)
=============================================================================
