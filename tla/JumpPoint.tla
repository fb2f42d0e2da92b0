------------------------------- MODULE JumpPoint -------------------------------
(***************************************************************************)
(* JPS of "22.09.05 - JPS/JPS.cpp", one step for each turn of its loop.    *)
(* The functions the code has for each of the eight directions (UU, UR,    *)
(* ...) are one definition with the direction as a vector, y downwards.    *)
(***************************************************************************)
EXTENDS GridSearch

\* DIR_ALL, the direction of the start node, and the order it is searched.
DIR_ALL == <<0, 0>>
Eight == << <<0, -1>>, <<1, 0>>, <<0, 1>>, <<-1, 0>>,
            <<1, -1>>, <<1, 1>>, <<-1, 1>>, <<-1, -1>> >>

Left(d) == <<d[2], -d[1]>>
Right(d) == <<-d[2], d[1]>>

\* On the side turn of a walk along d: the direction an obstacle beside the
\* walk opens, and where that obstacle stands.
Forced(d, turn) == IF IsDiagonal(d) THEN turn ELSE At(turn, d, 1)
Wall(d, turn) ==
  IF IsDiagonal(d) THEN <<(turn[1] - d[1]) \div 2, (turn[2] - d[2]) \div 2>>
  ELSE turn

\* Check_Curve_UU_L and the other fifteen.
IsCurve(d, turn, p) ==
  \/ p = end_point
  \/ ~Blocked(At(p, Forced(d, turn), 1)) /\ At(p, Wall(d, turn), 1) \in obstacles

\* Check_Curve_UU and the other seven answer CORNER.
IsCorner(d, p) == IsCurve(d, Left(d), p) \/ IsCurve(d, Right(d), p)

\* The first tile from p along d where stops is true, None if the walk comes
\* to a tile it cannot enter before (UNABLE).  The code reads tile_type of a
\* tile before it asks whether that is on the map: beyond the edge the value
\* read is undefined, and either answer of the two tests is UNABLE.
Walk(d, p, stops) ==
  LET k == Min({i \in 1 .. GRID_WIDTH + GRID_HEIGHT :
                  Blocked(At(p, d, i)) \/ stops[At(p, d, i)]}) IN
  IF Blocked(At(p, d, k)) THEN None ELSE At(p, d, k)

\* Search_Curve_UU, DD, LL, RR.
SearchStraight(d, p) == Walk(d, p, [q \in Tiles |-> IsCorner(d, q)])

Vertical(d) == <<0, d[2]>>
Horizontal(d) == <<d[1], 0>>

\* Search_Curve_UL, UR, DL, DR stop too where a straight search along one
\* of their two parts finds something.
Search_Curve(d, p) ==
  IF IsDiagonal(d)
    THEN Walk(d, p, [q \in Tiles |->
                            \/ IsCorner(d, q)
                            \/ SearchStraight(Vertical(d), q) # None
                            \/ SearchStraight(Horizontal(d), q) # None])
    ELSE SearchStraight(d, p)

If(condition, d) == IF condition THEN <<d>> ELSE <<>>

\* Mutant: nothing is searched behind an obstacle beside the walk.
DirectionsAhead(d, p) ==
  IF d = DIR_ALL THEN Eight
  ELSE <<d>> \o If(IsDiagonal(d), Vertical(d)) \o If(IsDiagonal(d), Horizontal(d))

\* The directions OpenList_PushBack_Proc searches from a node at p that was
\* found along d, in their order.
Directions(d, p) ==
  IF d = DIR_ALL THEN Eight
  ELSE <<d>> \o If(IsDiagonal(d), Vertical(d)) \o If(IsDiagonal(d), Horizontal(d))
         \o If(IsCurve(d, Left(d), p), Forced(d, Left(d)))
         \o If(IsCurve(d, Right(d), p), Forced(d, Right(d)))

\* s holds the open list and the nodes.  The node of a tile that is waiting
\* is set again if the way to it became shorter.
PushBack_OpenList(s, parent, p, d) ==
  LET g == s.nodes[parent].g + IF IsDiagonal(d)
                                 THEN 3 * (Get_Distance(parent, p) \div 2)
                                 ELSE 2 * Get_Distance(parent, p)
      waits == p \in Range(s.open)
      set == [s.nodes EXCEPT ![p] = Node(p, end_point, g, parent, d)] IN
  CASE Fine_close_list(p)             -> s
    [] ~Fine_close_list(p) /\ ~waits  ->
         [open |-> Append(s.open, p), nodes |-> set]
    [] OTHER -> IF g < s.nodes[p].g THEN [s EXCEPT !.nodes = set] ELSE s

\* One direction searched from the node at visit.
Searched(s, visit, d) ==
  LET p == Search_Curve(d, visit) IN
  IF p = None THEN s ELSE PushBack_OpenList(s, visit, p, d)

\* What the visit of a node leaves, before the list is sorted.
OpenList_PushBack_Proc(visit) ==
  LET dirs == Directions(nodes[visit].dir, visit)
      after[n \in 0 .. Len(dirs)] ==
        IF n = 0 THEN [open |-> Tail(open_list), nodes |-> nodes]
        ELSE Searched(after[n - 1], visit, dirs[n]) IN
  after[Len(dirs)]

\* A turn of the loop.
JPS ==
  /\ program = "JPS" /\ result = "searching"
  /\ UNCHANGED <<program, obstacles, start_point, end_point>>
  /\ \/ /\ open_list = <<>>
        /\ result' = "false"
        /\ UNCHANGED <<open_list, close_list, nodes>>
     \/ /\ open_list # <<>>
        /\ LET visit == Head(open_list)
               s == OpenList_PushBack_Proc(visit) IN
           /\ close_list' = close_list \union {visit}
           /\ IF Arrives(visit)
                THEN /\ result' = "true" /\ open_list' = Tail(open_list)
                     /\ UNCHANGED nodes
                ELSE /\ open_list' = Sorted(s.open, s.nodes)
                     /\ nodes' = s.nodes
                     /\ UNCHANGED result
=============================================================================
