--------------------------------- MODULE AStar ---------------------------------
(***************************************************************************)
(* A_star of "22.08.31 - A 스타/main.cpp", one step for each turn of its   *)
(* loop.  The lists are not cleared when it returns: a first search only.  *)
(***************************************************************************)
EXTENDS GridSearch

\* The neighbours in the order of the two loops, y outside.
Around == << <<-1, -1>>, <<0, -1>>, <<1, -1>>, <<-1, 0>>, <<1, 0>>,
             <<-1, 1>>, <<0, 1>>, <<1, 1>> >>

\* Mutant: visited tiles are taken again.
OpenAgain(p, visit) == ~Blocked(p) /\ p # visit

Open(p, visit) == ~Blocked(p) /\ p # visit /\ ~Fine_close_list(p)

\* A neighbour not in the open list is made; one that is gets a new g and
\* parent if a straight step from here is shorter (f stays as it was).
Visited(visit, fresh) ==
  [p \in Tiles |->
     CASE p \in fresh ->
            Node(p, end_point,
                 nodes[visit].g + IF 1 < Get_Distance(visit, p) THEN 3 ELSE 2,
                 visit, <<0, 0>>)
       [] /\ p \notin fresh /\ Open(p, visit)
          /\ \E i \in DOMAIN Around : p = At(visit, Around[i], 1)
          /\ nodes[visit].g + 2 < nodes[p].g ->
            [nodes[p] EXCEPT !.g = nodes[visit].g + 2, !.parent = visit]
       [] OTHER -> nodes[p]]

\* The neighbours that are not in the open list yet, as they are found.
Fresh(visit) ==
  LET new(p) == Open(p, visit) /\ ~Fine_open_list(p)
      found[n \in 0 .. Len(Around)] ==
        IF n = 0 THEN <<>>
        ELSE LET p == At(visit, Around[n], 1) IN
             IF new(p) THEN Append(found[n - 1], p) ELSE found[n - 1] IN
  found[Len(Around)]

\* A turn of the loop.  front() of an empty list is undefined: A_star does not
\* ask whether there is a way.
A_star ==
  /\ program = "A_star" /\ result = "searching"
  /\ UNCHANGED <<program, obstacles, start_point, end_point>>
  /\ \/ /\ open_list = <<>>
        /\ result' = "undefined"
        /\ UNCHANGED <<open_list, close_list, nodes>>
     \/ /\ open_list # <<>> /\ Arrives(Head(open_list))
        /\ result' = "true"
        /\ UNCHANGED <<open_list, close_list, nodes>>
     \/ /\ open_list # <<>> /\ ~Arrives(Head(open_list))
        /\ LET visit == Head(open_list)
               fresh == Fresh(visit) IN
           /\ nodes' = Visited(visit, Range(fresh))
           /\ close_list' = close_list \union {visit}
           /\ open_list' = Sorted(Tail(open_list) \o fresh, nodes')
        /\ UNCHANGED result
=============================================================================
