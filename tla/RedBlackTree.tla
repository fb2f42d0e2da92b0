---------------------------- MODULE RedBlackTree ----------------------------
(***************************************************************************)
(* "22.08.26 - 레드블랙 트리/BinaryTree.h" and "BinaryTree.cpp".           *)
(*                                                                         *)
(* The heap maps a node to its fields; node 0 is nill_node, whose left     *)
(* child is the root.  Between two calls a node is named by its data; in a *)
(* call it keeps its name when Real_Remove moves another node's data into  *)
(* it.  The mirrored halves of the code are one definition with a          *)
(* direction.  Print and draw_white are left out.                          *)
(***************************************************************************)
EXTENDS Integers, FiniteSets

CONSTANTS Keys,     \* what is inserted and removed
          IntMax    \* INT_MAX, the data of nill_node

\* Insert(INT_MAX) on an empty tree takes nill_node for an equal node.
ASSUME KeysAssumption ==
  Keys \subseteq Nat \ {0} /\ IntMax \in Nat /\ \A k \in Keys : k < IntMax

VARIABLES heap,     \* the nodes
          asked     \* history: the last call and its data

Nill == 0
Null == -1
LEFT == "left"
RIGHT == "right"

\* p_root_node.
Root(h) == h[Nill].child[LEFT]

Other(dir) == IF dir = LEFT THEN RIGHT ELSE LEFT

\* GetDir.
Dir(h, n) == IF h[h[n].parent].child[LEFT] = n THEN LEFT ELSE RIGHT
GetGrandpaPointer(h, n) == h[h[n].parent].parent

\* Mutant: the direction of the node for that of its parent.
UncleOfNode(h, n) ==
  h[GetGrandpaPointer(h, n)].child[Other(Dir(h, n))]

GetUnclePointer(h, n) ==
  h[GetGrandpaPointer(h, n)].child[Other(Dir(h, h[n].parent))]
GetSiblingPointer(h, n) == h[h[n].parent].child[Other(Dir(h, n))]

Red(h, n) == h[n].red
Painted(h, n, red) == [h EXCEPT ![n].red = red]

AllocNode(data, parent) ==
  [data |-> data, red |-> TRUE, parent |-> parent,
   child |-> [dir \in {LEFT, RIGHT} |-> Nill]]

\* The child on data's side.
Toward(h, n, data) == IF h[n].data < data THEN RIGHT ELSE LEFT

\* The loops and the recursive calls below are followed for so many turns:
\* more than any of them takes.
Turns(h) == Cardinality(DOMAIN h) + 4

\* Where a loop is that goes on from n to next[n] and starts at first.
LoopEnd(h, next, first) ==
  LET at[k \in 0 .. Turns(h)] == IF k = 0 THEN first ELSE next[at[k - 1]] IN
  at[Turns(h)]

Get_Node(h, data) ==
  LET next == [n \in DOMAIN h |->
                 IF n = Nill \/ h[n].data = data THEN n
                 ELSE h[n].child[Toward(h, n, data)]]
      found == LoopEnd(h, next, Root(h)) IN
  IF found = Nill THEN Null ELSE found

-----------------------------------------------------------------------------
(* Rotate_Node *)

\* Mutant: the bumped subtree is not hung on the node.
RotateLoose(h, data, dir) ==
  LET n == Get_Node(h, data)
      up == h[n].child[Other(dir)] IN
  IF n = Null \/ up = Nill THEN h
  ELSE [h EXCEPT ![h[n].parent].child[Dir(h, n)] = up,
                 ![up].parent = h[n].parent,
                 ![n].parent = up,
                 ![n].child[Other(dir)] = Nill,
                 ![up].child[dir] = n]

\* The node that holds data goes down on side dir, its child on the other
\* side comes up.
Rotate_Node(h, data, dir) ==
  LET n == Get_Node(h, data)
      up == h[n].child[Other(dir)]
      bump == h[up].child[dir]
      g == IF bump = Nill THEN h ELSE [h EXCEPT ![bump].parent = n] IN
  IF n = Null \/ up = Nill THEN h
  ELSE [g EXCEPT ![h[n].parent].child[Dir(h, n)] = up,
                 ![up].parent = h[n].parent,
                 ![n].parent = up,
                 ![n].child[Other(dir)] = bump,
                 ![up].child[dir] = n]

-----------------------------------------------------------------------------
(* Insert *)

\* What one call does, and the node of the call it makes, Null for none.
Insert_Turn(h, n) ==
  LET p == h[n].parent
      g == GetGrandpaPointer(h, n)
      uncle == GetUnclePointer(h, n)
      dir == Dir(h, p) IN
  CASE n = Root(h) -> [heap |-> Painted(h, n, FALSE), node |-> Null]
    [] n # Root(h) /\ ~Red(h, p) -> [heap |-> h, node |-> Null]
    [] n # Root(h) /\ Red(h, p) /\ Red(h, uncle) ->
         [heap |-> [h EXCEPT ![p].red = FALSE, ![uncle].red = FALSE,
                             ![g].red = TRUE],
          node |-> g]
    [] OTHER ->
         IF Dir(h, n) = dir
           THEN LET r == Rotate_Node(h, h[g].data, Other(dir))
                    top == r[n].parent IN
                [heap |-> [r EXCEPT ![top].red = FALSE,
                                    ![r[top].child[Other(dir)]].red = TRUE],
                 node |-> Null]
           ELSE LET r == Rotate_Node(h, h[p].data, dir) IN
                [heap |-> r, node |-> r[n].child[dir]]

Insert_Balance(h, n) ==
  LET after[k \in 0 .. Turns(h)] ==
        IF k = 0 THEN [heap |-> h, node |-> n]
        ELSE LET s == after[k - 1] IN
             IF s.node = Null THEN s ELSE Insert_Turn(s.heap, s.node) IN
  after[Turns(h)].heap

\* The new node's name is its data, which no other node has.
Linked(h, data, n) ==
  LET linked == [h EXCEPT ![n].child[Toward(h, n, data)] = data] IN
  [k \in DOMAIN h \union {data} |->
     IF k = data THEN AllocNode(data, n) ELSE linked[k]]

Real_Insert(h, data) ==
  LET next == [n \in DOMAIN h |->
                 IF h[n].data = data \/ h[n].child[Toward(h, n, data)] = Nill
                   THEN n ELSE h[n].child[Toward(h, n, data)]]
      place == LoopEnd(h, next, Root(h)) IN
  IF h[place].data = data THEN h
  ELSE Insert_Balance(Linked(h, data, place), data)

-----------------------------------------------------------------------------
(* Remove_Node *)

\* One call, as for Insert_Turn: n is a black too few.
Remove_Turn(h, n) ==
  LET p == h[n].parent
      dir == Dir(h, n)
      s == GetSiblingPointer(h, n)
      near == h[s].child[dir]
      far == h[s].child[Other(dir)] IN
  CASE Red(h, n) -> [heap |-> Painted(h, n, FALSE), node |-> Null]
    [] ~Red(h, n) /\ Red(h, s) ->
         [heap |-> Rotate_Node([h EXCEPT ![s].red = FALSE, ![p].red = TRUE],
                               h[p].data, dir),
          node |-> n]
    [] ~Red(h, n) /\ ~Red(h, s) /\ ~Red(h, near) /\ ~Red(h, far) ->
         [heap |-> Painted(h, s, TRUE), node |-> p]
    [] ~Red(h, n) /\ ~Red(h, s) /\ Red(h, near) /\ ~Red(h, far) ->
         [heap |-> Rotate_Node([h EXCEPT ![near].red = FALSE, ![s].red = TRUE],
                               h[s].data, Other(dir)),
          node |-> n]
    [] OTHER ->
         [heap |-> Rotate_Node([h EXCEPT ![s].red = h[p].red, ![p].red = FALSE,
                                         ![far].red = FALSE],
                               h[p].data, dir),
          node |-> Null]

Remove_Balance(h, n) ==
  LET after[k \in 0 .. Turns(h)] ==
        IF k = 0 THEN [heap |-> h, node |-> n]
        ELSE LET s == after[k - 1] IN
             IF s.node = Null THEN s ELSE Remove_Turn(s.heap, s.node) IN
  after[Turns(h)].heap

\* The leftmost node below n.
Leftmost(h, n) ==
  LoopEnd(h, [m \in DOMAIN h |-> IF h[m].child[LEFT] = Nill THEN m
                                 ELSE h[m].child[LEFT]], n)

\* Takes out a node with one child at most, its only child comes in its place.
\* That sets nill_node's parent too.
Unlink(h, n) ==
  LET kid == IF h[n].child[LEFT] # Nill THEN h[n].child[LEFT]
             ELSE h[n].child[RIGHT]
      linked == [h EXCEPT ![h[n].parent].child[Dir(h, n)] = kid,
                          ![kid].parent = h[n].parent]
      balanced == IF Red(h, n) THEN linked ELSE Remove_Balance(linked, kid) IN
  [k \in DOMAIN h \ {n} |-> balanced[k]]

\* A node with two children takes the data of its successor, which goes.
Real_Remove(h, n) ==
  LET next == Leftmost(h, h[n].child[RIGHT]) IN
  IF h[n].child[LEFT] # Nill /\ h[n].child[RIGHT] # Nill
    THEN Unlink([h EXCEPT ![n].data = h[next].data], next)
    ELSE Unlink(h, n)

-----------------------------------------------------------------------------
(* The calls *)

\* Every node under its data; nill_node's parent is not read before it is
\* set again.
Named(h) ==
  LET name(n) == IF n = Nill THEN Nill ELSE h[n].data
      node(k) == CHOOSE n \in DOMAIN h : name(n) = k IN
  [k \in {name(n) : n \in DOMAIN h} |->
     [h[node(k)] EXCEPT
        !.parent = IF k = Nill THEN Null ELSE name(@),
        !.child = [dir \in {LEFT, RIGHT} |-> name(@[dir])]]]

TreeInit ==
  /\ heap = [n \in {Nill} |-> [data |-> IntMax, red |-> FALSE, parent |-> Nill,
                               child |-> [dir \in {LEFT, RIGHT} |-> Nill]]]
  /\ asked = <<"none", 0>>

Insert(data) ==
  /\ heap' = Named(Real_Insert(heap, data))
  /\ asked' = <<"insert", data>>

Remove_Node(data) ==
  LET n == Get_Node(heap, data) IN
  /\ heap' = IF n = Null THEN heap ELSE Named(Real_Remove(heap, n))
  /\ asked' = <<"remove", data>>

TreeNext == \E data \in Keys : Insert(data) \/ Remove_Node(data)

treeVars == <<heap, asked>>

TreeSpec == TreeInit /\ [][TreeNext]_treeVars

-----------------------------------------------------------------------------
(* Properties *)

\* The keys a search finds.
Found == {k \in Keys : Get_Node(heap, k) # Null}

\* The tree is the set of what was inserted and not removed: a search finds
\* these keys and no others, and no node is cut off, through all rotations.
TreeIsSet ==
  [][/\ asked'[1] = "insert" => Found' = Found \union {asked'[2]}
     /\ asked'[1] = "remove" => Found' = Found \ {asked'[2]}
     /\ DOMAIN heap' = Found' \union {Nill}]_treeVars

\* Number_of_black counts along the left children; nill_node is one.
Number_of_black(n) ==
  LET walk[k \in 0 .. Turns(heap)] ==
        IF k = 0 THEN [node |-> n, blacks |-> 1]
        ELSE LET s == walk[k - 1] IN
             IF s.node = Nill THEN s
             ELSE [node |-> heap[s.node].child[LEFT],
                   blacks |-> s.blacks + IF Red(heap, s.node) THEN 0 ELSE 1] IN
  walk[Turns(heap)].blacks

\* The same on both sides at every node is what Check_Black tests path by path.
CheckBlack ==
  \A n \in DOMAIN heap \ {Nill} :
    Number_of_black(heap[n].child[LEFT]) = Number_of_black(heap[n].child[RIGHT])

SonIsBlack ==
  \A n \in DOMAIN heap \ {Nill} :
    Red(heap, n) => ~Red(heap, heap[n].child[LEFT])
                      /\ ~Red(heap, heap[n].child[RIGHT])

\* What Verific (WndProc.cpp) throws for after random calls holds after any:
\* as many black nodes on every path, no red child of a red node, a black
\* root, and nill_node black again although Remove_Balance paints it.
Verific == CheckBlack /\ SonIsBlack /\ ~Red(heap, Root(heap))
             /\ ~Red(heap, Nill)
=============================================================================
