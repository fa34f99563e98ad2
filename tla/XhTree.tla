------------------------------- MODULE XhTree -------------------------------
(* The red-black tree of xHook/tree.h, as RB_GENERATE instantiates it for   *)
(* the table of mapped libraries (xh_core_map_info).  A node is its key,    *)
(* NULL is 0, and the two mirrored halves of every macro are one definition *)
(* with the side as parameter.  keys, the set the tree stands for, is a     *)
(* history variable; a node that has left the tree is freed by its caller,  *)
(* so its fields are dropped.                                               *)
EXTENDS Integers, Sequences, FiniteSets

CONSTANT Keys                     \* the possible keys: positive integers

VARIABLES tree,                   \* root, kid[side][node], up[node], red[node]
          keys,                   \* the keys that are in the tree
          walk                    \* a RB_FOREACH_SAFE loop: x, y, what it has seen and had to see

treeVars == <<tree, keys, walk>>

Null == 0
Sides == {"left", "right"}
Other(s) == IF s = "left" THEN "right" ELSE "left"

EmptyTree == [root |-> Null,
              kid |-> [s \in Sides |-> [k \in Keys |-> Null]],
              up |-> [k \in Keys |-> Null],
              red |-> [k \in Keys |-> FALSE]]

NoWalk == [on |-> FALSE, x |-> Null, y |-> Null, seen |-> <<>>, due |-> {}]

IsRed(t, n) == n # Null /\ t.red[n]
SideOf(t, n) == IF t.kid["left"][t.up[n]] = n THEN "left" ELSE "right"

\* Puts `new` in the place `old` has under its parent, or at the root.
Replace(t, old, new) ==
  IF t.up[old] = Null THEN [t EXCEPT !.root = new]
                      ELSE [t EXCEPT !.kid[SideOf(t, old)][t.up[old]] = new]

\* Mutant of Rotate: the inner subtree keeps its parent.
RotateOrphan(t, s, n) ==
  LET top   == t.kid[Other(s)][n]
      moved == Replace([t EXCEPT !.kid[Other(s)][n] = t.kid[s][top]], n, top)
  IN [moved EXCEPT !.kid[s][top] = n, !.up[top] = t.up[n], !.up[n] = top]

\* RB_ROTATE_LEFT and RB_ROTATE_RIGHT: n goes down on side s.
Rotate(t, s, n) ==
  LET top   == t.kid[Other(s)][n]
      inner == t.kid[s][top]
      moved == Replace([t EXCEPT !.kid[Other(s)][n] = inner], n, top)
  IN [moved EXCEPT !.kid[s][top] = n,
                   !.up = [k \in Keys |-> CASE k = inner -> n
                                            [] k = top   -> t.up[n]
                                            [] k = n     -> top
                                            [] OTHER     -> t.up[k]]]

Paint(t, reds, blacks) ==
  [t EXCEPT !.red = [k \in Keys |-> (t.red[k] \/ k \in reds) /\ k \notin blacks]]

RECURSIVE InsertColor(_, _)
InsertColor(t, elm) ==
  LET parent == t.up[elm]
  IN IF ~IsRed(t, parent) THEN Paint(t, {}, {t.root})
     ELSE LET gparent == t.up[parent]
              s       == SideOf(t, parent)
              uncle   == t.kid[Other(s)][gparent]
              inside  == t.kid[Other(s)][parent] = elm
              turned  == IF inside THEN Rotate(t, s, parent) ELSE t
              above   == IF inside THEN elm ELSE parent
              below   == IF inside THEN parent ELSE elm
          IN IF IsRed(t, uncle)
             THEN InsertColor(Paint(t, {gparent}, {parent, uncle}), gparent)
             ELSE InsertColor(Rotate(Paint(turned, {gparent}, {above}), Other(s), gparent), below)

Sibling(t, s, parent) == t.kid[Other(s)][parent]

\* A red sibling goes above the parent, which gets a black one.
LiftSibling(t, s, parent) ==
  IF IsRed(t, Sibling(t, s, parent))
  THEN Rotate(Paint(t, {parent}, {Sibling(t, s, parent)}), s, parent) ELSE t

\* When only the near child of the sibling is red, it goes above the sibling.
LiftNear(t, s, sib) ==
  IF IsRed(t, Sibling(t, s, sib)) THEN t
  ELSE Rotate(Paint(t, {sib}, {t.kid[s][sib]}), Other(s), sib)

\* The sibling goes above the parent and takes its colour.
LiftLast(t, s, parent, sib) ==
  Rotate(Paint(t, {sib} \cap {n \in Keys : t.red[parent]},
                  {parent, Sibling(t, s, sib)} \cup {n \in {sib} : ~t.red[parent]}), s, parent)

BlackRoot(t) == Paint(t, {}, {t.root})

RECURSIVE RemoveColor(_, _, _), Rebalance(_, _, _, _)

\* The side s of the parent is short of one black node, and the sibling sib is black.
Rebalance(t, s, parent, sib) ==
  IF \E k \in Sides : IsRed(t, t.kid[k][sib])
  THEN LET turned == LiftNear(t, s, sib)
       IN BlackRoot(LiftLast(turned, s, parent, Sibling(turned, s, parent)))
  ELSE RemoveColor(Paint(t, {sib}, {}), t.up[parent], parent)

\* elm, which may be NULL, is short of one black node.
RemoveColor(t, parent, elm) ==
  IF IsRed(t, elm) \/ elm = t.root
  THEN Paint(t, {}, {elm} \ {Null})
  ELSE LET s      == IF t.kid["left"][parent] = elm THEN "left" ELSE "right"
           lifted == LiftSibling(t, s, parent)
       IN Rebalance(lifted, s, parent, Sibling(lifted, s, parent))

RECURSIVE Outermost(_, _, _)
Outermost(t, s, n) == IF t.kid[s][n] = Null THEN n ELSE Outermost(t, s, t.kid[s][n])

Forget(t, n) ==
  [t EXCEPT !.kid = [s \in Sides |-> [@[s] EXCEPT ![n] = Null]], !.up[n] = Null, !.red[n] = FALSE]

Child(t, n) == IF t.kid["left"][n] = Null THEN t.kid["right"][n] ELSE t.kid["left"][n]

\* Puts the only child of n in its place.
Splice(t, n) ==
  LET up == IF Child(t, n) = Null THEN t.up ELSE [t.up EXCEPT ![Child(t, n)] = t.up[n]]
  IN [Replace(t, n, Child(t, n)) EXCEPT !.up = up]

\* elm takes over the links and the colour of old.
TakePlace(t, old, elm) ==
  [Replace(t, old, elm) EXCEPT
     !.kid = [s \in Sides |-> [@[s] EXCEPT ![elm] = t.kid[s][old]]],
     !.up  = [k \in Keys |-> IF k = elm THEN t.up[old]
                             ELSE IF \E s \in Sides : t.kid[s][old] = k THEN elm ELSE t.up[k]],
     !.red[elm] = t.red[old]]

\* A node with at most one child is spliced out; a node with two is replaced
\* by its successor elm, which is spliced out in its place.
RemoveNode(t, old) ==
  LET elm == IF \A s \in Sides : t.kid[s][old] # Null THEN Outermost(t, "left", t.kid["right"][old]) ELSE old
      above == IF t.up[elm] = old THEN elm ELSE t.up[elm]
      left == IF elm = old THEN Splice(t, elm) ELSE TakePlace(Splice(t, elm), old, elm)
  IN Forget(IF t.red[elm] THEN left ELSE RemoveColor(left, above, Child(t, elm)), old)

RECURSIVE Descend(_, _, _)
Descend(t, n, k) ==            \* the node k's search ends at: k itself or its parent to be
  LET next == IF k < n THEN t.kid["left"][n] ELSE t.kid["right"][n]
  IN IF k = n \/ next = Null THEN n ELSE Descend(t, next, k)

Find(t, k) == IF t.root # Null /\ Descend(t, t.root, k) = k THEN k ELSE Null

InsertNode(t, k) ==
  IF t.root = Null THEN InsertColor([t EXCEPT !.root = k, !.red[k] = TRUE], k)
  ELSE LET parent == Descend(t, t.root, k)
       IN IF parent = k THEN t
          ELSE InsertColor([t EXCEPT !.kid[IF k < parent THEN "left" ELSE "right"][parent] = k,
                                     !.up[k] = parent, !.red[k] = TRUE], k)

RECURSIVE NFindFrom(_, _, _, _)
NFindFrom(t, n, k, res) ==
  IF n = Null THEN res
  ELSE IF k = n THEN n
  ELSE IF k < n THEN NFindFrom(t, t.kid["left"][n], k, n)
  ELSE NFindFrom(t, t.kid["right"][n], k, res)

NFind(t, k) == NFindFrom(t, t.root, k, Null)

RECURSIVE Climb(_, _, _)
Climb(t, s, n) ==              \* up while n is the child on side s, then one more
  IF t.up[n] # Null /\ t.kid[s][t.up[n]] = n THEN Climb(t, s, t.up[n]) ELSE t.up[n]

\* Mutant of Step: without a subtree on that side it is the parent's turn.
StepParent(t, s, n) ==
  IF t.kid[s][n] # Null THEN Outermost(t, Other(s), t.kid[s][n]) ELSE t.up[n]

\* RB_NEXT with s = "right", RB_PREV with s = "left".
Step(t, s, n) ==
  IF t.kid[s][n] # Null THEN Outermost(t, Other(s), t.kid[s][n]) ELSE Climb(t, s, n)

MinMax(t, s) == IF t.root = Null THEN Null ELSE Outermost(t, s, t.root)
-----------------------------------------------------------------------------
TreeInit == tree = EmptyTree /\ keys = {} /\ walk = NoWalk

\* RB_INSERT: a key that is there stays, its node is returned instead.
Insert(k) ==
  /\ ~walk.on
  /\ tree' = InsertNode(tree, k)
  /\ keys' = keys \cup {k}
  /\ UNCHANGED walk

\* RB_FIND, then RB_REMOVE of what it found.
Erase(k) ==
  /\ ~walk.on
  /\ Find(tree, k) # Null
  /\ tree' = RemoveNode(tree, Find(tree, k))
  /\ keys' = keys \ {k}
  /\ UNCHANGED walk

Successor(t, n) == IF n = Null THEN Null ELSE Step(t, "right", n)

WalkBegin ==
  /\ ~walk.on
  /\ LET first == MinMax(tree, "left")
     IN walk' = [on |-> TRUE, x |-> first, y |-> Successor(tree, first), seen |-> <<>>, due |-> keys]
  /\ UNCHANGED <<tree, keys>>

\* Mutant of WalkStep: RB_FOREACH, which steps from the element it has freed.
WalkStepFreed(free) ==
  /\ walk.on /\ walk.x # Null
  /\ tree' = IF free THEN RemoveNode(tree, walk.x) ELSE tree
  /\ walk' = [walk EXCEPT !.x = Successor(tree', walk.x), !.seen = Append(@, walk.x)]
  /\ keys' = IF free THEN keys \ {walk.x} ELSE keys

\* One pass of the body, which removes and frees the element or keeps it.
WalkStep(free) ==
  /\ walk.on /\ walk.x # Null
  /\ LET t == IF free THEN RemoveNode(tree, walk.x) ELSE tree
     IN /\ tree' = t
        /\ walk' = [walk EXCEPT !.x = walk.y, !.y = Successor(t, walk.y), !.seen = Append(@, walk.x)]
  /\ keys' = IF free THEN keys \ {walk.x} ELSE keys

WalkEnd ==
  /\ walk.on /\ walk.x = Null
  /\ walk' = NoWalk
  /\ UNCHANGED <<tree, keys>>

TreeNext ==
  \/ \E k \in Keys : Insert(k)
  \/ \E k \in Keys : Erase(k)
  \/ WalkBegin
  \/ \E free \in BOOLEAN : WalkStep(free)
  \/ WalkEnd
-----------------------------------------------------------------------------
RECURSIVE Under(_, _)
Under(t, n) == IF n = Null THEN {} ELSE {n} \cup UNION {Under(t, t.kid[s][n]) : s \in Sides}

RECURSIVE BlackHeights(_, _)
BlackHeights(t, n) ==
  IF n = Null THEN {0}
  ELSE {h + IF t.red[n] THEN 0 ELSE 1 : h \in UNION {BlackHeights(t, t.kid[s][n]) : s \in Sides}}

\* The tree holds exactly the keys inserted and not removed, in search order,
\* with agreeing parent links, a black root, no red child of a red node and as
\* many black nodes on every path (tree.h: RB_INSERT_COLOR, RB_REMOVE_COLOR).
RedBlack ==
  /\ Under(tree, tree.root) = keys
  /\ \A n \in keys :
       /\ \A k \in Under(tree, tree.kid["left"][n]) : k < n
       /\ \A k \in Under(tree, tree.kid["right"][n]) : k > n
       /\ \A s \in Sides : tree.kid[s][n] # Null => /\ tree.up[tree.kid[s][n]] = n
                                                    /\ ~(tree.red[n] /\ tree.red[tree.kid[s][n]])
  /\ tree.root # Null => tree.up[tree.root] = Null /\ ~tree.red[tree.root]
  /\ Cardinality(BlackHeights(tree, tree.root)) = 1

Least(S) == IF S = {} THEN Null ELSE CHOOSE x \in S : \A y \in S : x <= y
Greatest(S) == IF S = {} THEN Null ELSE CHOOSE x \in S : \A y \in S : x >= y

\* Whatever the shape the rebalancing has left, the searches and the steps of
\* an iteration answer as they would on the sorted set (tree.h: RB_FIND,
\* RB_NFIND, RB_NEXT, RB_PREV, RB_MINMAX).
SearchesAgree ==
  /\ MinMax(tree, "left") = Least(keys) /\ MinMax(tree, "right") = Greatest(keys)
  /\ \A k \in Keys : /\ Find(tree, k) = Least(keys \cap {k})
                     /\ NFind(tree, k) = Least({x \in keys : x >= k})
  /\ \A k \in keys : /\ Step(tree, "right", k) = Least({x \in keys : x > k})
                     /\ Step(tree, "left", k) = Greatest({x \in keys : x < k})

\* The tree is one of red and black nodes in order, and answers like the set it holds.
TreeSound == RedBlack /\ SearchesAgree

\* RB_FOREACH_SAFE meets every element once, in order, although the body frees
\* elements and the removals rotate the tree under it (xh_core.c:444, 611).
WalkVisitsAll ==
  walk.on =>
    /\ \A i \in 1..Len(walk.seen) :
         walk.seen[i] = Least(walk.due \ {walk.seen[j] : j \in 1..(i - 1)})
    /\ walk.x = Null => Len(walk.seen) = Cardinality(walk.due)
=============================================================================
