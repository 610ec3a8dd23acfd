------------------------------- MODULE RbTree -------------------------------
(***************************************************************************)
(* The red-black tree of src/src/util/rbtree.c, as operators on a tree     *)
(*                                                                         *)
(*    [root |-> node or Nil, n |-> the nodes linked in it]                 *)
(*                                                                         *)
(* where a node has a left and a right child ("l", "r"), a parent and a    *)
(* colour.  A node that is not linked has no entry: rb_link_node sets all  *)
(* its fields before they are read.  The two mirrored halves of each       *)
(* function are one operator with a side.                                  *)
(***************************************************************************)
EXTENDS Integers, Sequences, FiniteSets

CONSTANT Nil           \* NULL

RB_ROOT == [root |-> Nil, n |-> <<>>]
RB_EMPTY_ROOT(t) == t.root = Nil

Other(s) == IF s = "l" THEN "r" ELSE "l"
rb_parent(t, x) == t.n[x].parent
rb_is_red(t, x) == t.n[x].color = "red"
rb_set_color(t, x, c) == [t EXCEPT !.n[x].color = c]
rb_set_child(t, x, s, y) == [t EXCEPT !.n[x][s] = y]
rb_set_parent(t, x, p) == [t EXCEPT !.n[x].parent = p]

\* No child, or a black one.
black_or_null(t, x) == x = Nil \/ ~rb_is_red(t, x)
adopt(t, x, p) == IF x = Nil THEN t ELSE rb_set_parent(t, x, p)

SideOf(t, x) == IF t.n[rb_parent(t, x)].l = x THEN "l" ELSE "r"

\* What parent, or the root, has for old is now new.
replace(t, parent, old, new) ==
    IF parent = Nil THEN [t EXCEPT !.root = new]
    ELSE rb_set_child(t, parent, IF t.n[parent].l = old THEN "l" ELSE "r", new)

\* Mutant: the subtree that changes sides keeps its old parent.
rb_rotate_orphans(t, node, s) ==
    LET up     == t.n[node][Other(s)]
        parent == rb_parent(t, node)
        moved  == rb_set_child(t, node, Other(s), t.n[up][s])
        joined == rb_set_child(moved, up, s, node)
    IN  rb_set_parent(
            replace(rb_set_parent(joined, up, parent), parent, node, up),
            node, up)

\* __rb_rotate_left for s = "l", __rb_rotate_right for s = "r".
rb_rotate(t, node, s) ==
    LET up     == t.n[node][Other(s)]
        parent == rb_parent(t, node)
        moved  == rb_set_child(t, node, Other(s), t.n[up][s])
        joined == rb_set_child(adopt(moved, t.n[up][s], node), up, s, node)
    IN  rb_set_parent(
            replace(rb_set_parent(joined, up, parent), parent, node, up),
            node, up)

rb_link_node(t, node, parent, s) ==
    LET linked == [root |-> t.root,
                   n |-> [x \in DOMAIN t.n \cup {node} |->
                            IF x = node
                            THEN [l |-> Nil, r |-> Nil, parent |-> parent,
                                  color |-> "red"]
                            ELSE t.n[x]]]
    IN  IF parent = Nil THEN [linked EXCEPT !.root = node]
        ELSE rb_set_child(linked, parent, s, node)

blacken_root(t) == rb_set_color(t, t.root, "black")

RECURSIVE rb_insert_color(_, _)
rb_insert_color(t, node) ==
    LET parent == rb_parent(t, node)
    IN  IF parent = Nil \/ ~rb_is_red(t, parent) THEN blacken_root(t)
        ELSE LET gparent == rb_parent(t, parent)
                 s == SideOf(t, parent)
                 uncle == t.n[gparent][Other(s)]
                 inner == t.n[parent][Other(s)] = node
                 straight == IF inner THEN rb_rotate(t, parent, s) ELSE t
                 top == IF inner THEN node ELSE parent
                 low == IF inner THEN parent ELSE node
             IN  IF black_or_null(t, uncle)
                 THEN rb_insert_color(
                        rb_rotate(rb_set_color(
                            rb_set_color(straight, top, "black"),
                            gparent, "red"), gparent, Other(s)), low)
                 ELSE rb_insert_color(
                        rb_set_color(rb_set_color(
                            rb_set_color(t, uncle, "black"),
                            parent, "black"), gparent, "red"), gparent)

RECURSIVE rb_erase_color(_, _, _)
\* __rb_erase_color: node, which may be Nil, is short of one black.
rb_erase_color(t, node, parent) ==
    IF ~black_or_null(t, node) \/ node = t.root
    THEN IF node = Nil THEN t ELSE rb_set_color(t, node, "black")
    ELSE LET s == IF t.n[parent].l = node THEN "l" ELSE "r"
             o == Other(s)
             first == t.n[parent][o]
             t1 == IF rb_is_red(t, first)
                   THEN rb_rotate(rb_set_color(rb_set_color(t, first, "black"),
                                               parent, "red"), parent, s)
                   ELSE t
             other == t1.n[parent][o]
             t2 == IF black_or_null(t1, t1.n[other][o])
                   THEN rb_rotate(rb_set_color(
                            rb_set_color(t1, t1.n[other][s], "black"),
                            other, "red"), other, o)
                   ELSE t1
             last == t2.n[parent][o]
         IN  IF /\ black_or_null(t1, t1.n[other].l)
                /\ black_or_null(t1, t1.n[other].r)
             THEN rb_erase_color(rb_set_color(t1, other, "red"),
                                 parent, rb_parent(t1, parent))
             ELSE blacken_root(rb_rotate(
                    rb_set_color(rb_set_color(
                        rb_set_color(t2, last, t2.n[parent].color),
                        parent, "black"), t2.n[last][o], "black"), parent, s))

RECURSIVE leftmost(_, _)
leftmost(t, x) == IF t.n[x].l = Nil THEN x ELSE leftmost(t, t.n[x].l)

unlink(t, node) ==
    [t EXCEPT !.n = [x \in DOMAIN t.n \ {node} |-> t.n[x]]]

\* At most one child: it takes the place of the node.
erase_simple(t, node) ==
    LET child == IF t.n[node].l = Nil THEN t.n[node].r ELSE t.n[node].l
        parent == rb_parent(t, node)
        cut == unlink(replace(adopt(t, child, parent), parent, node, child),
                      node)
    IN  IF rb_is_red(t, node) THEN cut ELSE rb_erase_color(cut, child, parent)

\* Two children: the successor takes the node's place and colour.
erase_inner(t, old) ==
    LET node == leftmost(t, t.n[old].r)
        child == t.n[node].r
        up == rb_parent(t, node)
        parent == IF up = old THEN node ELSE up
        placed == replace(t, rb_parent(t, old), old, node)
        freed == IF up = old THEN placed
                 ELSE rb_set_parent(
                        rb_set_child(
                            rb_set_child(adopt(placed, child, up),
                                         up, "l", child),
                            node, "r", t.n[old].r), t.n[old].r, node)
        took == [freed EXCEPT !.n[node].parent = t.n[old].parent,
                              !.n[node].color = t.n[old].color,
                              !.n[node].l = t.n[old].l]
        cut == unlink(rb_set_parent(took, t.n[old].l, node), old)
    IN  IF rb_is_red(t, node) THEN cut ELSE rb_erase_color(cut, child, parent)

rb_erase(t, node) ==
    IF t.n[node].l = Nil \/ t.n[node].r = Nil
    THEN erase_simple(t, node) ELSE erase_inner(t, node)

rb_first(t) == IF t.root = Nil THEN Nil ELSE leftmost(t, t.root)

-----------------------------------------------------------------------------
RECURSIVE descend(_, _, _, _)
\* The search loops of the callers: d[x] is the key looked for minus the key
\* of x.  Where the search ends, or the node that was found.
descend(t, d, x, last) ==
    IF x = Nil
    THEN [found |-> Nil, parent |-> last,
          side |-> IF last # Nil /\ d[last] < 0 THEN "l" ELSE "r"]
    ELSE IF d[x] = 0 THEN [found |-> x]
    ELSE descend(t, d, t.n[x][IF d[x] < 0 THEN "l" ELSE "r"], x)

-----------------------------------------------------------------------------
(***************************************************************************)
(* What a red-black tree is.                                               *)
(***************************************************************************)
RECURSIVE InOrder(_, _)
InOrder(t, x) ==
    IF x = Nil THEN <<>>
    ELSE InOrder(t, t.n[x].l) \o <<x>> \o InOrder(t, t.n[x].r)

RECURSIVE BlackHeights(_, _)
BlackHeights(t, x) ==
    IF x = Nil THEN {0}
    ELSE {h + (IF rb_is_red(t, x) THEN 0 ELSE 1) :
            h \in BlackHeights(t, t.n[x].l) \cup BlackHeights(t, t.n[x].r)}

\* Every linked node is in the tree once, in the order of the keys; parents
\* and children name each other; the root is black, a red node has no red
\* child, and all paths have the same number of black nodes.
IsRedBlack(t, key) ==
    LET order == InOrder(t, t.root)
    IN  /\ Len(order) = Cardinality(DOMAIN t.n)
        /\ \A i \in 1..(Len(order) - 1) : key[order[i]] < key[order[i + 1]]
        /\ t.root # Nil => rb_parent(t, t.root) = Nil /\ ~rb_is_red(t, t.root)
        /\ \A x \in DOMAIN t.n : \A s \in {"l", "r"} :
              t.n[x][s] # Nil =>
                  /\ rb_parent(t, t.n[x][s]) = x
                  /\ ~(rb_is_red(t, x) /\ rb_is_red(t, t.n[x][s]))
        /\ Cardinality(BlackHeights(t, t.root)) = 1

=============================================================================
