----------------------------- MODULE DeviceTree -----------------------------
(***************************************************************************)
(* The device tree the hypervisor edits for the host VM: an index tree in   *)
(* an arena, its depth-first iterator, and its conversion to and from the   *)
(* flattened form (FDT). Any allocation may fail when CanFail is TRUE.      *)
(***************************************************************************)
EXTENDS Integers, Sequences, SequencesExt, FiniteSets

CONSTANTS
    MaxNodes,           \* number of nodes ever allocated
    MaxProps,           \* number of properties of a node
    Length,             \* the strings and values in use -> their lengths in bytes, without NUL
    NodeName, PropName, Value,  \* the ones that name nodes, name properties, and are values
    CanFail             \* whether an allocation may fail

DeviceTreeAssumption ==
    /\ MaxNodes \in Nat \ {0} /\ MaxProps \in Nat /\ CanFail \in BOOLEAN
    /\ {""} \cup NodeName \cup PropName \cup Value \subseteq DOMAIN Length
    /\ \A s \in DOMAIN Length : Length[s] \in Nat

VARIABLES
    tree,               \* [nodes: the arena, root, next: the ID of the next node allocated]
    handles             \* the IDs that add_node() has returned, removed since or not

vars == <<tree, handles>>

None == 0
Id == 1..MaxNodes

\* An ID of the arena is never used again, so the nodes are a function on IDs that grows.
DeviceTreeNode(name) == [name |-> name, parent |-> None, children |-> <<>>, props |-> <<>>]
New == [nodes |-> <<>>, root |-> None, next |-> 1]
Live(t) == DOMAIN t.nodes
alloc_node(t, name) ==
    [t EXCEPT !.nodes = [i \in Live(t) \cup {t.next} |-> IF i = t.next THEN DeviceTreeNode(name) ELSE t.nodes[i]],
              !.next = @ + 1]

\* add_node(): the tree afterwards, and whether it succeeds. A node that gets no place in the
\* tree stays in the arena.
add_child(t, p, i) == [t EXCEPT !.nodes[p].children = Append(@, i)]
add_node(t, name, parent, reserves) ==
    LET a == alloc_node(t, name)
        b == [a EXCEPT !.nodes[t.next].parent = parent]
    IN CASE parent = None /\ t.root = None -> [tree |-> [a EXCEPT !.root = t.next], ok |-> TRUE]
         [] parent = None /\ t.root # None -> [tree |-> a, ok |-> FALSE]
         [] parent # None /\ parent \notin Live(t) -> [tree |-> b, ok |-> FALSE]
         [] OTHER -> [tree |-> IF reserves THEN add_child(b, parent, t.next) ELSE b, ok |-> reserves]

-----------------------------------------------------------------------------
\* DeviceTreeIter: the node that next() returns next, and its depth.
IterFrom(root) == [current |-> root, depth |-> 0]
FirstOf(s) == IF s = <<>> THEN None ELSE s[1]
After(s, x) == FirstOf(SubSeq(s, SelectInSeq(s, LAMBDA y : y = x) + 1, Len(s)))

\* Up the tree to the next sibling of an ancestor, but not past the root of the iterator.
RECURSIVE Climb(_, _, _, _)
Climb(t, root, i, depth) ==
    LET p == t.nodes[i].parent
    IN IF p = None \/ i = root THEN [current |-> None, depth |-> depth]
       ELSE IF After(t.nodes[p].children, i) # None
       THEN [current |-> After(t.nodes[p].children, i), depth |-> depth]
       ELSE Climb(t, root, p, depth - 1)

set_next_node(t, root, it) ==
    LET children == t.nodes[it.current].children
    IN IF children # <<>> THEN [current |-> children[1], depth |-> it.depth + 1]
       ELSE Climb(t, root, it.current, it.depth)

\* The steps of the iterator: the node returned, and depth() after that.
RECURSIVE Steps(_, _, _)
Steps(t, root, it) ==
    IF it.current \notin Live(t) THEN <<>>
    ELSE LET n == set_next_node(t, root, it)
         IN <<[id |-> it.current, depth |-> n.depth]>> \o Steps(t, root, n)
iter_from(t, root) == Steps(t, root, IterFrom(root))

-----------------------------------------------------------------------------
\* remove_node(): out of its parent, or the root is gone; then it and what is below it leave
\* the arena, unless the list of them cannot be allocated.
\* Mutant: the parent keeps its child.
unlink_kept(t, i) == IF t.nodes[i].parent = None THEN [t EXCEPT !.root = None] ELSE [t EXCEPT !.nodes[i].parent = None]
unlink(t, i) ==
    LET p == t.nodes[i].parent
    IN IF p = None THEN [t EXCEPT !.root = None]
       ELSE [t EXCEPT !.nodes[i].parent = None, !.nodes[p].children = SelectSeq(@, LAMBDA c : c # i)]
Discard(t, ids) == [t EXCEPT !.nodes = [i \in Live(t) \ ids |-> t.nodes[i]]]
\* Mutant: the node alone.
to_remove(t, i) == {s.id : s \in ToSet(iter_from(t, i))}
remove_node(t, i, reserves) ==
    LET u == unlink(t, i) IN IF reserves THEN Discard(u, to_remove(u, i)) ELSE u

Reserves == IF CanFail THEN BOOLEAN ELSE {TRUE}

Init == tree = New /\ handles = {}

\* The caller has the IDs that add_node() returned; it may use them after the node is gone.
AddNode(name, parent) ==
    /\ tree.next <= MaxNodes
    /\ \E reserves \in Reserves :
          LET r == add_node(tree, name, parent, reserves)
          IN /\ tree' = r.tree
             /\ handles' = IF r.ok THEN handles \cup {tree.next} ELSE handles

RemoveNode(i) ==
    /\ i \in Live(tree)
    /\ \E reserves \in Reserves : tree' = remove_node(tree, i, reserves)
    /\ UNCHANGED handles

\* add_prop(), then set_value_*() of the property, which stays empty if that fails.
AddProp(i, name, value) ==
    /\ i \in Live(tree) /\ Len(tree.nodes[i].props) < MaxProps
    /\ \E reserves \in Reserves :
          tree' = [tree EXCEPT !.nodes[i].props =
                      Append(@, [name |-> name, value |-> IF reserves THEN value ELSE ""])]
    /\ UNCHANGED handles

\* set_props() with clones of another node's properties, all or as many as can be allocated.
SetProps(i, j) ==
    /\ i \in Live(tree) /\ j \in Live(tree) \ {i}
    /\ LET props == tree.nodes[j].props
       IN \E n \in IF CanFail THEN 0..Len(props) ELSE {Len(props)} :
             tree' = [tree EXCEPT !.nodes[i].props = SubSeq(props, 1, n)]
    /\ UNCHANGED handles

\* remove_prop(): the first property of that name.
RemoveProp(i, name) ==
    /\ i \in Live(tree)
    /\ LET at == SelectInSeq(tree.nodes[i].props, LAMBDA p : p.name = name)
       IN at # 0 /\ tree' = [tree EXCEPT !.nodes[i].props = RemoveAt(@, at)]
    /\ UNCHANGED handles

Next ==
    \/ \E name \in NodeName, parent \in handles \cup {None} : AddNode(name, parent)
    \/ \E i \in handles : \/ RemoveNode(i)
                          \/ \E j \in handles : SetProps(i, j)
                          \/ \E name \in PropName : RemoveProp(i, name) \/ \E v \in Value : AddProp(i, name, v)
Spec == Init /\ [][Next]_vars

-----------------------------------------------------------------------------
\* The flattened form. Strings are stored with a NUL at the end, blocks are multiples of 4.
RawLen(s) == Length[s] + 1
fdt_align_size(n) == ((n + 3) \div 4) * 4
NodeStart(name) == [kind |-> "start", name |-> name]
NodeEnd == [kind |-> "end"]
Prop(off, value) == [kind |-> "prop", nameoff |-> off, value |-> value]
End == [kind |-> "finish"]
size(tok) ==
    CASE tok.kind = "start" -> 4 + fdt_align_size(RawLen(tok.name))
      [] tok.kind = "prop" -> 12 + fdt_align_size(Length[tok.value])
      [] OTHER -> 4

\* get_layout()
get_layout(t) ==
    LET Grow(l, s) ==
            LET n == t.nodes[s.id]
            IN [struct |-> l.struct + size(NodeStart(n.name)) + size(NodeEnd)
                             + FoldLeft(LAMBDA a, p : a + size(Prop(0, p.value)), 0, n.props),
                strings |-> l.strings + FoldLeft(LAMBDA a, p : a + RawLen(p.name), 0, n.props)]
        l == FoldLeft(Grow, [struct |-> 0, strings |-> 0], iter_from(t, t.root))
    IN [header |-> 40, resv |-> 16, struct |-> l.struct + size(End), strings |-> l.strings]
output_size(l) == fdt_align_size(l.header + l.resv + l.struct + l.strings)

\* FdtWriter: the tokens with the bytes left of the structure block, and the strings pushed,
\* by offset. push_token() panics when the block is too small: its size is then negative.
push_struct(n) == fdt_align_size(n)
push_token(w, tok) ==
    LET raw == CASE tok.kind = "start" -> push_struct(RawLen(tok.name))
                 [] tok.kind = "prop" -> 8 + push_struct(Length[tok.value])
                 [] OTHER -> 0
    IN [w EXCEPT !.struct_buf = @ - 4 - raw, !.tokens = Append(@, tok)]
push_string(w, s) ==
    [w EXCEPT !.strings = Append(@, [at |-> w.string_pos, string |-> s]),
              !.strings_buf = @ - RawLen(s), !.string_pos = @ + RawLen(s)]
push_prop(w, p) == push_token(push_string(w, p.name), Prop(w.string_pos, p.value))

\* write_to(): after a node either its first child follows, or as many nodes end as it takes to
\* get to the depth of the next one.
\* Mutant: the node ends, but not its ancestors.
ends(depth, next) == 1 + depth - next
write_node(t, w, s) ==
    LET n == t.nodes[s.id]
        v == FoldLeft(push_prop, push_token(w, NodeStart(n.name)), n.props)
    IN IF s.depth > w.depth THEN [v EXCEPT !.depth = @ + 1]
       ELSE [FoldLeft(push_token, v, [i \in 1..ends(w.depth, s.depth) |-> NodeEnd]) EXCEPT !.depth = s.depth]
write_to(t) ==
    LET l == get_layout(t)
        w == [struct_buf |-> l.struct, strings_buf |-> l.strings, string_pos |-> 0, depth |-> 0,
              tokens |-> <<>>, strings |-> <<>>]
    IN push_token(FoldLeft(LAMBDA x, s : write_node(t, x, s), w, iter_from(t, t.root)), End)

\* string_at_offset() and parse_iter() of the fdt-rs library, and DeviceTree::from().
string_at_offset(w, off) ==
    LET hits == {e \in ToSet(w.strings) : e.at = off} IN IF hits = {} THEN "" ELSE (CHOOSE e \in hits : TRUE).string
from(w) ==
    LET Step(s, tok) ==
            CASE tok.kind = "start" ->
                     [tree |-> add_node(s.tree, tok.name, s.parent, TRUE).tree, parent |-> s.tree.next]
              [] tok.kind = "end" -> [s EXCEPT !.parent = s.tree.nodes[s.parent].parent]
              [] tok.kind = "prop" ->
                     [s EXCEPT !.tree.nodes[s.parent].props =
                         Append(@, [name |-> string_at_offset(w, tok.nameoff), value |-> tok.value])]
              [] OTHER -> s
    IN FoldLeft(Step, [tree |-> New, parent |-> None], w.tokens).tree

-----------------------------------------------------------------------------
\* What the tree means: the nodes below i in order, with their depths, and the tree as a term.
RECURSIVE Preorder(_, _, _), Term(_, _)
Preorder(t, i, depth) ==
    IF i \notin Live(t) THEN <<>>
    ELSE FoldLeft(LAMBDA s, c : s \o Preorder(t, c, depth + 1), <<[id |-> i, depth |-> depth]>>, t.nodes[i].children)
Term(t, i) == <<t.nodes[i].name, t.nodes[i].props,
                [k \in 1..Len(t.nodes[i].children) |-> Term(t, t.nodes[i].children[k])]>>
Below(t, i) == {s.id : s \in ToSet(Preorder(t, i, 0))}
Reach(t) == IF t.root = None THEN {} ELSE Below(t, t.root)

\* "this implementation guarantees that the tree structure itself is well-formed": the nodes in
\* the tree are in the arena, and each one but the root is once in the children of its parent.
WellFormed ==
    LET R == Reach(tree)
        Occurs(i, p) == Cardinality({k \in DOMAIN tree.nodes[p].children : tree.nodes[p].children[k] = i})
    IN /\ tree.root # None => tree.root \in Live(tree) /\ tree.nodes[tree.root].parent = None
       /\ \A p \in R : ToSet(tree.nodes[p].children) \subseteq Live(tree)
       /\ \A i \in R \ {tree.root}, p \in R : Occurs(i, p) = IF p = tree.nodes[i].parent THEN 1 ELSE 0

\* iter_from() goes through the node and all below it once, in depth-first order, and depth() is
\* the depth of the node that comes next.
IterIsDepthFirst ==
    \A i \in handles \cap Live(tree) :
        LET p == Preorder(tree, i, 0)  s == iter_from(tree, i)
        IN /\ Len(s) = Len(p)
           /\ \A k \in DOMAIN s : s[k].id = p[k].id /\ s[k].depth = IF k < Len(p) THEN p[k + 1].depth ELSE 0

\* remove_node() "removes the node and all of its descendents from the tree", and no other node.
RemovesSubtreeStep ==
    \A i \in handles \cap Live(tree) : RemoveNode(i) => Reach(tree') = Reach(tree) \ Below(tree, i)

\* A tree that is written and parsed again is the same tree.
RoundTrip ==
    tree.root # None => LET t == from(write_to(tree)) IN t.root # None /\ Term(t, t.root) = Term(tree, tree.root)

\* The blocks that get_layout() sizes are filled exactly: no push runs out of its block ("The
\* buffer must be large enough"), and no bytes are left that a parser would take for a token.
LayoutExact ==
    LET w == write_to(tree)  l == get_layout(tree)
    IN w.struct_buf = 0 /\ w.strings_buf = 0 /\ output_size(l) >= l.header + l.resv + l.struct + l.strings
=============================================================================
