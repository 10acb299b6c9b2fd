------------------------------ MODULE MCAyTree ------------------------------
EXTENDS AyTree, FiniteSets

N(id, desc, type, choice) ==
  [Blank(id) EXCEPT !.desc = desc, !.type = type, !.choice = choice]

Root(desc) == N(0, desc, "root", Null)

\* Every preorder of n nodes, by the numbers of their descendants.
Shapes(n) == {d \in [1..n -> 0..(n - 1)] :
                WellFormed([i \in 1..n |-> N(i - 1, d[i], "list", Null)])}

Plain(d) == [i \in DOMAIN d |->
               IF i = 1 THEN Root(d[1]) ELSE N(i - 1, d[i], "container", Null)]

\* The nodes with more than one child.
Wide(a) == {p \in 1..Len(a) : Cardinality(Children(a, p)) > 1}

\* The children of node p are the branches of a choice, those with nodes
\* below them as case statements or not.
Chosen(a, p, type) ==
  [i \in DOMAIN a |->
     IF i \notin Children(a, p) THEN a[i]
     ELSE [a[i] EXCEPT !.choice = 1, !.flags = {"children_mand_false"},
                       !.type = IF a[i].desc > 0 THEN type ELSE "leaf"]]

\* Node p has a key and a value before its other children.
Keyed(a, p) ==
  [i \in DOMAIN a |->
     IF i = p + 1 THEN [a[i] EXCEPT !.type = "key"]
     ELSE IF i = p + 2 THEN [a[i] EXCEPT !.type = "value"] ELSE a[i]]

\* A 'when' on the first child of node p, from the last node below it.
Whened(a, p) ==
  [i \in DOMAIN a |->
     IF i = p + 1 THEN [a[i] EXCEPT !.type = "value", !.flags = {"when_target"}]
     ELSE IF i = Past(a, p) - 1 THEN [a[i] EXCEPT !.wref = p] ELSE a[i]]

Decorated(a) ==
  {a}
  \cup {Chosen(a, p, type) : p \in Wide(a),
                             type \in {"container", "case"}}
  \cup {Keyed(a, p) : p \in Wide(a) \ {1}}
  \cup {Whened(a, p) : p \in Wide(a)}

Trees(n) == {[arr |-> a, cap |-> n + 3, idcnt |-> n, ok |-> TRUE] :
               a \in UNION {Decorated(Plain(d)) : d \in Shapes(n)}}

MCTrees == Trees(4)

\* The refinement mapping: the nested tree at index 1 of the array.  The
\* concatenation makes TLC evaluate the children once.
KthChild(a, i, k) ==
  CHOOSE j \in Children(a, i) : Cardinality({c \in Children(a, i) : c <= j}) = k

Nested(a) ==
  LET At[i \in 1..Len(a)] ==
        [id |-> a[i].id,
         kids |-> <<>> \o [k \in 1..Cardinality(Children(a, i)) |-> At[KthChild(a, i, k)]]]
  IN  At[1]

Forest == INSTANCE AyForest WITH root <- Nested(tree.arr), Ids <- 0..20

\* The array operations implement the edits of an ordered tree: every step,
\* on every array, is one of the six edits or leaves the tree as it is.
Refinement == Forest!Spec
=============================================================================
