------------------------------ MODULE AyForest ------------------------------
(***************************************************************************)
(* What the array of AyYnode stands for: an ordered tree whose nodes carry *)
(* an identifier, and the six edits the transformations of augyang make of *)
(* it.  A node is [id, kids] with kids the sequence of its children.  Each *)
(* edit is the set of trees it can make of a tree, by an edit at the root  *)
(* or by the same edit of one of the children.                             *)
(***************************************************************************)
EXTENDS Integers, Sequences

CONSTANT Ids            \* identifiers a node can have

VARIABLE root

\* The kids with the n of them from position k on replaced by s.
Splice(kids, k, n, s) ==
  SubSeq(kids, 1, k - 1) \o s \o SubSeq(kids, k + n, Len(kids))

\* Position and length of the runs of consecutive children.
Runs(kids) ==
  {w \in (1..(Len(kids) + 1)) \X (0..Len(kids)) : w[1] + w[2] <= Len(kids) + 1}

RECURSIVE Subtrees(_)
Subtrees(n) == {n} \cup UNION {Subtrees(n.kids[k]) : k \in DOMAIN n.kids}

RECURSIVE Size(_)
Size(n) ==
  LET Sum[k \in 0..Len(n.kids)] == IF k = 0 THEN 1 ELSE Sum[k - 1] + Size(n.kids[k])
  IN  Sum[Len(n.kids)]

\* A new node takes the place of a run of children and adopts them.
RECURSIVE Grouped(_, _)
Grouped(n, id) ==
  {[n EXCEPT !.kids = Splice(@, w[1], w[2],
       <<[id |-> id, kids |-> SubSeq(n.kids, w[1], w[1] + w[2] - 1)]>>)] :
     w \in Runs(n.kids)}
  \cup UNION {{[n EXCEPT !.kids[k] = m] : m \in Grouped(n.kids[k], id)} :
                k \in DOMAIN n.kids}

\* A node is replaced by its children.
RECURSIVE Ungrouped(_)
Ungrouped(n) ==
  {[n EXCEPT !.kids = Splice(@, k, 1, n.kids[k].kids)] : k \in DOMAIN n.kids}
  \cup UNION {{[n EXCEPT !.kids[k] = m] : m \in Ungrouped(n.kids[k])} :
                k \in DOMAIN n.kids}

\* A run of subtrees is cut: the tree that is left and the subtrees.
RECURSIVE Cuts(_)
Cuts(n) ==
  {[rest |-> [n EXCEPT !.kids = Splice(@, w[1], w[2], <<>>)],
    cut |-> SubSeq(n.kids, w[1], w[1] + w[2] - 1)] : w \in Runs(n.kids)}
  \cup UNION {{[rest |-> [n EXCEPT !.kids[k] = c.rest], cut |-> c.cut] :
                 c \in Cuts(n.kids[k])} : k \in DOMAIN n.kids}

Pruned(n) == {c.rest : c \in Cuts(n)}

\* The subtree u is put somewhere into the tree.
RECURSIVE Planted(_, _)
Planted(n, u) ==
  {[n EXCEPT !.kids = Splice(@, k, 0, <<u>>)] : k \in 1..(Len(n.kids) + 1)}
  \cup UNION {{[n EXCEPT !.kids[k] = m] : m \in Planted(n.kids[k], u)} :
                k \in DOMAIN n.kids}

\* A subtree is put somewhere else, at a place of the tree without it.
Moved(n) ==
  UNION {Planted(c.rest, c.cut[1]) : c \in {d \in Cuts(n) : Len(d.cut) = 1}}

\* A subtree is put somewhere a second time, identifiers and all.
Copied(n) == UNION {Planted(n, u) : u \in Subtrees(n) \ {n}}

\* A node and a child of it exchange their identifiers, and so their data.
RECURSIVE Exchanged(_)
Exchanged(n) ==
  {[n EXCEPT !.id = n.kids[k].id, !.kids[k].id = n.id] : k \in DOMAIN n.kids}
  \cup UNION {{[n EXCEPT !.kids[k] = m] : m \in Exchanged(n.kids[k])} :
                k \in DOMAIN n.kids}

\* Bound by quantifiers so that the old and the new tree are evaluated once;
\* the sizes only tell which edits the step can be.
Edit ==
  \E r \in {root}, s \in {root'} :
    LET more == Size(s) - Size(r)
    IN  \/ more = 1 /\ \E id \in Ids : s \in Grouped(r, id)
        \/ more = -1 /\ s \in Ungrouped(r)
        \/ more < 0 /\ s \in Pruned(r)
        \/ more = 0 /\ (s \in Exchanged(r) \/ s \in Moved(r))
        \/ more > 0 /\ s \in Copied(r)

Spec == [][Edit]_root
=============================================================================
