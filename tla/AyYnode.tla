------------------------------ MODULE AyYnode ------------------------------
(***************************************************************************)
(* The tree of YANG nodes of augyang (src/src/augyang.c) and the           *)
(* operations that edit it.                                                *)
(*                                                                         *)
(* The tree is ONE array in preorder; the only structure a node carries is *)
(* the number of its descendants.  The parent, next and child pointers are *)
(* derived from those numbers by ay_ynode_tree_correction after each       *)
(* operation, so the model keeps no pointers at all: an index plays the    *)
(* part of a pointer and 0 the part of NULL.  arr[1] is the root.          *)
(*                                                                         *)
(* A tree is [arr, cap, idcnt, ok]: the nodes, the number of nodes memory  *)
(* is allocated for (ay_ynode_root.arrsize), the next node identifier, and *)
(* whether the assertions that there is memory left have held so far.      *)
(***************************************************************************)
EXTENDS Integers, Sequences

Null == 0

\* A node as ay_ynode_insert_gap leaves it: zeroed, but for its identifier.
Blank(id) ==
  [id |-> id, desc |-> 0, type |-> "unknown", snode |-> Null, label |-> Null,
   value |-> Null, choice |-> Null, ref |-> 0, flags |-> {}, min |-> 0,
   wref |-> 0, wval |-> Null]

LastOf(S) == IF S = {} THEN Null ELSE CHOOSE x \in S : \A y \in S : y <= x
FirstOf(S) == IF S = {} THEN Null ELSE CHOOSE x \in S : \A y \in S : x <= y

(***************************************************************************)
(* The pointers, as ay_ynode_tree_correction derives them.                 *)
(***************************************************************************)
Past(a, i) == i + a[i].desc + 1         \* the index after the subtree of i
Subtree(a, i) == i .. (i + a[i].desc)
Ancestors(a, i) == {j \in 1..(i - 1) : i < Past(a, j)}
Parent(a, i) == LastOf(Ancestors(a, i))
Child(a, i) == IF a[i].desc > 0 THEN i + 1 ELSE Null
Next(a, i) ==
  LET p == Parent(a, i)
  IN  IF p # Null /\ Past(a, i) < Past(a, p) THEN Past(a, i) ELSE Null
Children(a, i) == {j \in Subtree(a, i) \ {i} : Parent(a, j) = i}
Siblings(a, i) == Children(a, Parent(a, i))
ChildSeq(a, i) ==
  LET From[j \in (i + 1)..Past(a, i)] ==
        IF j = Past(a, i) THEN <<>> ELSE <<j>> \o From[Past(a, j)]
  IN  From[i + 1]
LastChild(a, i) == LastOf(Children(a, i))
Prev(a, i) == LastOf({j \in Siblings(a, i) : j < i})

\* The array is the preorder of a tree: every subtree lies inside its parent's.
WellFormed(a) ==
  /\ Len(a) >= 1
  /\ a[1].desc = Len(a) - 1
  /\ \A i, j \in 1..Len(a) : i < j /\ j < Past(a, i) => Past(a, j) <= Past(a, i)

(***************************************************************************)
(* The nodes of one choice statement are the siblings with equal choice.   *)
(***************************************************************************)
FirstInChoice(a, p, c) ==
  IF c = Null \/ p = Null THEN Null
  ELSE FirstOf({j \in Children(a, p) : a[j].choice = c})

\* The run of siblings that starts at i and is in the choice of i.
ChoiceRun(a, i) ==
  {j \in Siblings(a, i) : /\ j >= i
                          /\ \A k \in Siblings(a, i) : i <= k /\ k <= j =>
                                                  a[k].choice = a[i].choice}

AloneInChoice(a, i) ==
  /\ a[i].choice # Null
  /\ i = FirstInChoice(a, Parent(a, i), a[i].choice)
  /\ LET n == Next(a, i) IN n # Null => a[n].choice # a[i].choice

GetNode(a, start, id) == FirstOf({j \in start..Len(a) : a[j].id = id})

(***************************************************************************)
(* Memory: gaps in the array.                                              *)
(***************************************************************************)
Grow(a, S, d) ==
  [j \in 1..Len(a) |-> IF j \in S THEN [a[j] EXCEPT !.desc = @ + d] ELSE a[j]]

Slice(a, i, n) == SubSeq(a, i, i + n - 1)

\* Nodes s written into a new gap at i.
InsertRange(a, i, s) == SubSeq(a, 1, i - 1) \o s \o SubSeq(a, i, Len(a))

\* Mutant: the counter of identifiers is not moved on.
InsertGapSameId(t, i, d, S) ==
  [t EXCEPT !.arr = InsertRange(Grow(@, S, 1), i, <<[Blank(t.idcnt - 1) EXCEPT !.desc = d]>>),
            !.ok = @ /\ Len(t.arr) < t.cap]

\* A gap at i filled with one new node that has d descendants; S gain one.
InsertGap(t, i, d, S) ==
  [t EXCEPT !.arr = InsertRange(Grow(@, S, 1), i, <<[Blank(t.idcnt) EXCEPT !.desc = d]>>),
            !.idcnt = @ + 1, !.ok = @ /\ Len(t.arr) < t.cap]

DeleteGap(a, i, n) == SubSeq(a, 1, i - 1) \o SubSeq(a, i + n, Len(a))

(***************************************************************************)
(* Insertion of one node.                                                  *)
(***************************************************************************)
InsertWrapper(t, i) ==
  InsertGap(t, i, t.arr[i].desc + 1, Ancestors(t.arr, i))

\* A node between the parent of i and all of the parent's children.
InsertParent(t, i) ==
  LET p == Parent(t.arr, i)
  IN  InsertGap(t, p + 1, t.arr[p].desc, Ancestors(t.arr, i))

\* Mutant: the siblings behind i are forgotten in the count of the new parent.
InsertParentForOne(t, i) ==
  InsertGap(t, i, t.arr[i].desc, Ancestors(t.arr, i))

InsertParentForRest(t, i) ==
  InsertGap(t, i, Past(t.arr, Parent(t.arr, i)) - i, Ancestors(t.arr, i))

InsertChild(t, p) == InsertGap(t, p + 1, 0, Ancestors(t.arr, p) \cup {p})

InsertSibling(t, i) == InsertGap(t, Past(t.arr, i), 0, Ancestors(t.arr, i))

\* Returns the tree; the new node is LastChild of p.
InsertChildLast(t, p) ==
  IF t.arr[p].desc > 0 THEN InsertSibling(t, LastChild(t.arr, p))
  ELSE InsertChild(t, p)

(***************************************************************************)
(* Deletion.                                                               *)
(***************************************************************************)
DeleteRange(t, i, n) ==
  [t EXCEPT !.arr = DeleteGap(Grow(@, Ancestors(t.arr, i), -n), i, n)]

DeleteSubtree(t, i) == DeleteRange(t, i, t.arr[i].desc + 1)

\* The children of r behind its YN_KEY and YN_VALUE.
InnerNodes(a, r) ==
  LET c == Child(a, r)
      k == IF c # Null /\ a[c].type = "key" THEN Next(a, c) ELSE c
  IN  IF k # Null /\ a[k].type = "value" THEN Next(a, k) ELSE k

InnerDescendants(a, r) ==
  LET n == InnerNodes(a, r) IN IF n = Null THEN 0 ELSE Past(a, r) - n

DeleteChildren(t, i, keep_keyval) ==
  LET n == IF keep_keyval THEN InnerDescendants(t.arr, i) ELSE t.arr[i].desc
      first == IF keep_keyval THEN InnerNodes(t.arr, i) ELSE i + 1
  IN  IF n = 0 THEN t ELSE DeleteRange(t, first, n)

\* A node in a choice with several children, some outside of any choice, is
\* not deleted: it becomes the case statement that keeps them together.
CastsToCase(a, i) ==
  /\ a[i].type # "case" /\ a[i].choice # Null
  /\ a[i].desc > 0 /\ Next(a, i + 1) # Null
  /\ \E c \in Children(a, i) : a[c].choice = Null

\* Otherwise its children take its place, and its choice when it has one.
DeleteNode(t, i) ==
  LET a == t.arr
      p == Parent(a, i)
      kids == Children(a, i)
      Heir(c) ==
        [a[c] EXCEPT
          !.choice = IF a[i].type # "case" /\ a[i].choice # Null
                     THEN a[i].choice ELSE @,
          !.flags = IF "children_mand_false" \in a[i].flags
                    THEN @ \cup {"hint_mand_false"} ELSE @]
      heirs == [j \in 1..Len(a) |-> IF j \in kids THEN Heir(j) ELSE a[j]]
      b == DeleteGap(Grow(heirs, Ancestors(a, i), -1), i, 1)
      only == b[p].desc > 0 /\ Next(b, p + 1) = Null
  IN  IF CastsToCase(a, i)
      THEN [t EXCEPT !.arr[i] = [@ EXCEPT !.type = "case", !.snode = Null,
                                   !.label = Null, !.value = Null,
                                   !.ref = 0, !.flags = {}]]
      ELSE [t EXCEPT !.arr = IF only THEN [b EXCEPT ![p + 1].choice = Null]
                             ELSE b]

(***************************************************************************)
(* Moving and copying.  A move takes the nodes out and puts them back into *)
(* a gap, in one block when there is room behind the array and node by     *)
(* node otherwise; both give every moved node a new identifier that the    *)
(* old node then overwrites.                                               *)
(***************************************************************************)
MoveSubtree(t, dst, src, up, down) ==
  LET n == t.arr[src].desc + 1
      a == Grow(Grow(t.arr, up, -n), down, n)
      to == IF dst > src THEN dst - n ELSE dst
  IN  IF dst = src THEN [t EXCEPT !.arr = a]
      ELSE [t EXCEPT !.arr = InsertRange(DeleteGap(a, src, n), to, Slice(a, src, n)),
                     !.idcnt = @ + n]

MoveAsSibling(t, dst, src) ==
  IF Next(t.arr, dst) = src THEN t
  ELSE MoveSubtree(t, Past(t.arr, dst), src,
                   Ancestors(t.arr, src), Ancestors(t.arr, dst))

MoveAsChild(t, dst, src) ==
  IF Child(t.arr, dst) = src THEN t
  ELSE MoveSubtree(t, dst + 1, src,
                   Ancestors(t.arr, src), Ancestors(t.arr, dst) \cup {dst})

MoveAsLastChild(t, dst, src) ==
  IF dst = src THEN t
  ELSE IF t.arr[dst].desc > 0
  THEN MoveAsSibling(t, LastChild(t.arr, dst), src)
  ELSE MoveAsChild(t, dst, src)

\* Mutant: the search for the target does not stop when it is found.
WhenRefToLast(a, cop, orig) ==
  [k \in 1..Len(a) |->
     IF k > cop /\ k <= cop + a[orig].desc /\ a[orig + k - cop].wref # 0
     THEN [a[k] EXCEPT !.wref = a[cop + a[orig].desc].id] ELSE a[k]]

\* The 'when' references of a copy: each is set to the copy of the node that
\* the search for its target in the original subtree ends with, which is the
\* last node of the subtree when the target is not there.
WhenRefCorrection(a, cop, orig) ==
  LET sub == Subtree(a, orig)
      Hit(r, j) == a[j].id = r /\ "when_target" \in a[j].flags
      Found(r) ==
        IF \E j \in sub : Hit(r, j)
        THEN FirstOf({j \in sub : Hit(r, j)}) ELSE Past(a, orig) - 1
  IN  [k \in 1..Len(a) |->
         IF k > cop /\ k <= cop + a[orig].desc /\ a[orig + k - cop].wref # 0
         THEN [a[k] EXCEPT !.wref = a[cop + Found(a[orig + k - cop].wref) - orig].id]
         ELSE a[k]]

\* The original is looked up again by its identifier, from its old index on.
CopySubtree(t, dst, src, down) ==
  LET n == t.arr[src].desc + 1
      b == InsertRange(Grow(t.arr, down, n), dst, Slice(t.arr, src, n))
  IN  [t EXCEPT !.arr = WhenRefCorrection(b, dst, GetNode(b, src, t.arr[src].id)),
                !.idcnt = @ + n, !.ok = @ /\ Len(t.arr) + n <= t.cap]

CopyAsLastChild(t, dst, src) ==
  LET last == LastChild(t.arr, dst)
  IN  IF last = src THEN t
      ELSE CopySubtree(t, Past(t.arr, dst), src,
                       Ancestors(t.arr, dst) \cup {dst})

CopyAsSibling(t, dst, src) ==
  CopySubtree(t, Past(t.arr, dst), src, Ancestors(t.arr, dst))

\* Mutant: the first node is not written back.
SwapHalf(t, i, j) ==
  [t EXCEPT !.arr[j] = [t.arr[i] EXCEPT !.desc = t.arr[j].desc,
                                        !.choice = t.arr[j].choice]]

\* Two nodes exchange their data and keep their places.
Swap(t, i, j) ==
  LET Put(x, y) == [y EXCEPT !.desc = x.desc, !.choice = x.choice]
      a == t.arr
  IN  [t EXCEPT !.arr = [a EXCEPT ![i] = Put(a[i], a[j]), ![j] = Put(a[j], a[i])]]

\* Mutant: the choice is left out.
CopyDataNoChoice(dst, src) ==
  [src EXCEPT !.id = dst.id, !.desc = dst.desc, !.choice = dst.choice]

\* ay_ynode_copy_data: everything but the place and the identifier.
CopyData(dst, src) ==
  [src EXCEPT !.id = dst.id, !.desc = dst.desc]
=============================================================================
