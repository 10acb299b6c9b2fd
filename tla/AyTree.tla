------------------------------- MODULE AyTree -------------------------------
(***************************************************************************)
(* The life of a tree of YANG nodes: any sequence of the editing           *)
(* operations of AyYnode, each under the condition its assertions put on   *)
(* the caller.                                                             *)
(***************************************************************************)
EXTENDS AyYnode

CONSTANTS InitTrees,    \* trees to start from
          MaxOps        \* bound on the number of operations

YangType ==
  {"unknown", "leaf", "leafref", "list", "container", "case", "key", "value",
   "uses", "grouping", "rec", "root"}

YnodeFlag ==
  {"mand_true", "mand_false", "choice_mand_false", "children_mand_false",
   "value_mand_false", "value_in_choice", "grouping_children", "when_ornot",
   "grouping_reduction", "hint_mand_true", "hint_mand_false",
   "choice_created", "when_target", "grouping_choice"}

\* A node of the array; pointers to other data are numbers, 0 is NULL.
Ynode ==
  [id : Nat, desc : Nat, type : YangType, snode : Nat, label : Nat,
   value : Nat, choice : Nat, ref : Nat, flags : SUBSET YnodeFlag,
   min : Nat, wref : Nat, wval : Nat]

YnodeTree == [arr : Seq(Ynode), cap : Nat, idcnt : Nat \ {0}, ok : BOOLEAN]

\* The array is the preorder of a tree, inside the memory allocated for it,
\* and no identifier handed out will be handed out again.
TreeOK(t) ==
  /\ t \in YnodeTree
  /\ WellFormed(t.arr)
  /\ Len(t.arr) <= t.cap /\ t.ok
  /\ \A i \in 2..Len(t.arr) : t.arr[i].id \in 1..(t.idcnt - 1)

ASSUME TreeAssumption ==
  /\ MaxOps \in Nat
  /\ \A t \in InitTrees : TreeOK(t)

VARIABLES tree,
          ops           \* operations so far

vars == <<tree, ops>>

Nodes == 2..Len(tree.arr)       \* every node but the root

\* The caller has reserved memory for n more nodes, as the assertions at the
\* start of the operations demand.
Reserved(n) == Len(tree.arr) + n <= tree.cap

Init == tree \in InitTrees /\ ops = 0

Insert ==
  /\ Reserved(1)
  /\ \/ \E i \in Nodes : tree' = InsertWrapper(tree, i)
     \/ \E i \in Nodes : tree' = InsertParent(tree, i)
     \/ \E i \in Nodes : tree' = InsertParentForRest(tree, i)
     \/ \E i \in Nodes : tree' = InsertSibling(tree, i)
     \/ \E i \in 1..Len(tree.arr) : tree' = InsertChild(tree, i)
     \/ \E i \in 1..Len(tree.arr) : tree' = InsertChildLast(tree, i)

Delete ==
  \E i \in Nodes :
    \/ /\ tree.arr[i].type = "case" => AloneInChoice(tree.arr, i)
       /\ tree' = DeleteNode(tree, i)
    \/ tree' = DeleteSubtree(tree, i)
    \/ \E keep \in BOOLEAN : tree' = DeleteChildren(tree, i, keep)

\* A subtree is moved anywhere but into itself.
MoveNodes ==
  \E src \in Nodes : \E dst \in 1..Len(tree.arr) \ Subtree(tree.arr, src) :
    \/ dst # 1 /\ tree' = MoveAsSibling(tree, dst, src)
    \/ tree' = MoveAsChild(tree, dst, src)
    \/ tree' = MoveAsLastChild(tree, dst, src)

CopyNodes ==
  \E src \in Nodes :
    /\ Reserved(tree.arr[src].desc + 1)
    /\ \/ \E dst \in 1..Len(tree.arr) \ Subtree(tree.arr, src) :
            tree' = CopyAsLastChild(tree, dst, src)
       \/ \E dst \in (Nodes \ Subtree(tree.arr, src)) \cup {src} :
            tree' = CopyAsSibling(tree, dst, src)

\* A node and its parent change places.
SwapNodes ==
  \E i \in Nodes : LET p == Parent(tree.arr, i)
                   IN  p # 1 /\ tree' = Swap(tree, i, p)

NextStep ==
  /\ ops < MaxOps
  /\ ops' = ops + 1
  /\ Insert \/ Delete \/ MoveNodes \/ CopyNodes \/ SwapNodes

Spec == Init /\ [][NextStep]_vars

(***************************************************************************)
(* Properties                                                              *)
(***************************************************************************)

\* Every operation leaves a sound tree: the array is the preorder of a tree,
\* inside its memory, the assertions on that memory held, and the identifiers
\* in use are below the next one.
TypeOK == TreeOK(tree) /\ ops \in 0..MaxOps

\* The node a 'when' of node i refers to (ay_ynode_when_target): the nearest
\* ancestor that is it or has it below.
WhenNode(a, i) ==
  LET has == {p \in Ancestors(a, i) : \E j \in Subtree(a, p) : a[j].id = a[i].wref}
      p == LastOf(has)
  IN  IF p = Null THEN Null
      ELSE IF a[p].id = a[i].wref THEN p
      ELSE FirstOf({j \in Subtree(a, p) : a[j].id = a[i].wref})

\* The step copies the subtree at src to index at.
CopyStep(at, src) ==
  /\ Len(tree'.arr) = Len(tree.arr) + tree.arr[src].desc + 1
  /\ \E dst \in (1..Len(tree.arr) \ Subtree(tree.arr, src)) \cup {src} :
       /\ at = Past(tree.arr, dst)
       /\ \/ dst # 1 /\ tree' = CopyAsSibling(tree, dst, src)
          \/ dst # src /\ tree' = CopyAsLastChild(tree, dst, src)

\* Every node with the identifier of src has the same subtree as src: the copies
\* made of it before were not edited, and the lookup of the original by its
\* identifier (ay_ynode_get_node) cannot end with another subtree.
TrueCopies(a, src) ==
  \A j \in 2..Len(a) : a[j].id = a[src].id =>
    /\ a[j].desc = a[src].desc
    /\ \A k \in 0..a[src].desc : a[j + k] = a[src + k]

\* A node of a copy whose original has a 'when' on a node of the copied
\* subtree, flagged AY_WHEN_TARGET, refers to the copy of that node, although
\* both have the same identifier: "ay_ynode.when_ref must refer to a node in
\* the copied tree and not in the original one" (augyang.c:2624).
InnerWhenFollows ==
  [][\A src \in Nodes, at \in 2..(Len(tree.arr) + 1) :
       CopyStep(at, src) /\ TrueCopies(tree.arr, src) =>
         \A i \in Subtree(tree.arr, src) \ {src} :
           LET w == WhenNode(tree.arr, i)
           IN  /\ tree.arr[i].wref # 0 /\ w \in Subtree(tree.arr, src)
               /\ "when_target" \in tree.arr[w].flags
               => WhenNode(tree'.arr, at + i - src) = at + w - src]_vars
=============================================================================
