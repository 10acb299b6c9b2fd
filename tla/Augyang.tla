------------------------------ MODULE Augyang ------------------------------
(***************************************************************************)
(* augyang (src/src/augyang.c): the YANG tree of a lens, made by a         *)
(* pipeline of transformations of one array of nodes.                      *)
(*                                                                         *)
(* A step is one iteration of a transformation's loop (AyShape, AyMerge,   *)
(* AyOrder, AyMandatory and AyGroup define them), or the turn to the next  *)
(* transformation, which first makes room for the nodes it announces.      *)
(* phase is the transformation that runs, i its position in the array; an  *)
(* assertion that fails or a NULL that is followed ends in phase "abort".  *)
(***************************************************************************)
EXTENDS AyGroup

\* The lenses to generate YANG for, terms of AyLnode.

CONSTANT Lenses

VARIABLES lens, tree, phase, i

vars == <<lens, tree, phase, i>>

\* ay_ynode_transformations, up to those that depend on the names of nodes.
Pipeline ==
  <<"implicit_list", "set_type", "type_unknown", "build_list", "build_list_reverse",
    "unite_choice", "set_lv", "more_keys", "insert_case", "copy_case_nodes",
    "equal_cases", "merge_cases", "useless_choice", "list_files", "ordered_entries",
    "recursive_form", "key_and_value", "dependence", "mandatory",
    "empty_branch", "mandatory_in_list", "mandatory_choice", "choice_in_list",
    "when_ornot", "by_copy", "set_ref_rec", "set_ref", "groupings_rec",
    "groupings_toplevel", "delete_ynrec", "node_split", "groupings_ahead", "done">>

\* The number of nodes a transformation asks room for; those that only delete
\* or set something ask for none and always run.
Inserting ==
  {"implicit_list", "more_keys", "insert_case", "copy_case_nodes", "merge_cases",
   "list_files", "ordered_entries", "recursive_form", "key_and_value",
   "by_copy", "groupings_rec", "groupings_toplevel", "node_split"}

ItemsCount(t, p) ==
  CASE p = "implicit_list" -> RuleImplicitList(t)
    [] p = "more_keys" -> RuleMoreKeys(t)
    [] p = "insert_case" -> RuleInsertCase(t)
    [] p = "copy_case_nodes" -> RuleCopyCaseNodes(t)
    [] p = "merge_cases" -> RuleMergeCases(t)
    [] p = "list_files" -> 1
    [] p = "ordered_entries" -> RuleOrderedEntries(t)
    [] p = "recursive_form" -> RuleRecursiveForm(t)
    [] p = "key_and_value" -> RuleKeyAndValue(t)
    [] p = "by_copy" -> RuleByCopy(t)
    [] p = "groupings_rec" -> RuleGroupingsRec(t)
    [] p = "groupings_toplevel" -> RuleGroupingsToplevel(t)
    [] p = "node_split" -> RuleNodeSplit(t, 1)

\* The loops visit the indices up to this one.
Last ==
  CASE phase = "more_keys" -> Len(tree.labels)
    [] phase \in {"list_files", "merge_cases", "groupings_ahead"} -> 2
    [] OTHER -> Len(tree.arr)

\* The index of the dictionary starts at its first item, that of the array
\* behind the root.
Start(p) == IF p = "more_keys" THEN 1 ELSE 2

Init ==
  /\ lens \in Lenses
  /\ tree = CreateTree(CreateLnodes(lens))
  /\ phase = "created"
  /\ i = 0

Successor == IF phase = "created" THEN Pipeline[1]
             ELSE Pipeline[1 + CHOOSE k \in 1..(Len(Pipeline) - 1) : Pipeline[k] = phase]

\* The size of the array when n more nodes are announced.
Room(n) == IF Len(tree.arr) + n > tree.cap THEN Len(tree.arr) + n ELSE tree.cap

\* ay_ynode_trans_insert: nothing runs when no node is announced.  Where there
\* are labels in the dictionary, their rule asserts that it announces some.
Turn ==
  /\ phase \notin {"done", "abort"}
  /\ phase = "created" \/ i > Last
  /\ LET p == Successor
         n == IF p \in Inserting THEN ItemsCount(tree, p) ELSE 1
     IN  /\ phase' = IF p = "more_keys" /\ tree.labels # <<>> /\ n = 0 THEN "abort" ELSE p
         /\ i' = IF n = 0 THEN Len(tree.arr) + Len(tree.labels) + 1 ELSE Start(p)
         /\ tree' = IF p \in Inserting /\ n > 0 THEN [tree EXCEPT !.cap = Room(n)] ELSE tree
  /\ UNCHANGED lens

\* One iteration of transformation p.
Run(p, Op(_, _)) ==
  /\ phase = p /\ i <= Last
  /\ LET s == Op(tree, i)
     IN  /\ tree' = s.t
         /\ i' = s.i
         /\ phase' = IF s.t.ok THEN phase ELSE "abort"
  /\ UNCHANGED lens

BuildListForward(t, j) == DeleteBuildList(t, j, FALSE)
BuildListReverse(t, j) == DeleteBuildList(t, j, TRUE)
MergeRound(t, j) == MergeCases(t)
ListFiles(t, j) == InsertListFiles(t)

Transform ==
  \/ Turn
  \/ Run("implicit_list", InsertImplicitList)
  \/ Run("set_type", SetType)
  \/ Run("type_unknown", DeleteTypeUnknown)
  \/ Run("build_list", BuildListForward)
  \/ Run("build_list_reverse", BuildListReverse)
  \/ Run("unite_choice", UniteChoice)
  \/ Run("set_lv", SetLv)
  \/ Run("more_keys", MoreKeysForNode)
  \/ Run("insert_case", InsertCase)
  \/ Run("copy_case_nodes", CopyCaseNodes)
  \/ Run("equal_cases", DeleteEqualCases)
  \/ Run("merge_cases", MergeRound)
  \/ Run("useless_choice", DeleteUselessChoice)
  \/ Run("list_files", ListFiles)
  \/ Run("ordered_entries", OrderedEntries)
  \/ Run("recursive_form", RecursiveForm)
  \/ Run("key_and_value", InsertKeyAndValue)
  \/ Run("dependence", DependenceOnValue)
  \/ Run("mandatory", SetMandatory)
  \/ Run("empty_branch", EmptyBranch)
  \/ Run("mandatory_in_list", MandatoryInList)
  \/ Run("mandatory_choice", MandatoryChoice)
  \/ Run("choice_in_list", ChoiceInList)
  \/ Run("when_ornot", WhenOrnot)
  \/ Run("by_copy", RecursiveFormByCopy)
  \/ Run("set_ref_rec", SetRefRecursiveForm)
  \/ Run("set_ref", SetRef)
  \/ Run("groupings_rec", GroupingsRecursiveForm)
  \/ Run("groupings_toplevel", GroupingsToplevel)
  \/ Run("delete_ynrec", DeleteYnrec)
  \/ Run("node_split", NodeSplit)
  \/ Run("groupings_ahead", GroupingsAhead)

\* The generator is one sequential program that runs until its end: the weak
\* fairness of Transform, which is enabled exactly until the end.
Progress == <>[](phase \notin {"done", "abort"}) => []<><<TRUE>>_vars

Spec == Init /\ [][Transform]_vars /\ Progress

(***************************************************************************)
(* Properties                                                              *)
(***************************************************************************)
Types == {"unknown", "root", "rec", "list", "container", "leaf", "key", "value",
          "case", "leafref", "grouping", "uses"}

\* The array is a tree with one root, its nodes refer to lenses and were given
\* an identifier (what ay_ynode_tree_correction relies on after each edit).
TypeOK ==
  /\ WellFormed(tree.arr) /\ Len(tree.arr) <= tree.cap
  /\ phase \in {"created", "abort"} \cup {Pipeline[k] : k \in 1..Len(Pipeline)}
  /\ i \in Nat
  /\ \A j \in 1..Len(tree.arr) :
       LET y == tree.arr[j]
       IN  /\ y.type \in Types /\ (y.type = "root") = (j = 1)
           /\ y.id < tree.idcnt
           /\ {y.snode, y.label, y.value, y.choice, y.wval} \subseteq 0..Len(tree.lt)

\* No assertion of the generator fails, no NULL is followed and no node is
\* written behind the memory a transformation has asked for (the assertions of
\* ay_ynode_insert_wrapper and the other edits): one rule too small, or one
\* node in a place a later transformation does not expect, ends the program.
Asserted == phase # "abort"

\* The transformation p has ended.
After(p) ==
  \E k, m \in 1..Len(Pipeline) :
    Pipeline[k] = p /\ Pipeline[m] = phase /\ (k < m \/ (k = m /\ i > Last))

\* A loop is at its end.
AtEnd == phase \in {"created", "done"} \/ i > Last

(***************************************************************************)
(* The paths of labels a lens can make.                                    *)
(***************************************************************************)
OwnLabels(l, s) == {m \in Own(l, s, s + 1) : IsLabelTag(l[m].tag)}

\* Two lenses that are not alternatives of each other.
Together(l, m, n) == l[LastOf(SelfUp(l, m) \cap SelfUp(l, n))].tag # "union"

RECURSIVE PathsTo(_, _)
PathsTo(l, n) ==
  LET s == LastOf({m \in Ancestors(l, n) : l[m].tag = "subtree"})
  IN  IF s = Null THEN {<<>>}
      ELSE {p \o <<l[m].str>> :
              p \in PathsTo(l, s), m \in {k \in OwnLabels(l, s) : Together(l, k, n)}}

LensPaths(l) ==
  UNION {{p \o <<l[m].str>> : p \in PathsTo(l, s), m \in OwnLabels(l, s)} :
           s \in {n \in Noded(l) : l[n].tag = "subtree"}}

(***************************************************************************)
(* The paths of the tree.  A key that is a regular expression is printed   *)
(* with all the patterns of its entry in the dictionary; all says whether  *)
(* they count.                                                             *)
(***************************************************************************)
Names(t, n, all) ==
  LET k == DFind(t.labels, t.arr[n].label)
  IN  IF ~all \/ k = Null \/ LabelIsIdent(t, n) THEN {t.lt[t.arr[n].label].str}
      ELSE {t.lt[v].str : v \in DValues(t.labels, k) \cup {t.arr[n].label}}

Unnamed(t, n) ==
  \/ t.arr[n].type \in {"root", "case", "rec", "grouping"}
  \/ Tag(t, t.arr[n].label) \in {"none", "star"}

RECURSIVE TreePaths(_, _, _, _)
TreePaths(t, n, above, all) ==
  LET here == IF Unnamed(t, n) THEN above
              ELSE {p \o <<x>> : p \in above, x \in Names(t, n, all)}
      Def(ref) == FirstOf({g \in Groupings(t) : t.arr[g].id = ref})
      Below(c) == IF t.arr[c].type \in {"key", "value", "leafref", "grouping"} THEN {}
                  ELSE TreePaths(t, IF t.arr[c].type = "uses" THEN Def(t.arr[c].ref) ELSE c,
                                 here, all)
  IN  here \cup UNION {Below(c) : c \in Children(t.arr, n)}

\* From the split of the labels on, no transformation loses a node: every path
\* of labels the lens can make leads to a node of the tree, whatever has been
\* merged, wrapped, copied, or replaced by the uses of a grouping.
PathsKept ==
  AtEnd /\ After("more_keys") => LensPaths(tree.lt) \subseteq TreePaths(tree, 1, {<<>>}, TRUE)

\* And none puts a node under a label the lens never has it under.  A recursive
\* lens is left out: its copies are paths of its unfolding.
NoPathInvented ==
  /\ AtEnd /\ After("more_keys")
  /\ \A n \in 1..Len(tree.lt) : tree.lt[n].tag # "rec"
  => TreePaths(tree, 1, {<<>>}, FALSE) \subseteq LensPaths(tree.lt) \cup {<<>>}

\* The nodes of a choice are neighbours in the end: print_yang prints one
\* choice statement for a run of siblings with the same choice.
ChoiceTogether ==
  phase = "done" =>
    \A j, k \in 2..Len(tree.arr) :
      /\ j < k /\ Parent(tree.arr, j) = Parent(tree.arr, k)
      /\ tree.arr[j].choice # Null /\ tree.arr[j].choice = tree.arr[k].choice
      => k \in ChoiceRun(tree.arr, j)

\* Two transformations that merge branches have left contrary hints: for the
\* node itself, and for the children of its parent.
ContraryHints(j) ==
  LET p == Parent(tree.arr, j)
      own == tree.arr[j].flags \cap {"hint_mand_true", "hint_mand_false"}
  IN  "children_mand_false" \in tree.arr[p].flags /\ own # {}

\* The five loops of ay_ynode_tree_set_mandatory and the hints of earlier
\* transformations say of no node that it is mandatory and that it is optional,
\* unless two hints do.
OneMandatory ==
  phase \in {"mandatory", "empty_branch", "mandatory_in_list", "mandatory_choice",
            "choice_in_list", "when_ornot"} =>
    \A j \in 2..Len(tree.arr) : Mand \subseteq tree.arr[j].flags => ContraryHints(j)

\* Every when statement has its target in the end, and in the same grouping:
\* the moves of groupings to the top level cut the tree into pieces, and
\* ay_ynode_when_target counts the steps up to the target from where the node
\* is, which leads nowhere when the target is not in the piece.
WhenResolved ==
  phase = "done" =>
    \A j \in {k \in 2..Len(tree.arr) : tree.arr[k].wval # Null} :
      LET target == WhenTarget(tree, j)
      IN  /\ target # Null
          /\ \A g \in Groupings(tree) :
               j \in Subtree(tree.arr, g) => target \in Subtree(tree.arr, g)

\* In the end every uses refers to a grouping in front of the list of files,
\* and one in a grouping to an earlier grouping: no grouping uses itself.
UsesResolved ==
  phase = "done" =>
    \A j \in 2..Len(tree.arr) : tree.arr[j].type = "uses" =>
      \E g \in Children(tree.arr, 1) :
        /\ tree.arr[g].type = "grouping" /\ tree.arr[g].id = tree.arr[j].ref
        /\ Past(tree.arr, g) <= j

\* The subtrees of g and h have the same nodes, those behind a uses included.
RECURSIVE SameContent(_, _, _)
SameContent(t, g, h) ==
  LET Kids(n) == ChildSeq(t.arr, n)
      Node(n) == LET y == t.arr[n]
                 IN  <<y.type, y.snode, y.label, y.value, y.min, y.flags \cap CmpMask>>
      Content(n) == IF t.arr[n].type # "uses" THEN n
                    ELSE FirstOf({d \in Groupings(t) : t.arr[d].id = t.arr[n].ref})
  IN  /\ Len(Kids(g)) = Len(Kids(h))
      /\ \A k \in DOMAIN Kids(g) :
           /\ Node(Kids(g)[k]) = Node(Kids(h)[k])
           /\ SameContent(t, Content(Kids(g)[k]), Content(Kids(h)[k]))

\* Copies of subtrees repeat the identifiers of their nodes, and a uses finds
\* its grouping by the identifier: in the end the groupings with one identifier
\* have the same content, although the nodes of each copy have been split and
\* grouped on their own.
GroupingsAgree ==
  phase = "done" =>
    \A g, h \in Groupings(tree) :
      g < h /\ tree.arr[g].id = tree.arr[h].id => SameContent(tree, g, h)

\* The generator ends: the rounds of merging, the loops that step back and the
\* passes that order the groupings too.
Terminates == <>(phase \in {"done", "abort"})
=============================================================================
