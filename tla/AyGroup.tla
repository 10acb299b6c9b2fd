------------------------------ MODULE AyGroup ------------------------------
(***************************************************************************)
(* augyang, fifth part: subtrees that occur several times become groupings *)
(* and uses of them, nodes with several names are split, and the groupings *)
(* are ordered (src/src/augyang.c).                                        *)
(***************************************************************************)
EXTENDS AyMandatory

ContainsType(t, i, type) == \E j \in Subtree(t.arr, i) \ {i} : t.arr[j].type = type

IsRecUse(t, j) ==
  LET y == t.arr[j]
  IN  y.type = "leafref" \/ (Tag(t, y.snode) = "rec" /\ t.lt[y.snode].rec)

RecUses(t, i) == {j \in Subtree(t.arr, i) \ {i} : IsRecUse(t, j)}
ContainsRec(t, i) == i # Null /\ RecUses(t, i) # {}

\* The first of the siblings from i on without a use of a recursive lens.
FirstPlain(t, i) ==
  IF i = Null THEN Null
  ELSE FirstOf({j \in Siblings(t.arr, i) : j >= i /\ ~ContainsRec(t, j)})

\* Mutant: a 'when' may refer to any node of the tree.
WhenPathsAnywhere(t, i, path_to_root) ==
  \A j \in Subtree(t.arr, i) \ {i} :
    t.arr[j].wref # 0 => \E m \in 2..Len(t.arr) : t.arr[m].id = t.arr[j].wref

\* Every 'when' in the subtree of i refers to a node in it, and a target in it
\* has a 'when' in it.
WhenPathsAreValid(t, i, path_to_root) ==
  LET a == t.arr
      below == Subtree(a, i) \ {i}
      whens == {j \in below : a[j].wref # 0}
      Scope(j) == {k \in Ancestors(a, j) : IF path_to_root THEN k >= i ELSE k > i}
      Found(j) == \E k \in Scope(j) : \E m \in Children(a, k) \cup {k} : a[m].id = a[j].wref
  IN  /\ \A j \in whens : Found(j)
      /\ whens = {} => \A j \in Subtree(a, i) : "when_target" \notin a[j].flags

(***************************************************************************)
(* ay_ynode_recursive_form_by_copy: the nodes a recursive lens may be      *)
(* followed by are copied to its use, or are to become a grouping.         *)
(***************************************************************************)
RuleByCopy(t) ==
  LET a == t.arr
      Ext(i) == a[i].type = "rec" /\ ~t.lt[a[i].snode].rec
      Sum(f(_), S) == Sq!FoldSet(LAMBDA c, s : s + f(c), 0, S)
      Uses(c) == Cardinality(RecUses(t, c))
      Copied(c) == IF Uses(c) > 0 THEN 0 ELSE a[c].desc + 1
      Cost(i) == Sum(Copied, Children(a, i)) * (Sum(Uses, Children(a, i)) + 1)
  IN  Sum(Cost, {i \in 2..Len(a) : Ext(i)})

\* A list among the children is replaced by its children; the node that takes
\* its place is passed over.
RECURSIVE Unwrapped(_, _)
Unwrapped(t, c) ==
  LET choice == t.arr[c].choice
      kids == Children(t.arr, c)
      given == [t EXCEPT !.arr = [j \in 1..Len(t.arr) |->
                  IF j \in kids THEN [t.arr[j] EXCEPT !.choice = choice] ELSE t.arr[j]]]
      u == IF t.arr[c].type = "list" THEN DeleteNode(given, c) ELSE t
  IN  IF c = Null THEN t
      ELSE IF c > Len(u.arr) THEN u ELSE Unwrapped(u, Next(u.arr, c))

\* What is copied from behind the branch moves with each copy before it.
CopyBranches(t, branch, listord) ==
  LET a == t.arr
      mates == ChoiceRun(a, FirstInChoice(a, Parent(a, branch), a[branch].choice))
      plain == {j \in mates \cup ChoiceRun(a, branch) : j # branch /\ ~ContainsRec(t, j)}
      order == SelectSeq(ChildSeq(a, Parent(a, branch)), LAMBDA j : j \in plain)
      CopyOne(u, j) ==
        CopyAsLastChild(u, listord, IF j < branch THEN j ELSE j + Len(u.arr) - Len(a))
      copied == Sq!FoldLeft(CopyOne, t, order)
      kids == Children(copied.arr, listord)
      chosen == [copied EXCEPT !.arr = [j \in 1..Len(copied.arr) |->
                   IF j \in kids
                   THEN [copied.arr[j] EXCEPT !.choice = 1, !.flags = @ \cup {"choice_created"}]
                   ELSE copied.arr[j]]]
  IN  Unwrapped(chosen, listord + 1)

RecursiveFormByCopy(t, i) ==
  LET a == t.arr
      listord == Parent(a, i)
      branch == LastOf({j \in Ancestors(a, i) \ {1} : a[Parent(a, j)].type = "rec"})
      first == FirstInChoice(a, Parent(a, branch), a[branch].choice)
      plain == {j \in ChoiceRun(a, first) : ~ContainsRec(t, j)}
      copy == \/ plain = {}
              \/ \E j \in plain : \/ a[j].type = "list" \/ a[j].wref # 0
                                  \/ ~WhenPathsAreValid(t, j, TRUE)
  IN  IF a[i].type # "leafref" THEN Go(t, i + 1)
      ELSE IF branch = Null THEN Asserting(FALSE, Go(t, i + 1))
      ELSE Asserting(a[listord].type = "list",
                     Go(IF a[branch].choice = Null THEN t
                        ELSE IF copy THEN CopyBranches(t, branch, listord)
                        ELSE Flag(t, first, {"grouping_choice"}), i + 1))

(***************************************************************************)
(* ay_ynode_set_ref_recursive_form: the choices equal to one that is to be *)
(* a grouping refer to it.  Branches with a leafref are not compared.      *)
(***************************************************************************)
RECURSIVE GroupEqual(_, _, _, _, _)
GroupEqual(t, ch1, ch2, i1, i2) ==
  LET a == t.arr
      skips(ch) == "grouping_choice" \in a[ch].flags
      In(i, ch) == i # Null /\ a[i].choice = a[ch].choice
      j1 == IF skips(ch1) THEN FirstPlain(t, i1) ELSE i1
      j2 == IF skips(ch2) THEN FirstPlain(t, i2) ELSE i2
      Ended(x, y) == \/ x = Null /\ y = Null
                     \/ x # Null /\ y # Null /\ ~In(x, ch1) /\ ~In(y, ch2)
  IN  IF ~(In(i1, ch1) /\ In(i2, ch2)) THEN Ended(i1, i2)
      ELSE IF ~(In(j1, ch1) /\ In(j2, ch2)) THEN Ended(j1, j2)
      ELSE /\ SubtreeEqual(t, j1, j2, TRUE, FALSE)
           /\ GroupEqual(t, ch1, ch2, Next(a, j1), Next(a, j2))

RECURSIVE ReferFrom(_, _, _)
ReferFrom(t, i, j) ==
  LET u == IF t.arr[j].choice # Null /\ GroupEqual(t, i, j, i, j)
           THEN [t EXCEPT !.arr[j].ref = t.arr[i].id] ELSE t
  IN  IF j > Len(t.arr) THEN t
      ELSE ReferFrom(u, i, IF t.arr[j].choice = Null THEN j + 1 ELSE Past(t.arr, j))

SetRefRecursiveForm(t, i) ==
  LET tagged == [t EXCEPT !.arr[i].ref = t.arr[i].id]
      behind == Past(t.arr, LastOf(ChoiceRun(t.arr, i)))
  IN  Go(IF "grouping_choice" \in t.arr[i].flags THEN ReferFrom(tagged, i, behind) ELSE t,
         i + 1)

(***************************************************************************)
(* ay_ynode_set_ref: the containers and lists equal to a node, or equal    *)
(* but for their roots, refer to it.                                       *)
(***************************************************************************)
LeafrefRestriction(t, i) ==
  LET a == t.arr
      ext == LastOf({j \in Ancestors(a, i) : a[j].type = "rec"})
  IN  /\ ext # Null
      /\ \E j \in Subtree(a, i) \ {i} :
           a[j].type = "leafref" /\ t.lt[a[j].snode].str = t.lt[a[ext].snode].str

InnerNodeAlone(a, i) == InnerNodes(a, Parent(a, i)) = i /\ Next(a, i) = Null

\* s = [t, whole, inner, split]: some subtree is equal, some is but for its
\* root, one of those can be split.  The nodes from j on are compared.
RECURSIVE EqualsFrom(_, _, _)
EqualsFrom(s, i, j) ==
  LET t == s.t
      a == t.arr
      y == a[j]
      inner == InnerNodes(a, i)
      Whole == /\ \/ y.type = "list"
                  \/ /\ y.type = "container"
                     /\ \/ InnerNodeAlone(a, i) /\ InnerNodeAlone(a, j)
                        \/ InnerNodes(a, j) = Null
               /\ SubtreeEqual(t, i, j, TRUE, TRUE)
      Inner == inner # Null /\ SubtreeEqual(t, i, j, FALSE, TRUE)
      split == s.split \/ IsSplittable(t, j)
      marked == [t EXCEPT !.arr[j].ref = a[i].id]
  IN  IF j > Len(a) THEN s
      ELSE IF y.ref # 0 THEN EqualsFrom(s, i, Past(a, j))
      ELSE IF y.wref # 0 \/ ~WhenPathsAreValid(t, j, TRUE) THEN EqualsFrom(s, i, j + 1)
      ELSE IF Whole THEN EqualsFrom([s EXCEPT !.t = marked, !.whole = TRUE], i, Past(a, j))
      ELSE IF ~Inner THEN EqualsFrom(s, i, j + 1)
      ELSE IF ~split /\ Next(a, inner) = Null THEN EqualsFrom(s, i, j + 1)
      ELSE EqualsFrom([s EXCEPT !.t = Flag(marked, j, {"grouping_children"}),
                                !.inner = TRUE, !.split = split], i, Past(a, j))

SetRef(t, i) ==
  LET a == t.arr
      y == a[i]
      p == Parent(a, i)
      s == EqualsFrom([t |-> t, whole |-> FALSE, inner |-> FALSE, split |-> FALSE],
                      i, Past(a, i))
      own == [s.t EXCEPT !.arr[i].ref = y.id]
  IN  IF y.ref # 0 /\ a[p].type # "rec" THEN Go(t, Past(a, i))
      ELSE IF \/ (y.type = "list" /\ p = 1) \/ y.type \notin {"container", "list"}
              \/ LeafrefRestriction(t, i) \/ y.wref # 0 \/ ~WhenPathsAreValid(t, i, TRUE)
      THEN Go(t, i + 1)
      ELSE Go(IF s.inner THEN Flag(own, i, {"grouping_children"})
              ELSE IF s.whole THEN own ELSE s.t, i + 1)

(***************************************************************************)
(* ay_ynode_create_groupings_recursive_form                                *)
(***************************************************************************)
RuleGroupingsRec(t) == 3 * Cardinality({i \in 2..Len(t.arr) : t.arr[i].type = "leafref"})

UsesAt(t, i, ref, choice, flags) ==
  [t EXCEPT !.arr[i] = [@ EXCEPT !.type = "uses", !.ref = ref, !.choice = choice,
                                 !.flags = @ \cup flags]]

\* A uses behind each leafref in the branches of the choice from first on.
LeafrefInsertUses(t, first, ref) ==
  LET a == t.arr
      in == UNION {Subtree(a, j) \ {j} : j \in ChoiceRun(a, first)}
      lfs == SelectSeq([j \in 1..Len(a) |-> j], LAMBDA j : j \in in /\ a[j].type = "leafref")
      One(u, j) == LET k == j + Len(u.arr) - Len(a)
                   IN  UsesAt(InsertSibling(u, k), Past(u.arr, k), ref, a[j].choice, {})
  IN  IF first = Null \/ first > Len(a) THEN t ELSE Sq!FoldLeft(One, t, lfs)

\* The n plain branches from the sibling of i on are moved into i or deleted.
RECURSIVE TakePlain(_, _, _, _)
TakePlain(t, i, n, moved) ==
  LET next == Next(t.arr, i)
      br == FirstPlain(t, next)
  IN  IF n = 0 THEN t
      ELSE IF br = Null THEN [t EXCEPT !.ok = FALSE]
      ELSE TakePlain(IF moved THEN MoveAsLastChild(t, i, br) ELSE DeleteSubtree(t, br),
                     i, n - 1, moved)

\* The other choices, from j on, that refer to id: uses of grouping g.  Where
\* the choice is the first child of its parent, the new node is looked for
\* among its own children, and a NULL is followed.
RECURSIVE UsesFrom(_, _, _, _, _)
UsesFrom(t, g, id, n, j) ==
  LET u == UsesAt(InsertGap(t, j, 0, Ancestors(t.arr, j)), j, t.arr[g].id,
                  t.arr[j].choice, {})
      v == TakePlain(u, j, n, FALSE)
  IN  IF j > Len(t.arr) \/ ~t.ok THEN t
      ELSE IF t.arr[j].ref # id THEN UsesFrom(t, g, id, n, j + 1)
      ELSE IF j = Parent(t.arr, j) + 1 THEN [t EXCEPT !.ok = FALSE]
      ELSE UsesFrom(LeafrefInsertUses(v, j + 1, t.arr[g].id), g, id, n, j + 1)

GroupingsRecursiveForm(t, i) ==
  LET y == t.arr[i]
      n == Cardinality({j \in ChoiceRun(t.arr, i) : ~ContainsRec(t, j)})
      made == [InsertGap([t EXCEPT !.arr[i].ref = 0], i, 0, Ancestors(t.arr, i)) EXCEPT
                 !.arr[i] = [@ EXCEPT !.type = "grouping", !.choice = y.choice,
                                      !.snode = t.arr[Parent(t.arr, i)].snode]]
      id == made.arr[i].id
      filled == TakePlain(made, i, n, TRUE)
      used == LeafrefInsertUses(filled, Next(filled.arr, i), id)
      behind == Past(used.arr, i)
      optional == used.arr[i + 1].flags \cap {"choice_mand_false"}
      own == Unflag(UsesAt(InsertSibling(used, i), behind, id, y.choice, optional),
                    i + 1, optional)
      all == UsesFrom(own, i, own.arr[i + 1].id, n, behind + 1)
  IN  IF y.ref # y.id \/ "grouping_choice" \notin y.flags THEN Go(t, i + 1)
      ELSE IF n = 0 THEN Asserting(FALSE, Go(t, i + 1))
      ELSE Go(all, Past(all.arr, i))

(***************************************************************************)
(* ay_ynode_create_groupings_toplevel                                      *)
(***************************************************************************)
RuleGroupingsToplevel(t) ==
  LET Cost(y) == IF y.id = y.ref THEN 2 ELSE IF y.ref # 0 THEN 1 ELSE 0
  IN  Sq!FoldLeft(LAMBDA c, y : c + Cost(y), 0, Tail(t.arr))

\* ay_ynode_snode_unset_pnode: the nodes of grouping g, the groupings among
\* them left out, have the types of those it replaces, from index from on.  The
\* code asks it of the nodes whose lens has a name of its own in the source
\* of the module; here all have.
SameTypes(a, g, from) ==
  LET nodes == SelectSeq([k \in 1..(a[g].desc + 1) |-> g + k - 1],
                         LAMBDA k : a[k].type # "grouping")
  IN  \A k \in DOMAIN nodes :
        a[nodes[k]].snode # Null => a[nodes[k]].type = a[from + k - 1].type

\* What refers to ref, from j on, becomes a uses of grouping g or gets one.
RECURSIVE ReplaceFrom(_, _, _, _)
ReplaceFrom(t, g, ref, j) ==
  LET a == t.arr
      children == "grouping_children" \in a[j].flags
      same == SameTypes(a, g, IF children THEN InnerNodes(a, j) ELSE j)
      id == a[g].id
      flags == a[g + 1].flags \cap {"choice_mand_false"}
      bare == InsertChildLast(DeleteChildren([t EXCEPT !.arr[j].ref = 0], j, TRUE), j)
      inner == LET k == LastChild(bare.arr, j) IN UsesAt(bare, k, id, bare.arr[k].choice, flags)
      whole == UsesAt([DeleteChildren(t, j, FALSE) EXCEPT
                         !.arr[j] = [@ EXCEPT !.snode = Null, !.label = Null, !.value = Null,
                                              !.flags = {}]],
                      j, id, a[j].choice, flags)
  IN  IF j > Len(a) THEN t
      ELSE IF a[j].ref # ref \/ a[j].type = "uses" THEN ReplaceFrom(t, g, ref, j + 1)
      ELSE IF ~same THEN [t EXCEPT !.ok = FALSE]
      ELSE ReplaceFrom(IF children THEN inner ELSE whole, g, ref, j + 1)

GroupingsToplevel(t, i) ==
  LET a == t.arr
      y == a[i]
      p == Parent(a, i)
      children == "grouping_children" \in y.flags
      inner == IF InnerNodes(a, i) # Null THEN InnerNodes(a, i) ELSE i + 1
      there == /\ ~children /\ a[p].type = "grouping"
               /\ "grouping_children" \in a[Parent(a, p)].flags
               /\ InnerNodeAlone(a, i)
      g == IF children THEN inner ELSE IF there THEN p ELSE i
      at == IF children \/ there THEN i ELSE i + 1          \* where node i is now
      t1 == IF children
            THEN [InsertParentForRest(t, inner) EXCEPT !.arr[g].snode = y.snode]
            ELSE IF there THEN t
            ELSE [InsertWrapper(t, i) EXCEPT !.arr[i].snode = a[p].snode]
      t2 == [t1 EXCEPT !.arr[g].type = "grouping"]
      first == t2.arr[g + 1]
      t3 == [ReplaceFrom(t2, g, y.ref, Past(t2.arr, g)) EXCEPT !.arr[at].ref = 0]
      behind == Past(t3.arr, g)
      t4 == UsesAt(InsertSibling(t3, g), behind, t3.arr[g].id, first.choice,
                   first.flags \cap {"choice_mand_false"})
      t5 == IF Next(t4.arr, g + 1) = Null THEN [t4 EXCEPT !.arr[g + 1].choice = Null] ELSE t4
  IN  IF y.type = "grouping" /\ y.ref # 0 THEN Go(t, Past(a, i))
      ELSE IF y.ref = 0 \/ y.type \in {"uses", "leafref"} THEN Go(t, i + 1)
      ELSE IF children /\ y.desc = 0 THEN Asserting(FALSE, Go(t, i + 1))
      ELSE Asserting(y.id = y.ref, Go(IF there THEN t3 ELSE t5, i + 1))

\* ay_ynode_delete_ynrec
DeleteYnrec(t, i) ==
  LET a == t.arr
      kids == Children(a, i)
      given == [t EXCEPT !.arr = [j \in 1..Len(a) |->
                  IF j \in kids /\ a[i].choice # Null
                  THEN [a[j] EXCEPT !.choice = a[i].choice] ELSE a[j]]]
  IN  IF a[i].type # "rec" THEN Go(t, i + 1) ELSE Go(DeleteNode(given, i), i)

(***************************************************************************)
(* ay_ynode_node_split: a node for each identifier of the pattern.         *)
(***************************************************************************)
SplitCost(t, i) ==
  LET n == IdentsCount(t.lt, t.arr[i].label) - 1
  IN  IF i = 1 \/ t.arr[i].label = Null THEN 0
      ELSE IF IsSplittable(t, i) THEN n * t.arr[i].desc + 2 + n ELSE 0

RECURSIVE RuleNodeSplit(_, _)
RuleNodeSplit(t, i) ==
  LET below == Sq!FoldLeft(LAMBDA c, j : c + RuleNodeSplit(t, j), 0, ChildSeq(t.arr, i))
      own == SplitCost(t, i)
  IN  IF own # 0 /\ below # 0 THEN own * below ELSE own + below

\* A new node behind node i with its data, a uses of the grouping and its key
\* and value.
SplitOnce(t, i, ref, key, value) ==
  LET n == Past(t.arr, i)
      Put(u, j, src) == [u EXCEPT !.arr[j] = CopyData(@, u.arr[src])]
      t1 == Put(InsertSibling(t, i), n, i)
      t2 == IF ref = 0 THEN t1 ELSE UsesAt(InsertChild(t1, n), n + 1, ref, Null, {})
      t3 == IF value = Null THEN t2 ELSE Put(InsertChild(t2, n), n + 1, value)
  IN  IF key = Null THEN t3 ELSE Put(InsertChild(t3, n), n + 1, key)

NodeSplit(t, i) ==
  LET a == t.arr
      y == a[i]
      earlier == {j \in Siblings(a, i) : /\ j < i /\ a[j].label # Null
                                         /\ t.lt[a[j].label].lens = t.lt[y.label].lens}
      t1 == IF y.choice # Null THEN t
            ELSE Flag([t EXCEPT !.arr[i].choice = 1], i, {"choice_created"})
      inner == InnerNodes(a, i)
      copies == ContainsType(t, i, "leafref") \/ ~WhenPathsAreValid(t, i, FALSE)
      known == /\ inner # Null
               /\ a[inner].type = "grouping" \/ (a[inner].type = "uses" /\ Next(a, inner) = Null)
      new == inner # Null /\ ~known /\ ~copies
      t2 == IF ~new THEN t1
            ELSE [InsertParentForRest(t1, inner) EXCEPT !.arr[inner].type = "grouping",
                                                        !.arr[inner].snode = y.snode]
      t3 == IF ~new THEN t2
            ELSE UsesAt(InsertSibling(t2, inner), Past(t2.arr, inner), t2.arr[inner].id, Null, {})
      ref == IF known /\ a[inner].type = "uses" THEN a[inner].ref
             ELSE IF known \/ new THEN t3.arr[inner].id ELSE 0
      Has(type) == FirstOf({j \in Children(t3.arr, i) : t3.arr[j].type = type})
      Once(u, k) == IF copies THEN CopyAsSibling(u, i, i)
                    ELSE SplitOnce(u, i, ref, Has("key"), Has("value"))
  IN  IF y.label = Null THEN Go(t, i + 1)
      ELSE IF ~IsSplittable(t, i) \/ earlier # {} THEN Go(t, i + 1)
      ELSE Go(Sq!FoldLeft(Once, t3, [k \in 1..(IdentsCount(t.lt, y.label) - 1) |-> k]), i + 1)

(***************************************************************************)
(* ay_ynode_groupings_ahead: the groupings go to the end of the tree, each *)
(* behind those it uses, and the list of files behind them all.            *)
(***************************************************************************)
Groupings(t) == {i \in 2..Len(t.arr) : t.arr[i].type = "grouping"}

\* Mutant: one node more, the uses behind the grouping.
UsedByNext(t, g) ==
  {t.arr[j].ref : j \in {k \in g..Past(t.arr, g) : k <= Len(t.arr) /\ t.arr[k].type = "uses"}}

\* The groupings that grouping g uses, those it only uses in an inner grouping
\* left out.
UsedBy(t, g) ==
  {t.arr[j].ref : j \in {k \in Subtree(t.arr, g) :
     /\ t.arr[k].type = "uses"
     /\ LastOf(Groupings(t) \cap Ancestors(t.arr, k)) = g}}

\* Mutant: the groupings in the order of the tree.
ResolvedInOrder(t, sorted) ==
  SelectSeq([j \in 1..Len(t.arr) |-> j], LAMBDA j : j \in Groupings(t))

\* The passes over the groupings, up to one that resolves none.
RECURSIVE Resolved(_, _)
Resolved(t, sorted) ==
  LET order == SelectSeq([j \in 1..Len(t.arr) |-> j], LAMBDA j : j \in Groupings(t))
      Ids(s) == {t.arr[g].id : g \in Sq!ToSet(s)}
      Visit(s, g) == IF g \notin Sq!ToSet(s) /\ UsedBy(t, g) \subseteq Ids(s)
                     THEN s \o <<g>> ELSE s
      pass == Sq!FoldLeft(Visit, sorted, order)
  IN  IF Len(pass) = Len(sorted) THEN sorted ELSE Resolved(t, pass)

\* A pass that resolves none is followed by another: i only tells them apart.
GroupingsAhead(t, i) ==
  LET sorted == Resolved(t, <<>>)
      MoveOne(u, g) == MoveAsLastChild(u, 1, GetNode(u.arr, 2, t.arr[g].id))
      moved == Sq!FoldLeft(MoveOne, t, sorted)
      last == LastChild(moved.arr, 1)
      ahead == IF moved.arr[last].type = "list" THEN moved ELSE MoveAsSibling(moved, last, 2)
  IN  IF Groupings(t) = {}
      THEN Asserting(~\E j \in 2..Len(t.arr) : t.arr[j].type = "uses", Go(t, 3))
      ELSE IF Len(sorted) < Cardinality(Groupings(t)) THEN Go(t, 3 - i)
      ELSE Asserting(moved.arr[2].type = "list", Go(ahead, 3))
=============================================================================
