------------------------------ MODULE AyMerge ------------------------------
(***************************************************************************)
(* augyang, second part: choices whose branches start with the same label  *)
(* are folded, so that a label leads to one place (src/src/augyang.c).     *)
(***************************************************************************)
EXTENDS AyShape

Flag(t, i, F) == [t EXCEPT !.arr[i].flags = @ \cup F]
When(t, i, ref, val) == [t EXCEPT !.arr[i].wref = ref, !.arr[i].wval = val]
IsCase(t, i) == t.arr[i].type = "case"

\* The leading node of a branch.
FirstNode(t, br) == IF IsCase(t, br) THEN br + 1 ELSE br

LesserOf(m, n) == IF m < n THEN m ELSE n

(***************************************************************************)
(* Equality of nodes and subtrees.                                         *)
(***************************************************************************)
CmpMask == {"mand_true", "mand_false", "choice_mand_false", "children_mand_false",
            "value_mand_false", "value_in_choice", "grouping_children", "when_ornot"}

YnodeEqual(t, i, j, ignore_choice, ignore_when) ==
  LET x == t.arr[i]
      y == t.arr[j]
      SameLens(m, n) == (m = Null /\ n = Null) \/ LensEqual(t.lt, m, n)
      Alone(k) == Siblings(t.arr, k) = {k}
      mask == IF ignore_choice THEN CmpMask \ {"choice_mand_false"} ELSE CmpMask
  IN  /\ x.desc = y.desc /\ x.type = y.type
      /\ SameLens(x.label, y.label) /\ SameLens(x.value, y.value)
      /\ (x.snode = Null) = (y.snode = Null)
      /\ \/ ignore_choice \/ Alone(i) \/ Alone(j)
         \/ (x.choice = Null) = (y.choice = Null)
      /\ x.type # "leafref" => x.ref = y.ref
      /\ x.flags \cap mask = y.flags \cap mask
      /\ x.type = "list" => x.min = y.min
      /\ ignore_when \/ x.wref = y.wref

\* Mutant: the number of the nodes is compared, the nodes are not.
SubtreeAsLarge(t, i, j, compare_roots, ignore_when) ==
  IF compare_roots
  THEN YnodeEqual(t, i, j, TRUE, ignore_when)
  ELSE InnerDescendants(t.arr, i) # 0 /\ InnerDescendants(t.arr, i) = InnerDescendants(t.arr, j)

SubtreeEqual(t, i, j, compare_roots, ignore_when) ==
  LET a == t.arr
      n == IF compare_roots THEN a[i].desc ELSE InnerDescendants(a, i)
      from1 == IF compare_roots THEN i + 1 ELSE InnerNodes(a, i)
      from2 == IF compare_roots THEN j + 1 ELSE InnerNodes(a, j)
      Same == \A k \in 0..(n - 1) : YnodeEqual(t, from1 + k, from2 + k, FALSE, ignore_when)
  IN  IF i = j THEN TRUE
      ELSE IF compare_roots THEN YnodeEqual(t, i, j, TRUE, ignore_when) /\ Same
      ELSE n # 0 /\ n = InnerDescendants(a, j) /\ Same

(***************************************************************************)
(* ay_ynode_delete_equal_cases.  After a deletion the loop goes on behind  *)
(* the node that has moved to the place of the deleted one.                *)
(***************************************************************************)
RECURSIVE DropEqual(_, _, _, _)
DropEqual(t, br1, br2, choice) ==
  LET a == t.arr
      dropped == DeleteSubtree(t, br2)
      u == IF AloneInChoice(dropped.arr, br1) /\ IsCase(dropped, br1)
           THEN DeleteNode(dropped, br1) ELSE dropped
      NextOf(v) == IF br2 > Len(v.arr) THEN Null ELSE Next(v.arr, br2)
  IN  IF br2 = Null \/ a[br2].choice # choice THEN t
      ELSE IF SubtreeEqual(t, br1, br2, TRUE, FALSE)
      THEN DropEqual(u, br1, NextOf(u), choice)
      ELSE DropEqual(t, br1, NextOf(t), choice)

RECURSIVE DropEquals(_, _, _)
DropEquals(t, br1, choice) ==
  IF br1 = Null \/ t.arr[br1].choice # choice THEN t
  ELSE LET u == DropEqual(t, br1, Next(t.arr, br1), choice)
       IN  DropEquals(u, Next(u.arr, br1), choice)

DeleteEqualCases(t, i) ==
  IF t.arr[i].choice = Null THEN Go(t, i + 1)
  ELSE Go(DropEquals(t, i, t.arr[i].choice), i + 1)

(***************************************************************************)
(* ay_ynode_merge_cases                                                    *)
(***************************************************************************)
CmpBranches(t, br1, br2) ==
  LET l1 == t.arr[FirstNode(t, br1)].label
      l2 == t.arr[FirstNode(t, br2)].label
  IN  /\ t.arr[br1].wref = 0 /\ t.arr[br2].wref = 0
      /\ l1 # Null \/ l2 # Null => LensEqual(t.lt, l1, l2)

RuleMergeCases(t) ==
  LET a == t.arr
  IN  4 * Cardinality({x \in (2..Len(a)) \X (2..Len(a)) :
                         /\ x[1] < x[2] /\ a[x[1]].choice # Null
                         /\ x[2] \in ChoiceRun(a, x[1])
                         /\ CmpBranches(t, x[1], x[2])})

\* A case for the nodes from ns on, or only their choice when ns is the last.
CaseInsert(t, ns, choice) ==
  LET c == IF choice = Null THEN 1 ELSE choice
      y == t.arr[ns]
      t1 == IF choice = Null \/ y.choice = Null THEN Flag(t, ns, {"choice_created"}) ELSE t
      t2 == InsertParentForRest(t1, ns)
  IN  IF y.type = "case" THEN t
      ELSE IF Next(t.arr, ns) # Null
      THEN When([t2 EXCEPT !.arr[ns] = [@ EXCEPT !.choice = c, !.type = "case",
                                          !.flags = {"choice_created"},
                                          !.wref = y.wref, !.wval = y.wval]],
                ns + 1, 0, Null)
      ELSE Flag([t1 EXCEPT !.arr[ns].choice = c], ns, {"choice_created"})

NodesInChoice(a, ns) ==
  a[ns].choice # Null /\ \A j \in Siblings(a, ns) : j > ns => a[j].choice = a[ns].choice

\* The group of siblings from ns2 on goes to the group from ns1 on, or below
\* the node ns1.  A wrapper carries the group and is deleted afterwards.
MergeAsChild(t, ns1, ns2) ==
  LET carried == MoveAsLastChild(InsertParentForRest(t, ns2), ns1, ns2)
      last == LastChild(carried.arr, ns1)
      t1 == DeleteNode(carried, last)
      single == MoveAsLastChild(t, ns1, ns2)
  IN  IF ns2 = Null THEN t
      ELSE IF Next(t.arr, ns2) # Null
      THEN IF t1.arr[last].choice = Null THEN t1 ELSE Flag(t1, last, {"choice_mand_false"})
      ELSE LET t2 == Flag(single, ns1, {"children_mand_false"})
           IN  [t2 EXCEPT !.arr[LastChild(t2.arr, ns1)].choice = Null]

MergeNodes(t, ns1, ns2) ==
  LET a == t.arr
      in1 == NodesInChoice(a, ns1)
      in2 == NodesInChoice(a, ns2)
      last == LastOf(Siblings(a, ns1))
      \* Both groups are branches: one choice for all of them.
      Both ==
        LET carried == MoveAsSibling(InsertParentForRest(t, ns2), last, ns2)
            t1 == DeleteNode(carried, Past(carried.arr, last))
        IN  [t1 EXCEPT !.arr = [j \in 1..Len(t1.arr) |->
               IF j \in Siblings(t1.arr, last) /\ j > last
               THEN [t1.arr[j] EXCEPT !.choice = t1.arr[ns1].choice,
                                      !.flags = @ \cup {"choice_created"}]
               ELSE t1.arr[j]]]
      First == MoveAsSibling(CaseInsert(t, ns2, a[ns1].choice), last, ns2)
      Second ==
        LET t1 == CaseInsert(t, ns1, a[ns2].choice)
            n2 == ns2 + Len(t1.arr) - Len(a)
            carried == MoveAsSibling(InsertParentForRest(t1, n2), ns1, n2)
        IN  DeleteNode(carried, Past(carried.arr, ns1))
      Neither ==
        LET t1 == CaseInsert(t, ns1, Null)
            n2 == ns2 + Len(t1.arr) - Len(a)
            t2 == CaseInsert(t1, n2, Null)
        IN  MoveAsLastChild(t2, Parent(t2.arr, ns1), n2)
  IN  IF ns2 = Null THEN t
      ELSE IF in1 /\ in2 THEN Both
      ELSE IF in1 THEN First
      ELSE IF in2 THEN Second ELSE Neither

\* The when statements of the branches: those they have move on to the nodes
\* behind the leading ones, otherwise the different values of the leading
\* nodes tell the nodes behind them apart.
MoveWhen(t, br) ==
  LET y == t.arr[br]
      f == FirstNode(t, br)
      t1 == IF t.arr[f].desc > 0 THEN When(t, f + 1, y.wref, y.wval) ELSE t
      t2 == IF IsCase(t, br) THEN When(t1, Next(t.arr, f), y.wref, y.wval) ELSE t1
  IN  When(IF y.wref # 0 THEN t2 ELSE t, br, 0, Null)

SetWhen(t, br1, br2) ==
  LET a == t.arr
      f1 == FirstNode(t, br1)
      f2 == FirstNode(t, br2)
      Tells(f) == a[f].value # Null /\ "value_in_choice" \notin a[f].flags
      At(u, cond, i, f) ==
        IF cond /\ Tells(f)
        THEN Flag(When(u, i, a[f1].id, a[f].value), f1, {"when_target"}) ELSE u
      t1 == At(t, a[f1].desc > 0, f1 + 1, f1)
      t2 == At(t1, a[f2].desc > 0, f2 + 1, f2)
      t3 == At(t2, IsCase(t, br1), Next(a, f1), f1)
  IN  IF a[br1].wref # 0 \/ a[br2].wref # 0 THEN MoveWhen(MoveWhen(t, br1), br2)
      ELSE IF LensEqual(t.lt, a[f1].value, a[f2].value) THEN t
      ELSE At(t3, IsCase(t, br2), Next(a, f2), f2)

\* The values of two leading nodes in one: different ones become a union,
\* and when one is missing the flags say what became optional.
MergeValues(t, f1, f2, differ, first_only, second_only) ==
  LET v1 == t.arr[f1].value
      v2 == t.arr[f2].value
      s == DInsert(t.lt, [d |-> t.values, ok |-> t.ok], v1, v2)
  IN  IF v1 # Null /\ v2 # Null /\ ~LensEqual(t.lt, v1, v2)
      THEN Flag([t EXCEPT !.values = s.d, !.ok = s.ok], f1, differ)
      ELSE IF v1 # Null /\ v2 = Null THEN Flag(t, f1, first_only)
      ELSE IF v1 = Null /\ v2 # Null
      THEN Flag([t EXCEPT !.arr[f1].value = v2], f1, second_only)
      ELSE t

\* The branch behind br1 with the identifier of br2.
BranchAgain(a, br1, id) == FirstOf({j \in Siblings(a, br1) : j > br1 /\ a[j].id = id})

\* ay_ynode_merge_cases_.  Where br1 becomes a case, the flag meant for its
\* second node goes to the branch behind it.
MergeBranches(t, br1, br2) ==
  LET id == t.arr[br2].id
      f1 == FirstNode(t, br1)
      f2 == FirstNode(t, br2)
      t1 == [t EXCEPT !.arr[f1].flags = @ \cup t.arr[f2].flags \cup {"hint_mand_true"},
                      !.arr[f1].min = LesserOf(@, t.arr[f2].min)]
      t2 == SetWhen(t1, br1, br2)
      kids1 == t.arr[f1].desc > 0
      kids2 == t.arr[f2].desc > 0
      Optional(u) == IF "value_in_choice" \in u.arr[f1].flags THEN u
                     ELSE Flag(u, f1 + 1, {"choice_mand_false"})
      none == {"value_mand_false", "children_mand_false"}
      Typed(u) == [u EXCEPT !.arr[f1].type = IF @ = "list" THEN @ ELSE "container"]
      t3 == IF kids1 /\ ~kids2
            THEN Optional(MergeValues(t2, f1, f2, {"children_mand_false"}, none,
                                      {"value_in_choice"}))
            ELSE IF ~kids1 /\ kids2
            THEN Optional(MergeAsChild(Typed(MergeValues(t2, f1, f2,
                            {"children_mand_false"}, {"value_in_choice"}, none)),
                            f1, f2 + 1))
            ELSE LET u == MergeValues(t2, f1, f2, {}, {"value_mand_false"},
                                      {"value_mand_false"})
                 IN  IF kids1 THEN MergeNodes(u, f1 + 1, f2 + 1) ELSE u
      b2 == BranchAgain(t3.arr, br1, id)
      Wrapped ==
        LET u == [InsertWrapper(t3, br1) EXCEPT
                    !.arr[br1].type = "case", !.arr[br1].choice = t3.arr[br1].choice,
                    !.arr[br1].flags = {"children_mand_false", "choice_created"},
                    !.arr[br1 + 1].choice = Null]
            v == MergeAsChild(u, br1, Next(u.arr, b2 + 2))
        IN  Flag(v, Next(v.arr, br1), {"choice_mand_false"})
      t4 == IF IsCase(t3, br1) /\ IsCase(t3, b2)
            THEN MergeNodes(t3, Next(t3.arr, f1), Next(t3.arr, b2 + 1))
            ELSE IF IsCase(t3, br1)
            THEN Flag(Flag(t3, br1, {"children_mand_false"}),
                      Next(t3.arr, f1), {"choice_mand_false"})
            ELSE IF IsCase(t3, b2) THEN Wrapped ELSE t3
  IN  DeleteSubtree(t4, BranchAgain(t4.arr, br1, id))

\* Mutant: the nodes behind and below the leading ones are not compared.
OnlyByShape(t, br1, br2) == IsCase(t, br1) = IsCase(t, br2)

\* Equal branches but for the values of their leading nodes.
OnlyByValue(t, br1, br2) ==
  LET a == t.arr
      f1 == FirstNode(t, br1)
      f2 == FirstNode(t, br2)
      rest1 == Tail(ChildSeq(a, br1))
      rest2 == Tail(ChildSeq(a, br2))
  IN  /\ IsCase(t, br1) = IsCase(t, br2)
      /\ IsCase(t, br1) =>
           /\ Len(rest1) = Len(rest2)
           /\ \A k \in DOMAIN rest1 : SubtreeEqual(t, rest1[k], rest2[k], TRUE, FALSE)
      /\ (a[f1].desc > 0) = (a[f2].desc > 0)
      /\ a[f1].desc > 0 => SubtreeEqual(t, f1, f2, FALSE, FALSE)

MergeByValue(t, br1, br2) ==
  LET f1 == FirstNode(t, br1)
      f2 == FirstNode(t, br2)
      u == MergeValues(t, f1, f2, {}, {"value_mand_false"}, {"value_mand_false"})
  IN  DeleteSubtree(IF t.arr[f2].type # "list" THEN u
                    ELSE [u EXCEPT !.arr[f1].min = LesserOf(@, t.arr[f2].min)], br2)

\* Equal leaves, one of them repeated.
OnlyByRepetition(t, br1, br2) ==
  LET x == t.arr[br1]
      y == t.arr[br2]
  IN  /\ x.desc = 0 /\ y.desc = 0
      /\ x.value # Null /\ y.value # Null => LensEqual(t.lt, x.value, y.value)
      /\ \/ x.type = "list" /\ y.type \in {"leaf", "container"}
         \/ y.type = "list" /\ x.type \in {"leaf", "container"}

MergeByRepetition(t, br1, br2) ==
  LET y == IF t.arr[br2].type = "list" THEN t.arr[br2] ELSE t.arr[br1]
  IN  DeleteSubtree([t EXCEPT !.arr[br1] = [y EXCEPT !.min = IF @ > 0 THEN 1 ELSE 0]], br2)

\* The siblings from br1 on; a merge makes the loop stay at br1.
RECURSIVE MergeSiblings(_, _, _)
MergeSiblings(t, br1, merged) ==
  LET a == t.arr
      br2 == FirstOf({j \in ChoiceRun(a, br1) \ {br1} : CmpBranches(t, br1, j)})
      u == IF OnlyByRepetition(t, br1, br2) THEN MergeByRepetition(t, br1, br2)
           ELSE IF OnlyByValue(t, br1, br2) THEN MergeByValue(t, br1, br2)
           ELSE MergeBranches(t, br1, br2)
      v == IF ~AloneInChoice(u.arr, br1) THEN u
           ELSE When(IF IsCase(u, br1) THEN DeleteNode(u, br1)
                     ELSE [u EXCEPT !.arr[br1].choice = Null], br1, 0, Null)
  IN  IF br1 = Null THEN [t |-> t, merged |-> merged]
      ELSE IF a[br1].choice = Null \/ br2 = Null
      THEN MergeSiblings(t, Next(a, br1), merged)
      ELSE MergeSiblings(v, br1, TRUE)

\* ay_ynode_merge_cases_r: the children of i from child on, then i itself.
RECURSIVE MergeBelow(_, _, _, _)
MergeBelow(t, i, child, merged) ==
  IF t.arr[i].desc = 0 THEN [t |-> t, merged |-> merged]
  ELSE IF child = Null THEN MergeSiblings(t, i + 1, merged)
  ELSE LET r == MergeBelow(t, child, child + 1, merged)
       IN  MergeBelow(r.t, i, Next(r.t.arr, child), r.merged)

\* One round; the rounds end with one that merges nothing.
MergeCases(t) ==
  LET r == MergeBelow(t, 1, 2, FALSE)
  IN  Go(r.t, IF r.merged THEN 2 ELSE 3)

(***************************************************************************)
(* ay_ynode_delete_useless_choice: equal branches whose when statements    *)
(* name all the values of the target are one node without condition.       *)
(***************************************************************************)
DeleteUselessAt(t, target, j) ==
  LET a == t.arr
      key == DFind(t.values, a[target].value)
      vals == {t.values[m].v : m \in key..(key + t.values[key].n)}
      run == ChoiceRun(a, j)
      Useless == \A b \in run : /\ a[b].wref = a[target].id /\ a[b].wval \in vals
                                 /\ SubtreeEqual(t, j, b, TRUE, TRUE)
      last == LastOf(run)
  IN  IF j > t.cap THEN [t EXCEPT !.ok = FALSE]
      ELSE IF /\ j <= Len(a) /\ a[j].wref = a[target].id /\ a[j].choice # Null
              /\ FirstInChoice(a, Parent(a, j), a[j].choice) = j
              /\ Cardinality(run) > 1
              /\ Useless /\ t.values[key].n + 1 = Cardinality(run)
      THEN When(DeleteRange(t, Past(a, j), Past(a, last) - Past(a, j)), j, 0, Null)
      ELSE t

RECURSIVE DeleteUseless(_, _, _)
DeleteUseless(t, target, j) ==
  IF j >= t.arr[Parent(t.arr, target)].desc THEN t
  ELSE DeleteUseless(DeleteUselessAt(t, target, target + j + 1), target, j + 1)

DeleteUselessChoice(t, i) ==
  LET key == DFind(t.values, t.arr[i].value)
  IN  IF "when_target" \notin t.arr[i].flags \/ key = Null THEN Go(t, i + 1)
      ELSE Asserting(DIsKey(t.values, key), Go(DeleteUseless(t, i, 0), i + 1))
=============================================================================
