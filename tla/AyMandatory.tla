---------------------------- MODULE AyMandatory ----------------------------
(***************************************************************************)
(* augyang, fourth part: which nodes and choices are mandatory             *)
(* (ay_ynode_tree_set_mandatory, five loops over the tree) and which when  *)
(* statements also hold without their target (ay_ynode_when_ornot).        *)
(***************************************************************************)
EXTENDS AyOrder

Mand == {"mand_true", "mand_false"}
Unflag(t, i, F) == [t EXCEPT !.arr[i].flags = @ \ F]
\* Mutant: the earlier decision is not reset.
AddMand(t, i, m) == Flag(t, i, {m})

SetMand(t, i, m) == Flag(Unflag(t, i, Mand), i, {m})
MinElems(t, i, n) == [t EXCEPT !.arr[i].min = n]

\* The children of a node whose children are optional; a case needs its first.
MandChildren(t, i) ==
  LET kids == Children(t.arr, i)
      Of(j) == IF t.arr[i].type = "case" /\ j = i + 1 THEN {"mand_true"} ELSE {"mand_false"}
  IN  IF "children_mand_false" \notin t.arr[i].flags THEN t
      ELSE [t EXCEPT !.arr = [j \in 1..Len(t.arr) |->
              IF j \in kids THEN [t.arr[j] EXCEPT !.flags = @ \cup Of(j)] ELSE t.arr[j]]]

\* A node nothing has been said about: its lens says it.
MandByLens(t, i) ==
  LET y == t.arr[i]
      from == IF y.type = "list" /\ ~IsSeqList(t, i) THEN y.label ELSE y.snode
      maybe == HasMaybe(t.lt, from, FALSE, FALSE)
  IN  IF y.type = "value" /\ ("value_mand_false" \in y.flags
                              \/ HasAttribute(t.lt, y.value, "maybe") # Null)
      THEN Flag(t, i, {"mand_false"})
      ELSE IF maybe THEN MinElems(Flag(t, i, {"mand_false"}), i, 0)
      ELSE Flag(t, i, IF y.type = "list" /\ y.min = 0 THEN {"mand_false"} ELSE {"mand_true"})

SetMandatory(t0, i) ==
  LET t == MandChildren(t0, i)
      y == t.arr[i]
      p == Parent(t.arr, i)
      hinted == /\ "hint_mand_true" \in y.flags
                /\ ~HasMaybe(t.lt, y.snode, FALSE, FALSE)
      only == t.arr[p].type = "list" /\ t.arr[p].desc = 1 /\ Parent(t.arr, p) # 1
  IN  Go(CASE y.type = "container" -> Unflag(t, i, Mand)
           [] y.type = "key" -> SetMand(t, i, "mand_true")
           [] y.type \notin {"container", "key"} ->
                IF only THEN MinElems(SetMand(t, i, "mand_true"), i, 1)
                ELSE IF hinted
                THEN MinElems(Flag(t, i, {"mand_true"}), i, IF y.type = "list" THEN 1 ELSE 0)
                ELSE IF "hint_mand_false" \in y.flags THEN Flag(t, i, {"mand_false"})
                ELSE IF "mand_true" \in y.flags THEN t
                ELSE IF "mand_false" \in y.flags THEN MinElems(t, i, 0)
                ELSE MandByLens(t, i),
         i + 1)

(***************************************************************************)
(* A choice with an empty branch: one whose lenses left no node.           *)
(***************************************************************************)
ContainsLnode(t, i, n) ==
  \E j \in Subtree(t.arr, i) :
    LET y == t.arr[j] IN \E m \in {y.snode, y.label, y.value} : LensEqual(t.lt, m, n)

\* The siblings from i on up to the first that is not in the choice, which is
\* looked into as well.
ChoiceContainsLnode(t, i, choice, n) ==
  \E j \in Siblings(t.arr, i) :
    /\ j >= i
    /\ \A k \in Siblings(t.arr, i) : i <= k /\ k < j => t.arr[k].choice = choice
    /\ ContainsLnode(t, j, n)

HasEmptyBranch(t, i, choice) ==
  LET l == t.lt
      Chosen(n) ==      \* a value that is in an L_UNION of its L_SUBTREE
        LET up == LastOf({m \in Ancestors(l, n) : l[m].tag \in {"subtree", "union"}})
        IN  IsValueTag(l[n].tag) /\ Tag(t, up) = "union"
      Kept(s) ==
        LET lv == FirstOf({n \in Own(l, s, s + 1) : IsLabelTag(l[n].tag) \/ IsValueTag(l[n].tag)})
        IN  /\ l[s].tag = "subtree" /\ lv # Null
            /\ IsComment(l, lv) \/ ChoiceContainsLnode(t, i, choice, lv)
  IN  \E br \in Children(l, choice) : \A n \in Subtree(l, br) : ~Chosen(n) /\ ~Kept(n)

EmptyBranch(t, i) ==
  LET y == t.arr[i]
      asked == /\ y.choice # Null /\ y.flags \cap {"choice_created", "choice_mand_false"} = {}
               /\ i = FirstInChoice(t.arr, Parent(t.arr, i), y.choice)
  IN  Go(IF asked /\ HasEmptyBranch(t, i, y.choice) THEN Flag(t, i, {"choice_mand_false"}) ELSE t,
         i + 1)

(***************************************************************************)
(* A list that may be empty because what is in it may be missing.          *)
(***************************************************************************)
\* Only choices, none of them mandatory.  The node behind such a choice is
\* passed over.
ChildrenMandFalse(t, i) ==
  LET a == t.arr
      Optional(c) == /\ a[c].choice # Null /\ "choice_mand_false" \in a[c].flags
                     /\ ~AloneInChoice(a, c)
      Behind(c) == Next(a, LastOf(ChoiceRun(a, c)))
      From[c \in (i + 1)..Past(a, i)] ==
        IF c = Past(a, i) THEN TRUE
        ELSE /\ Optional(c)
             /\ Behind(c) # Null => From[Past(a, Behind(c))]
  IN  From[i + 1]

\* The lenses between those of the list and of its parent.
UpperStart(t, i) ==
  LET y == t.arr[i]
      c == IF y.desc > 0 THEN t.arr[i + 1] ELSE y
  IN  IF Tag(t, y.snode) = "subtree" THEN y.snode
      ELSE IF y.desc = 0 THEN Null
      ELSE IF c.label # Null THEN c.label ELSE c.snode

UpperStop(t, i) ==
  LET y == t.arr[i]
      p == t.arr[Parent(t.arr, i)]
      stop == LastOf({m \in SelfUp(t.lt, p.snode) : Tag(t, m) \in {"subtree", "star"}})
  IN  IF stop # Null THEN stop
      ELSE IF Tag(t, y.label) = "star" THEN y.label
      ELSE IF Tag(t, y.label) = "seq" THEN HasAttribute(t.lt, y.snode, "star")
      ELSE Null

UpperChoiceMandFalse(t, i) ==
  LET start == UpperStart(t, i)
      stop == UpperStop(t, i)
  IN  /\ start # Null /\ stop # Null
      /\ \E c \in Up(t.lt, start, stop) :
           Tag(t, c) = "union" /\ HasEmptyBranch(t, Parent(t.arr, i), c)

\* The search for an upper choice has an end.
UpperEnds(t, i) ==
  LET start == UpperStart(t, i)
      stop == UpperStop(t, i)
      y == t.arr[i]
  IN  start # Null =>
        IF stop # Null THEN stop \in SelfUp(t.lt, start) \/ UpperChoiceMandFalse(t, i)
        ELSE y.label # Null /\ Tag(t, y.label) # "seq"

MandatoryInList(t, i) ==
  LET y == t.arr[i]
      asked == y.type = "list" /\ "mand_false" \notin y.flags /\ y.min > 0
  IN  IF ~asked THEN Go(t, i + 1)
      ELSE IF ChildrenMandFalse(t, i) \/ UpperChoiceMandFalse(t, i)
      THEN Asserting(ChildrenMandFalse(t, i) \/ UpperEnds(t, i),
                     Go(MinElems(SetMand(t, i, "mand_false"), i, 0), i + 1))
      ELSE Asserting(UpperEnds(t, i), Go(t, i + 1))

(***************************************************************************)
(* Choices                                                                 *)
(***************************************************************************)
\* A choice with an optional node is optional; the search for one ends at a
\* recursive list.
MandatoryChoice(t, i) ==
  LET a == t.arr
      y == a[i]
      run == ChoiceRun(a, i)
      rec == FirstOf({j \in run : Tag(t, a[j].snode) = "rec"})
      optional == {j \in run : "mand_false" \in a[j].flags /\ (rec # Null => j < rec)}
  IN  IF \/ y.choice = Null \/ i # FirstInChoice(a, Parent(a, i), y.choice)
         \/ AloneInChoice(a, i) \/ "choice_mand_false" \in y.flags
      THEN Go(t, i + 1)
      ELSE IF HasMaybe(t.lt, y.choice, FALSE, FALSE) \/ optional # {}
      THEN Go(Flag(t, i, {"choice_mand_false"}), i + 1)
      ELSE Go(t, i + 1)

\* The choice that is all of an optional list is mandatory.
ChoiceInList(t, i) ==
  LET a == t.arr
      y == a[i]
      c == i + 1
      mandatory == y.choice = Null /\ ("mand_true" \in y.flags \/ y.min > 0)
  IN  IF y.type # "list" \/ y.desc = 0 \/ mandatory THEN Go(t, i + 1)
      ELSE IF /\ a[c].choice # Null /\ "choice_mand_false" \in a[c].flags
              /\ ChoiceRun(a, c) = Children(a, i)
      THEN Go(Unflag(t, c, {"choice_mand_false"}), i + 1)
      ELSE Go(t, i + 1)

(***************************************************************************)
(* ay_ynode_when_ornot                                                     *)
(***************************************************************************)
\* The node the reference leads to: it is looked for under the nodes above.
WhenRefNode(a, i) ==
  LET above == LastOf({p \in Ancestors(a, i) : \E j \in Subtree(a, p) : a[j].id = a[i].wref})
  IN  IF above = Null THEN Null ELSE GetNode(a, above, a[i].wref)

ValueNode(t, i, label, value) ==
  LET a == t.arr
      SameLens(m, n) == m # Null /\ n # Null /\ t.lt[m].lens = t.lt[n].lens
  IN  FirstOf({j \in Subtree(a, i) \ {i} : /\ a[j].type = "value"
                                          /\ SameLens(a[j].label, label)
                                          /\ SameLens(a[j].value, value)})

WhenTarget(t, i) ==
  LET r == WhenRefNode(t.arr, i)
  IN  IF r = Null \/ t.arr[r].type \in {"value", "leaf"} THEN r
      ELSE ValueNode(t, r, t.arr[r].label, t.arr[r].value)

WhenOrnot(t, i) ==
  LET y == t.arr[i]
      target == WhenTarget(t, i)
      sub == LastOf({m \in SelfUp(t.lt, y.wval) : Tag(t, m) = "subtree"})
      ornot == \E m \in Up(t.lt, sub, t.arr[target].choice) \ {sub} : Tag(t, m) = "maybe"
  IN  IF y.wval = Null THEN Go(t, i + 1)
      ELSE IF target = Null THEN Asserting(FALSE, Go(t, i + 1))
      ELSE IF "mand_true" \in t.arr[target].flags THEN Go(t, i + 1)
      ELSE Asserting(sub # Null, Go(IF ornot THEN Flag(t, i, {"when_ornot"}) ELSE t, i + 1))
=============================================================================
