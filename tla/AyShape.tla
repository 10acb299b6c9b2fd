------------------------------ MODULE AyShape ------------------------------
(***************************************************************************)
(* augyang, first part (src/src/augyang.c): the tree of YANG nodes made    *)
(* from a tree of lenses, and the transformations that give the nodes      *)
(* their types and the choices their cases.                                *)
(*                                                                         *)
(* A tree is that of AyYnode with lt, the lenses (ay_ynode_root.ltree),    *)
(* the dictionaries labels and values and ok.  A transformation is a loop  *)
(* over the array; an operator stands for ONE iteration, on the node at i, *)
(* and returns the tree and the index of the next iteration.  ok says that *)
(* the assertions hold and no NULL is followed: the program ends with it.  *)
(***************************************************************************)
EXTENDS AyLnode, FiniteSets

Sq == INSTANCE SequencesExt

Go(t, i) == [t |-> t, i |-> i]
Asserting(ok, step) == [step EXCEPT !.t.ok = @ /\ ok]

(***************************************************************************)
(* The forest of the lenses and its root.                                  *)
(***************************************************************************)
IsIgnored(l, n) == l[n].tag = "subtree" /\ IsComment(l, FindLabel(l, n))

\* The lenses that have a node.
Noded(l) ==
  {n \in 1..Len(l) : /\ l[n].tag \in {"subtree", "rec"}
                     /\ ~\E m \in SelfUp(l, n) : IsIgnored(l, m)}

AddChoice(l, n) ==
  LET stop == LastOf({m \in Ancestors(l, n) : l[m].tag \in {"subtree", "rec"}})
  IN  LastOf({m \in Ancestors(l, n) : m > stop /\ l[m].tag = "union"})

\* The loop over the lenses ends before the last one.
CreateForest(l) ==
  LET at == SelectSeq([n \in 1..(Len(l) - 1) |-> n], LAMBDA n : n \in Noded(l))
      Ynode(k) ==
        LET n == at[k]
        IN  [Blank(k) EXCEPT
               !.desc = Cardinality((Subtree(l, n) \ {n}) \cap Noded(l)),
               !.type = IF l[n].tag = "rec" THEN "rec" ELSE "unknown",
               !.snode = n, !.label = FindLabel(l, n), !.value = FindValue(l, n),
               !.choice = AddChoice(l, n)]
  IN  <<>> \o [k \in 1..Len(at) |-> Ynode(k)]

\* ay_ynode_set_root; snode of the root is ay_ynode_root.ltree.
CreateTree(l) ==
  LET forest == CreateForest(l)
  IN  [arr |-> <<[Blank(0) EXCEPT !.type = "root", !.snode = 1,
                                  !.desc = Len(forest)]>> \o forest,
       cap |-> Len(forest) + 1, idcnt |-> Len(forest) + 1,
       lt |-> l, labels |-> <<>>, values |-> <<>>, ok |-> TRUE]

(***************************************************************************)
(* What the transformations ask of a node.                                 *)
(***************************************************************************)
Tag(t, n) == IF n = Null THEN "none" ELSE t.lt[n].tag

IsImplicitList(t, i) ==
  LET y == t.arr[i]
  IN  y.type = "list" /\ y.label # Null /\ y.label = y.snode /\ Tag(t, y.label) = "star"

IsSeqList(t, i) == t.arr[i].type = "list" /\ Tag(t, t.arr[i].label) = "seq"

NoRegex(t, n) == n # Null /\ Tag(t, n) = "key" /\ t.lt[n].ids >= 1

LabelIsIdent(t, i) ==
  LET n == t.arr[i].label
  IN  Tag(t, n) = "label" \/ (NoRegex(t, n) /\ ~t.lt[n].nocase)

\* The nearest of the nodes with a lens, from i upwards.
NearestSnode(t, i) ==
  LET s == {j \in SelfUp(t.arr, i) \ {1} : t.arr[j].snode # Null}
  IN  IF s = {} THEN Null ELSE t.arr[LastOf(s)].snode

\* The star that repeats node i (ay_ynode_get_repetition).
Repetition(t, i) ==
  LET p == Parent(t.arr, i)
      start == NearestSnode(t, i)
  IN  LastOf({m \in Up(t.lt, start, NearestSnode(t, p)) :
                /\ Tag(t, m) = "star"
                /\ IsImplicitList(t, p) => m # t.arr[p].label})

\* The way up to the lens of the parent; without one it ends at NULL.
HasWayUp(t, i) ==
  LET start == NearestSnode(t, i)
      stop == NearestSnode(t, Parent(t.arr, i))
  IN  start # Null /\ stop # Null /\ Repetition(t, i) = Null => stop \in SelfUp(t.lt, start)

HasKeyValue(t, i) ==
  Tag(t, t.arr[i].label) \in {"key", "seq"} /\ t.arr[i].value # Null

RuleList(t, i) ==
  LET y == t.arr[i]
      star == Repetition(t, i)
  IN  /\ y.desc > 0 \/ HasKeyValue(t, i) \/ NoRegex(t, y.label)
      /\ y.label # Null /\ star # Null
      /\ ~(IsImplicitList(t, Parent(t.arr, i)) /\ y.label = star)

RuleLeafList(t, i) ==
  LET y == t.arr[i]
      star == Repetition(t, i)
  IN  /\ y.desc = 0 /\ y.label # Null /\ star # Null
      /\ ~(IsImplicitList(t, Parent(t.arr, i)) /\ y.label = star)

RuleContainer(t, i) ==
  LET y == t.arr[i]
  IN  /\ y.desc > 0 \/ HasKeyValue(t, i)
      /\ y.label # Null /\ Repetition(t, i) = Null

RuleLeaf(t, i) == t.arr[i].desc = 0 /\ t.arr[i].label # Null

(***************************************************************************)
(* ay_ynode_insert_implicit_list: the nodes under two stars.               *)
(***************************************************************************)
RuleImplicitList(t) ==
  Cardinality({n \in 1..Len(t.lt) :
                 Tag(t, n) = "star" /\ HasAttribute(t.lt, n, "star") # Null})

InsertImplicitList(t, i) ==
  LET a == t.arr
      p == Parent(a, i)
      star2 == HasAttribute(t.lt, HasAttribute(t.lt, a[i].snode, "star"), "star")
      kids == ChildSeq(a, p)
      In(k) == star2 \in Within(t.lt, a[kids[k]].snode)
      cnt == LastOf({k \in 1..Len(kids) : \A j \in 1..k : In(j)})
      list == kids[1]
      Adopt(u, k) == MoveAsLastChild(u, list, Next(u.arr, list))
      t1 == [InsertWrapper(t, list) EXCEPT !.arr[list].type = "list",
                                           !.arr[list].label = star2,
                                           !.arr[list].snode = star2]
  IN  IF IsImplicitList(t, p) \/ star2 = Null \/ cnt = Null THEN Go(t, i + 1)
      ELSE LET adopted == Sq!FoldLeft(Adopt, t1, SubSeq(kids, 1, cnt))
           IN  Go([adopted EXCEPT !.arr[list].choice = adopted.arr[list + 1].choice],
                  i + 2)

(***************************************************************************)
(* Types, and the nodes without one.                                       *)
(***************************************************************************)
SetType(t, i) ==
  LET y == t.arr[i]
      type == IF RuleList(t, i) \/ RuleLeafList(t, i) THEN "list"
              ELSE IF RuleContainer(t, i) THEN "container"
              ELSE IF RuleLeaf(t, i) THEN "leaf" ELSE y.type
  IN  IF y.snode = Null THEN Asserting(y.type # "unknown", Go(t, i + 1))
      ELSE IF y.type \in {"rec", "list"} THEN Go(t, i + 1)
      ELSE Asserting(HasWayUp(t, i), Go([t EXCEPT !.arr[i].type = type], i + 1))

DeleteTypeUnknown(t, i) ==
  LET a == t.arr
  IN  IF a[i].type # "unknown" THEN Go(t, i + 1)
      ELSE IF a[i].desc > 0 /\ a[i + 1].type = "rec" THEN Go(DeleteNode(t, i), i)
      ELSE Go(DeleteSubtree(t, i), i)

(***************************************************************************)
(* ay_ynode_delete_build_list: in lns . (sep . lns)*, and the other way    *)
(* round in a second pass over the siblings in reverse order, the nodes of *)
(* the lns outside of the star are deleted.                                *)
(***************************************************************************)
CommonConcat(t, i, j, stop) ==
  LET con == LastConcat(t.lt, t.arr[i].snode, stop)
  IN  con # Null /\ con = LastConcat(t.lt, t.arr[j].snode, stop)

\* ay_ynode_alone_in_choice, over siblings in reverse order too.
AloneInOrder(a, i, reverse) ==
  IF ~reverse THEN AloneInChoice(a, i)
  ELSE /\ a[i].choice # Null
       /\ \A j \in Siblings(a, i) : j > i => a[j].choice # a[i].choice
       /\ LET n == Prev(a, i) IN n # Null => a[n].choice # a[i].choice

BuildListMatch(t, i, j, list_check, reverse) ==
  LET a == t.arr
      x == a[i]
      y == a[j]
      stop == IF AloneInOrder(a, i, reverse) THEN a[Parent(a, i)].snode ELSE x.choice
  IN  IF "rec" \in {x.type, y.type} THEN t.lt[x.snode].lens = t.lt[y.snode].lens
      ELSE /\ x.choice # Null /\ x.choice = y.choice => CommonConcat(t, i, j, x.choice)
           /\ y.label # Null /\ y.snode # Null
           /\ list_check => y.type = "list"
           /\ list_check /\ x.type = "list" =>
                /\ CommonConcat(t, i, j, stop)
                /\ HasAttribute(t.lt, x.snode, "star") # HasAttribute(t.lt, y.snode, "star")
           /\ LensEqual(t.lt, x.label, y.label)
           /\ (x.value = Null) = (y.value = Null)
           /\ x.value # Null => LensEqual(t.lt, x.value, y.value)

\* The group of cnt nodes from i on is followed by an equal group in the star.
\* The search starts again at the group before it when that looks like it; a
\* group before it that is one too short makes the index leave the array.
DeleteBuildList(t, i, reverse) ==
  LET a == t.arr
      sibs == ChildSeq(a, Parent(a, i))
      order == IF reverse THEN Sq!Reverse(sibs) ELSE sibs
      k == CHOOSE n \in 1..Len(order) : order[n] = i
      Fits(n) ==        \* n nodes from k, and their doubles
        /\ k + 2 * n - 1 <= Len(order)
        /\ \A m \in 0..(n - 1) : BuildListMatch(t, order[k + m], order[k + n + m], TRUE, reverse)
      cnt == FirstOf({n \in 1..Len(order) : Fits(n)})
      Bump(u, m) == IF a[order[k + m]].type = "list" THEN u
                    ELSE [u EXCEPT !.arr[order[k + cnt + m]].min = @ + 1]
      bumped == Sq!FoldLeft(Bump, t, [m \in 1..cnt |-> m - 1])
      again == k > 1 /\ BuildListMatch(t, order[k - 1], order[k + cnt - 1], FALSE, reverse)
      from == IF ~again THEN i ELSE IF k > cnt THEN order[k - cnt] ELSE Len(a) + 1
      first == IF reverse THEN order[k + cnt - 1] ELSE i
      size == (IF reverse THEN Past(a, i) ELSE order[k + cnt]) - first
  IN  IF (a[i].label = Null \/ a[i].snode = Null) /\ a[i].type # "rec" THEN Go(t, i + 1)
      ELSE IF cnt = Null THEN Go(t, i + 1)
      ELSE Asserting(again => k >= cnt,
                     Go(DeleteRange(bumped, first, size),
                        IF reverse THEN from - size + 1 ELSE from))

(***************************************************************************)
(* ay_ynode_unite_choice: neighbours whose choices lie one in the other    *)
(* get the outer one.                                                      *)
(***************************************************************************)
UniteChoice(t, i) ==
  LET p == Parent(t.arr, i)
      kids == ChildSeq(t.arr, p)
      Inside(n, m) == \E u \in SelfUp(t.lt, n) : t.lt[u].lens = t.lt[m].lens
      Run(a, j, c) ==   \* the siblings from j on with choice c get choice d
        {m \in Children(a, p) : m >= j /\ \A u \in Children(a, p) :
                                   j <= u /\ u <= m => a[u].choice = c}
      Reset(a, S, d) == [m \in 1..Len(a) |->
                           IF m \in S THEN [a[m] EXCEPT !.choice = d] ELSE a[m]]
      Pair(a, k) ==
        LET x == a[kids[k]].choice
            y == a[kids[k + 1]].choice
        IN  IF x = Null \/ y = Null \/ a[p].snode = Null \/ x = y THEN a
            ELSE IF Inside(x, y)
            THEN Reset(a, Run(a, FirstInChoice(a, p, x), x), y)
            ELSE IF Inside(y, x) THEN Reset(a, Run(a, kids[k + 1], y), x)
            ELSE a
  IN  IF kids[1] # i THEN Go(t, i + 1)
      ELSE Go([t EXCEPT !.arr = Sq!FoldLeft(Pair, @, [k \in 1..(Len(kids) - 1) |-> k])],
              i + 1)

(***************************************************************************)
(* The dictionaries: items [n, v], a key v followed by its n values, which *)
(* have n = 0 (struct ay_dnode).                                           *)
(***************************************************************************)
DFind(d, v) == FirstOf({k \in 1..Len(d) : d[k].v = v})
DIsKey(d, k) == d[k].n > 0
DValues(d, k) == {d[m].v : m \in (k + 1)..(k + d[k].n)}

\* ay_dnode_merge_keys: k2 and its values become values of k1, and k1 is first.
MergeKeys(d, k1, k2) ==
  LET Block(k) == SubSeq(d, k, k + d[k].n)
      rest == SelectSeq([k \in 1..Len(d) |-> k],
                        LAMBDA k : k \notin k1..(k1 + d[k1].n) \cup k2..(k2 + d[k2].n))
  IN  <<[d[k1] EXCEPT !.n = @ + d[k2].n + 1]>> \o Tail(Block(k1))
      \o <<[d[k2] EXCEPT !.n = 0]>> \o Tail(Block(k2)) \o [k \in 1..Len(rest) |-> d[rest[k]]]

\* A value for a key that is not the last one is written over the next key:
\* the memmove that should make room is given the number of items as the
\* number of bytes, which is enough for a count and not for an item, and the
\* new last item is the zeroed memory behind the array.
InsertValue(d, key, value) ==
  LET gap == key + d[key].n + 1
      new == [n |-> 0, v |-> value]
  IN  IF gap > Len(d) THEN [d EXCEPT ![key].n = @ + 1] \o <<new>>
      ELSE [d EXCEPT ![key].n = @ + 1, ![gap] = new, ![gap + 1].n = d[gap].n]
           \o <<[n |-> 0, v |-> Null]>>

\* The value is a key of its own, and there is no key to merge it into, or the
\* assertions of ay_dnode_merge_keys do not hold.
MergeFails(d, k, v) ==
  /\ v # Null /\ DIsKey(d, v)
  /\ k = Null \/ DValues(d, k) \cap DValues(d, v) # {} \/ Len(MergeKeys(d, k, v)) # Len(d)

\* ay_dnode_insert on s = [d, ok]: the dictionary, and whether it came so far.
DInsert(l, s, key, value) ==
  LET d == s.d
      k == DFind(d, key)
      v == DFind(d, value)
      Taken == \E m \in k..(k + d[k].n) : LensEqual(l, d[m].v, value)
      Put(dict) == [s EXCEPT !.d = dict]
  IN  IF k # Null /\ (~DIsKey(d, k) \/ Taken) THEN s
      ELSE IF k = Null /\ v = Null /\ LensEqual(l, key, value) THEN s
      ELSE IF MergeFails(d, k, v) THEN [s EXCEPT !.ok = FALSE]
      ELSE IF v # Null /\ DIsKey(d, v) THEN Put(MergeKeys(d, k, v))
      ELSE IF k # Null THEN Put(InsertValue(d, k, value))
      ELSE Put(d \o <<[n |-> 1, v |-> key], [n |-> 0, v |-> value]>>)

\* ay_ynode_set_lv: the other labels and values of the node.
InsertNexts(l, d, key, rest) ==
  Sq!FoldLeft(LAMBDA s, v : DInsert(l, s, key, v), [d |-> d, ok |-> TRUE], rest)

RECURSIVE NextLvs(_, _, _)
NextLvs(l, lv, label) ==
  LET n == NextLv(l, lv, label)
  IN  IF n = Null THEN <<>> ELSE <<n>> \o NextLvs(l, n, label)

SetLv(t, i) ==
  LET y == t.arr[i]
      labels == InsertNexts(t.lt, t.labels, y.label, NextLvs(t.lt, y.label, TRUE))
      values == InsertNexts(t.lt, t.values, y.value, NextLvs(t.lt, y.value, FALSE))
  IN  Asserting(labels.ok /\ values.ok,
                Go([t EXCEPT !.labels = labels.d, !.values = values.d], i + 1))

(***************************************************************************)
(* ay_ynode_more_keys_for_node: [key a | key b ...] becomes [key a] | [key *)
(* b] ..., with the nodes that belong to a key moved to its node and the   *)
(* nodes that belong to all of them copied.                                *)
(***************************************************************************)
\* Mutant: room for the new nodes, none for the copies of their children.
RuleMoreKeysNodes(t) ==
  LET Cost(y) == LET k == DFind(t.labels, y.label)
                 IN  IF y.label = Null \/ y.snode = Null \/ k = Null THEN 0 ELSE t.labels[k].n
  IN  Sq!FoldLeft(LAMBDA c, y : c + Cost(y), 0, Tail(t.arr))

RuleMoreKeys(t) ==
  LET Cost(y) == LET k == DFind(t.labels, y.label)
                 IN  IF y.label = Null \/ y.snode = Null \/ k = Null THEN 0
                     ELSE t.labels[k].n * (y.desc + 1)
  IN  Sq!FoldLeft(LAMBDA c, y : c + Cost(y), 0, Tail(t.arr))

\* The outermost choice of the lens below stop, when the node is in a choice.
ResetChoice(t, i, stop) ==
  LET y == t.arr[i]
      unions == {m \in Up(t.lt, y.snode, stop) : Tag(t, m) = "union"}
  IN  IF y.snode = Null \/ y.choice = Null THEN t
      ELSE [t EXCEPT !.arr[i].choice = FirstOf(unions)]

\* The k-th sibling behind node i.
RECURSIVE NthNext(_, _, _)
NthNext(a, i, k) == IF k = 0 THEN i ELSE NthNext(a, Next(a, i), k - 1)

\* One key of the dictionary; i is its index there.
MoreKeysForNode(t, i) ==
  LET key == t.labels[i].v
      keys == [k \in 1..t.labels[i].n |-> t.labels[i + k].v]
      y == FirstOf({j \in 2..Len(t.arr) : t.arr[j].label = key})
      choice == HasAttribute(t.lt, key, "union")
      inserted == Sq!FoldLeft(LAMBDA u, k : InsertSibling(u, y), t, keys)
      mine == IF t.arr[y].choice = Null THEN choice ELSE t.arr[y].choice
      Named(u, k) ==
        [u EXCEPT !.arr[Past(u.arr, y) + k - 1] =
           [@ EXCEPT !.label = keys[k], !.type = "container", !.choice = mine]]
      named == Sq!FoldLeft(Named, [inserted EXCEPT !.arr[y].choice = mine],
                           [k \in DOMAIN keys |-> k])
      \* The children that lie in the branch of the k-th key, in its order.
      MoveOne(u, m) ==
        LET child == FirstOf({c \in Children(u.arr, y) : u.arr[c].snode = m[2]})
        IN  IF child = Null THEN u
            ELSE MoveAsLastChild(ResetChoice(u, child, choice),
                                 NthNext(u.arr, y, m[1]), child)
      Moves(k) ==
        LET branch == ChoiceBranch(t.lt, keys[k], choice)
            subs == SelectSeq([n \in 1..(t.lt[branch].desc + 1) |-> branch + n - 1],
                              LAMBDA n : Tag(t, n) = "subtree")
        IN  [n \in DOMAIN subs |-> <<k, subs[n]>>]
      moved == Sq!FoldLeft(LAMBDA u, k : Sq!FoldLeft(MoveOne, u, Moves(k)), named,
                           [k \in DOMAIN keys |-> k])
      CopyOne(u, child) ==
        IF u.arr[child].choice = choice THEN u
        ELSE Sq!FoldLeft(LAMBDA v, k : CopyAsLastChild(v, NthNext(v.arr, y, k), child), u,
                         [k \in DOMAIN keys |-> k])
      ok == /\ y # Null /\ Tag(t, t.arr[y].snode) = "subtree"
            /\ t.arr[y].snode < key /\ choice # Null
            /\ \A k \in DOMAIN keys : choice = CommonChoice(t.lt, key, keys[k], choice)
  IN  IF ~ok THEN Asserting(FALSE, Go(t, i + 1))
      ELSE Go(Sq!FoldLeft(CopyOne, moved, ChildSeq(moved.arr, y)), i + 1 + Len(keys))

(***************************************************************************)
(* ay_ynode_insert_case: neighbours in a choice that a concatenation holds *)
(* together are put into a case.                                           *)
(***************************************************************************)
RuleInsertCase(t) ==
  LET a == t.arr
      Even(i) == LET run == ChoiceRun(a, FirstInChoice(a, Parent(a, i), a[i].choice))
                 IN  /\ a[i].choice # Null
                     /\ i \in run \ {LastOf(run)}
                     /\ Cardinality({j \in run : j <= i}) % 2 = 1
  IN  Cardinality({i \in 2..Len(a) : Even(i)})

\* The siblings behind i that belong into one case with it.
CaseMates(t, i) ==
  LET a == t.arr
      Mate(j) == /\ a[i].choice # Null /\ a[i].snode # Null /\ a[j].snode # Null
                 /\ a[j].choice = a[i].choice
                 /\ CommonConcat(t, i, j, CommonChoice(t.lt, a[i].snode, a[j].snode,
                                                        a[i].choice))
  IN  {j \in Siblings(a, i) : j > i /\ \A m \in Siblings(a, i) :
                                          i < m /\ m <= j => Mate(m)}

\* The choices of the nodes of S are those of their lenses below stop.
ResetChoices(t, S, stop) == Sq!FoldSet(LAMBDA c, u : ResetChoice(u, c, stop), t, S)

ClearAlone(t, S) ==
  Sq!FoldLeft(LAMBDA u, c : IF c \in S /\ AloneInChoice(u.arr, c)
                            THEN [u EXCEPT !.arr[c].choice = Null] ELSE u,
              t, [k \in 1..Len(t.arr) |-> k])

\* The value of the root is read when the case is at the top level: that field
\* of the root holds the dictionary of values, and the read fails when it has
\* items.
InsertCase(t, i) ==
  LET mates == CaseMates(t, i)
      wrapped == [InsertWrapper(t, i) EXCEPT !.arr[i].type = "case",
                                             !.arr[i].choice = t.arr[i].choice,
                                             !.arr[i + 1].choice = Null]
      choice == t.arr[i].choice
      full == Sq!FoldSet(LAMBDA c, u : MoveAsLastChild(u, i, Next(u.arr, i)), wrapped, mates)
      rest == Children(full.arr, i) \ {i + 1}
      clear == ClearAlone(ResetChoices(full, rest, choice), rest)
      p == Parent(clear.arr, i)
      alone == AloneInChoice(clear.arr, i)
      drop == alone /\ HasAttribute(t.lt, clear.arr[p].value, "union") # choice
      second == Next(clear.arr, i + 1)
      a == clear.arr
      Shared(j) ==
        /\ a[i + 1].choice # CommonChoice(t.lt, a[i + 1].snode, a[j].snode, choice)
        /\ CommonConcat(clear, second, j, choice)
      refs == {j \in Siblings(a, i) : j < i /\ \A m \in Siblings(a, i) :
                                               j <= m /\ m < i => Shared(m)}
      asked == {j \in Siblings(a, i) : j < i /\ \A m \in Siblings(a, i) :
                                                j < m /\ m < i => m \in refs}
      marked == [clear EXCEPT !.arr = [j \in 1..Len(a) |->
                   IF j \in refs THEN [a[j] EXCEPT !.ref = a[i].id]
                   ELSE IF j = 1 /\ refs # {} THEN [a[j] EXCEPT !.ref = 1] ELSE a[j]]]
  IN  IF mates = {} THEN Asserting(t.arr[i].ref = 0, Go(t, i + 1))
      ELSE Asserting(t.arr[i].ref = 0 /\ (alone /\ p = 1 => t.values = <<>>),
                     IF drop THEN Go(DeleteNode(clear, i), i + 1)
                     ELSE Asserting(~\E j \in asked : EndsAtNull(t.lt, a[i + 1].snode,
                                                                a[j].snode, choice),
                                    Go(marked, i + 2)))

(***************************************************************************)
(* ay_ynode_copy_case_nodes: a branch that ay_ynode_insert_case has marked *)
(* becomes a case with copies of the nodes it shares with the case behind. *)
(***************************************************************************)
\* The case whose nodes node i is to get.
CaseSource(a, i) == FirstOf({j \in Siblings(a, i) : j > i /\ a[j].id = a[i].ref})

RuleCopyCaseNodes(t) ==
  LET a == t.arr
      Cost(i) == LET cas == CaseSource(a, i)
                 IN  IF a[i].ref = 0 THEN 0 ELSE 1 + a[cas].desc - (a[cas + 1].desc + 1)
  IN  IF a[1].ref = 0 THEN 0
      ELSE Sq!FoldLeft(LAMBDA c, i : c + Cost(i + 1), 0, [i \in 1..(Len(a) - 1) |-> i])

CopyCaseNodes(t, i) ==
  LET clean == [t EXCEPT !.arr[1].ref = 0]
      wrapped == [InsertWrapper(clean, i) EXCEPT !.arr[i].type = "case",
                                                 !.arr[i].choice = t.arr[i].choice,
                                                 !.arr[i + 1].choice = Null,
                                                 !.arr[i + 1].ref = 0]
      src == CaseSource(t.arr, i) + 1
      shared == Tail(ChildSeq(wrapped.arr, src))
      CopyOne(u, c) ==  \* each copy has moved the rest of the array
        CopyAsLastChild(u, i, c + Len(u.arr) - Len(wrapped.arr))
  IN  IF t.arr[i].ref = 0 THEN Go(clean, i + 1)
      ELSE IF CaseSource(t.arr, i) = Null THEN Asserting(FALSE, Go(t, i + 1))
      ELSE Go(Sq!FoldLeft(CopyOne, wrapped, shared), i + 1)
=============================================================================
