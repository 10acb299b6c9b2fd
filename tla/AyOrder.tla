------------------------------ MODULE AyOrder ------------------------------
(***************************************************************************)
(* augyang, third part: the lists that keep the order of the records, the  *)
(* recursive lenses, the leaves for keys and values and the statements     *)
(* that depend on them (src/src/augyang.c).                                *)
(***************************************************************************)
EXTENDS AyMerge

\* ay_insert_list_files: the list of configuration files above everything.
InsertListFiles(t) ==
  LET u == IF t.arr[1].desc > 0 THEN InsertParent(t, 2) ELSE InsertChild(t, 1)
  IN  Go([u EXCEPT !.arr[2].type = "list"], 3)

(***************************************************************************)
(* ay_ynode_ordered_entries: neighbouring lists under one star become the  *)
(* containers of one list.                                                 *)
(***************************************************************************)
RuleOrderedEntries(t) == Cardinality({n \in 1..Len(t.lt) : Tag(t, n) = "star"})

\* Implicit lists are not needed in the new list; what takes the place of one
\* is passed over.
RECURSIVE Containers(_, _)
Containers(t, c) ==
  LET u == IF IsImplicitList(t, c) THEN DeleteNode(t, c)
           ELSE IF t.arr[c].type \in {"rec", "case"} THEN t
           ELSE [t EXCEPT !.arr[c].type = "container"]
  IN  IF c = Null THEN t ELSE Containers(u, Next(u.arr, c))

\* The list at it and its mates go into a new list.
WrapEntries(t, it, star, mates) ==
  LET y == t.arr[it]
      kept == {"choice_mand_false", "choice_created", "hint_mand_false"}
      t1 == [InsertWrapper(t, it) EXCEPT
               !.arr[it] = [@ EXCEPT !.type = "list", !.min = y.min, !.choice = y.choice,
                              !.flags = y.flags \cap kept,
                              !.wref = y.wref, !.wval = y.wval],
               !.arr[it + 1] = [@ EXCEPT
                              !.flags = @ \ {"choice_mand_false", "hint_mand_false"},
                              !.wref = 0, !.wval = Null]]
      t2 == Sq!FoldSet(LAMBDA m, u : MoveAsLastChild(u, it, Next(u.arr, it)), t1, mates)
  IN  [Containers(t2, it + 1) EXCEPT !.arr[it].label = star]

RECURSIVE EntriesFrom(_, _, _)
EntriesFrom(s, p, it) ==
  LET t == s.t
      a == t.arr
      y == a[it]
      star == Repetition(t, it)
      Skipped == \/ IsSeqList(t, it) \/ IsImplicitList(t, it)
                 \/ y.type \notin {"list", "rec"}
                 \/ y.type = "rec" /\ a[p].type = "list" /\ Parent(a, p) # 1
                 \/ star = Null
      Mate(m) == /\ a[m].choice = y.choice /\ a[m].type \in {"list", "rec"}
                 /\ a[m].min = y.min /\ star = Repetition(t, m)
      mates == {m \in Children(a, p) : m > it /\ \A n \in Children(a, p) :
                                          it < n /\ n <= m => Mate(n)}
      u == WrapEntries(t, it, star, mates)
  IN  IF it = Null THEN s
      ELSE IF Skipped THEN EntriesFrom(s, p, Next(a, it))
      ELSE EntriesFrom(Asserting(\A m \in mates : a[m].wref = 0, [s EXCEPT !.t = u]),
                       p, Next(u.arr, it))

OrderedEntries(t, i) ==
  IF IsImplicitList(t, i) \/ t.arr[i].desc = 0 THEN Go(t, i + 1)
  ELSE EntriesFrom(Go(t, i + 1), i, i + 1)

(***************************************************************************)
(* ay_ynode_recursive_form: a recursive lens becomes a list, and its uses  *)
(* in its body leafs that refer to the list.                               *)
(***************************************************************************)
RuleRecursiveForm(t) == Cardinality({i \in 2..Len(t.arr) : t.arr[i].type = "rec"})

\* The next use of the recursive lens of node e behind index r.
LrecInternal(t, e, r) ==
  LET a == t.arr
      Uses(j) == /\ a[j].type = "rec" /\ t.lt[a[j].snode].rec
                 /\ t.lt[a[j].snode].str = t.lt[a[e].snode].str
  IN  FirstOf({j \in (r + 1)..(Past(a, e) - 1) : Uses(j)})

\* A list around the use r, unless it is in one; r moves by one then.
InsertListord(t, branch, r) ==
  LET new == t.arr[Parent(t.arr, r)].type # "list"
      t1 == IF new THEN [InsertParent(t, r) EXCEPT !.arr[Parent(t.arr, r) + 1].type = "list"]
            ELSE t
      r1 == IF new THEN r + 1 ELSE r
      kids == Children(t1.arr, Parent(t1.arr, r1))
      a == t1.arr
  IN  IF a[branch].choice = Null THEN t1
      ELSE [t1 EXCEPT !.arr = [j \in 1..Len(a) |->
              IF j \in kids THEN [a[j] EXCEPT !.choice = 1, !.flags = @ \cup {"choice_created"}]
              ELSE a[j]]]

\* The uses of e from r on; listrec is the list once it exists.
RECURSIVE Leafrefs(_, _, _, _, _)
Leafrefs(t, e, r, listrec, prev) ==
  LET t0 == [t EXCEPT !.arr[r].type = "leafref"]
      branch == LastOf({j \in SelfUp(t.arr, r) : Parent(t.arr, j) = e})
      t1 == InsertListord(t0, branch, r)
      r1 == r + Len(t1.arr) - Len(t0.arr)
      found == t1.arr[branch].type = "list"
      t2 == IF found THEN t1
            ELSE [InsertWrapper(t1, branch) EXCEPT !.arr[branch].type = "list",
                                                   !.arr[branch].choice = t1.arr[branch].choice]
      r2 == r1 + Len(t2.arr) - Len(t1.arr)
      t3 == [t2 EXCEPT !.arr[branch].snode = t.arr[e].snode,
                       !.arr[r2].ref = t2.arr[branch].id]
      t4 == [t1 EXCEPT !.arr[r1].ref = t1.arr[listrec].id]
      Go1(u, x, list) == Leafrefs(u, e, LrecInternal(u, e, x), list, branch)
  IN  IF r = Null
      THEN [t EXCEPT !.arr = [j \in 1..Len(t.arr) |->
              IF j \in Children(t.arr, listrec)
              THEN [t.arr[j] EXCEPT !.choice = t.arr[listrec].choice] ELSE t.arr[j]]]
      ELSE IF listrec = Null THEN Go1(t3, r2, branch)
      ELSE IF prev = branch THEN Go1(t4, r1, listrec)
      ELSE Go1(MoveAsLastChild(t4, listrec, branch), r1, listrec)

\* A recursive lens with a label is exchanged with its parent first.
RecursiveForm(t, i) ==
  LET y == t.arr[i]
      p == Parent(t.arr, i)
      up == y.label # Null \/ y.value # Null
      e == IF up THEN p ELSE i
      t1 == IF up THEN Swap(t, i, p) ELSE t
      first == LrecInternal(t1, e, e)
  IN  IF y.type # "rec" THEN Go(t, i + 1)
      ELSE Asserting(/\ up => t.arr[p].label = y.label /\ t.arr[p].value = y.value
                     /\ first # Null,
                     Go(IF first = Null THEN t1 ELSE Leafrefs(t1, e, first, Null, Null),
                        i + 1))

(***************************************************************************)
(* ay_insert_node_key_and_value                                            *)
(***************************************************************************)
KeyAndValueCount(t, i) ==
  LET y == t.arr[i]
      value == IF y.value = Null THEN 0 ELSE 1
  IN  IF y.label = Null \/ IsImplicitList(t, i)
         \/ (y.type # "container" /\ ~IsSeqList(t, i)) THEN 0
      ELSE IF LabelIsIdent(t, i) THEN value
      ELSE IF y.desc = 0 /\ value = 0 THEN 0 ELSE value + 1

RuleKeyAndValue(t) ==
  Sq!FoldLeft(LAMBDA c, i : c + KeyAndValueCount(t, i + 1), 0,
              [i \in 1..(Len(t.arr) - 1) |-> i])

\* The node can be split into one for each identifier of its pattern.
IsSplittable(t, i) ==
  /\ Tag(t, t.arr[i].label) = "key" /\ t.arr[i].type \notin {"key", "value", "root"}
  /\ IdentsCount(t.lt, t.arr[i].label) > 1

SetChoiceForValue(t, v) ==
  LET a == t.arr
      y == a[v]
      p == Parent(a, v)
      next == Next(a, v)
      choice == HasAttribute(t.lt, y.value, "union")
      in == "value_in_choice" \in a[p].flags
      sub == LastOf({m \in SelfUp(t.lt, y.value) : Tag(t, m) = "subtree"})
  IN  IF next = Null /\ IsSeqList(t, p)
      THEN [t EXCEPT !.arr[v].choice = IF sub = Null THEN @ ELSE HasAttribute(t.lt, sub, "union")]
      ELSE IF next = Null \/ (~in /\ (choice = Null \/ DFind(t.values, y.value) # Null))
      THEN t
      ELSE IF a[next].choice # Null /\ (in \/ a[next].choice = choice)
      THEN [t EXCEPT !.arr[v].choice = a[next].choice]
      ELSE IF a[next].choice = Null /\ IsSplittable(t, next)
      THEN Flag([t EXCEPT !.arr[v].choice = 1], v, {"choice_created"})
      ELSE t

\* The child made from lens n, or the case that has it.
RECURSIVE MadeFrom(_, _, _)
MadeFrom(t, c, n) ==
  LET a == t.arr
      Lens(m) == IF m = Null THEN Null ELSE t.lt[m].lens
  IN  \/ a[c].type = "case" /\ \E g \in Children(a, c) : MadeFrom(t, g, n)
      \/ Lens(a[c].snode) = Lens(n)
      \/ a[c].type = "list" /\ a[c].desc > 0 /\ Lens(a[c + 1].snode) = Lens(n)

ChildBySnode(t, i, n) == FirstOf({c \in Children(t.arr, i) : MadeFrom(t, c, n)})

\* On the way to that child the search meets a list without a child, or whose
\* child has no lens, and follows a NULL.
RECURSIVE SearchFails(_, _, _)
SearchFails(t, i, n) ==
  LET a == t.arr
      Lost(c) == /\ a[c].type = "list" /\ ~MadeFrom(t, c, n)
                 /\ a[c].desc = 0 \/ a[c + 1].snode = Null
  IN  \E c \in Children(a, i) :
        /\ \A b \in Children(a, i) : b < c => ~MadeFrom(t, b, n)
        /\ Lost(c) \/ (a[c].type = "case" /\ SearchFails(t, c, n))

\* The subtrees before the value of i, and the last of them with a child of i.
SubtreesBefore(t, i) ==
  LET v == t.arr[i].value
      top == LastOf({m \in SelfUp(t.lt, v) : Tag(t, m) = "subtree"})
  IN  IF t.arr[i].snode = Null THEN {} ELSE {n \in (top + 1)..v : Tag(t, n) = "subtree"}

LastWithChild(t, i) == LastOf({n \in SubtreesBefore(t, i) : ChildBySnode(t, i, n) # Null})

\* The child of i behind which its value belongs.
ValuePlace(t, i) ==
  IF LastWithChild(t, i) = Null THEN Null ELSE ChildBySnode(t, i, LastWithChild(t, i))

ValuePlaceFails(t, i) ==
  \E n \in SubtreesBefore(t, i) : n >= LastWithChild(t, i) /\ SearchFails(t, i, n)

\* ay_ynode_place_value and what its caller sets.
PlaceValue(t, i) ==
  LET a == t.arr
      y == a[i]
      dst == ValuePlace(t, i)
      keyed == y.snode # Null /\ y.desc > 0 /\ a[i + 1].type = "key"
      at == IF dst # Null THEN Past(a, dst) ELSE IF keyed THEN Past(a, i + 1) ELSE i + 1
      t1 == IF dst # Null THEN InsertSibling(t, dst)
            ELSE IF keyed THEN InsertSibling(t, i + 1) ELSE InsertChild(t, i)
      after == Next(t1.arr, at)
      wanted == IF dst = Null THEN Null
                ELSE IF a[dst].choice # Null THEN a[dst].choice
                ELSE IF after # Null THEN t1.arr[after].choice ELSE Null
      under == wanted \in Up(t.lt, y.value, y.snode)
      t2 == [t1 EXCEPT !.arr[at] =
               [@ EXCEPT !.type = "value", !.label = y.label, !.value = y.value,
                         !.choice = IF wanted # Null /\ under THEN wanted ELSE Null,
                         !.flags = y.flags \cap {"value_mand_false"}]]
  IN  Asserting(/\ ~ValuePlaceFails(t, i)
                /\ wanted # Null /\ ~under => y.snode \in SelfUp(t.lt, y.value),
                Go(SetChoiceForValue(t2, at), i + 1))

InsertKey(t, i) ==
  [InsertChild(t, i) EXCEPT
     !.arr[i + 1] = [@ EXCEPT !.type = "key", !.label = t.arr[i].label,
                              !.value = t.arr[i].value]]

InsertKeyAndValue(t, i) ==
  LET y == t.arr[i]
      count == KeyAndValueCount(t, i)
      leaf == [t EXCEPT !.arr[i].type = "leaf"]
  IN  IF y.type # "container" /\ ~IsSeqList(t, i) THEN Go(t, i + 1)
      ELSE IF LabelIsIdent(t, i)
      THEN IF y.desc = 0 THEN Go(leaf, i + 1)
           ELSE IF y.value # Null THEN PlaceValue(t, i) ELSE Go(t, i + 1)
      ELSE IF count = 0 THEN Go(leaf, i + 1)
      ELSE IF count = 1 THEN Go(InsertKey(t, i), i + 1)
      ELSE PlaceValue(InsertKey(t, i), i)

(***************************************************************************)
(* ay_ynode_dependence_on_value: a node that is concatenated with one of   *)
(* the alternative values has a when statement on the value.               *)
(***************************************************************************)
\* The siblings from it on, and those in cases from the first with a choice on.
\* Of a list its child is asked, which is to be there.
RECURSIVE DependFrom(_, _, _, _)
DependFrom(s, vnode, key, it) ==
  LET t == s.t
      a == t.arr
      union == HasAttribute(t.lt, a[vnode].value, "union")
      con == LastConcat(t.lt, IF a[it].type = "list" THEN a[it + 1].snode ELSE a[it].snode,
                        union)
      hits == {m \in key..(key + t.values[key].n) :
                 con # Null /\ con = LastConcat(t.lt, t.values[m].v, union)}
      u == Flag(When(t, it, a[vnode].id, t.values[FirstOf(hits)].v), vnode, {"when_target"})
      chosen == FirstOf({c \in Children(a, it) : a[c].choice # Null})
  IN  IF it = Null THEN s
      ELSE IF a[it].type = "case"
      THEN DependFrom(DependFrom(s, vnode, key, chosen), vnode, key, Next(a, it))
      ELSE IF a[it].type = "list" /\ a[it].desc = 0 THEN [s EXCEPT !.t.ok = FALSE]
      ELSE IF hits = {} THEN DependFrom(s, vnode, key, Next(a, it))
      ELSE DependFrom([t |-> [u EXCEPT !.ok = @ /\ a[it].wref = 0], sum |-> s.sum + 1],
                      vnode, key, Next(a, it))

DependenceOnValue(t, i) ==
  LET a == t.arr
      key == DFind(t.values, a[i].value)
      first == FirstOf({j \in Siblings(a, i) : j > i /\ a[j].choice # Null})
      s == DependFrom([t |-> t, sum |-> 0], i, key, first)
      n == t.values[key].n + 1
  IN  IF i = Len(a) \/ a[i].type # "value" \/ key = Null THEN Go(t, i + 1)
      ELSE IF HasAttribute(t.lt, a[i].value, "union") = Null \/ first = Null
      THEN Asserting(DIsKey(t.values, key), Go(t, i + 1))
      ELSE Asserting(DIsKey(t.values, key) /\ s.sum <= n,
                     Go(IF s.sum = n THEN s.t ELSE Flag(s.t, first, {"choice_mand_false"}),
                        i + 1))
=============================================================================
