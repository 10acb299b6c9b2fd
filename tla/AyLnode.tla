------------------------------ MODULE AyLnode ------------------------------
(***************************************************************************)
(* The tree of lenses augyang reads (struct ay_lnode) and what it asks of  *)
(* it.  Like the tree of YANG nodes it is one array in preorder, so the    *)
(* operators of AyYnode that derive parents from the numbers of            *)
(* descendants serve it too; it never changes.                             *)
(*                                                                         *)
(* A lens is a term [tag, str, ids, nocase, rec, kids].  str stands for    *)
(* the pattern or the string of a label or a value.  ids abstracts the     *)
(* pattern of a key: 0 a regular expression, 1 one name, n > 1 a list of n *)
(* names.  rec is rec_internal: the use of a recursive lens in its body.   *)
(***************************************************************************)
EXTENDS AyYnode

IsLabelTag(tag) == tag \in {"label", "key", "seq"}
IsValueTag(tag) == tag \in {"store", "value"}

\* The same lens in several places is one lens, known by its first place.
RECURSIVE Preorder(_)
Preorder(kids) ==
  IF kids = <<>> THEN <<>>
  ELSE LET lens == Head(kids)
           below == Preorder(lens.kids)
       IN  <<[term |-> lens, desc |-> Len(below)]>> \o below \o Preorder(Tail(kids))

\* ay_lnode_create_tree
CreateLnodes(lens) ==
  LET s == Preorder(<<lens>>)
  IN  <<>> \o [n \in 1..Len(s) |->
        [tag |-> s[n].term.tag, desc |-> s[n].desc, str |-> s[n].term.str,
         ids |-> s[n].term.ids, nocase |-> s[n].term.nocase, rec |-> s[n].term.rec,
         lens |-> FirstOf({m \in 1..n : s[m].term = s[n].term})]]

(***************************************************************************)
(* Upwards.  A search from a lens to its parents ends at stop, or at the   *)
(* root when stop is not above it.                                         *)
(***************************************************************************)
SelfUp(l, n) == IF n = Null THEN {} ELSE Ancestors(l, n) \cup {n}

Up(l, n, stop) == {m \in SelfUp(l, n) : stop \in SelfUp(l, n) => m > stop}

\* The parents of n inside the nearest L_SUBTREE.
Within(l, n) ==
  IF n = Null THEN {}
  ELSE Up(l, n, LastOf({m \in Ancestors(l, n) : l[m].tag = "subtree"})) \ {n}

HasAttribute(l, n, tag) == LastOf({m \in Within(l, n) : l[m].tag = tag})

HasMaybe(l, n, choice_stop, star_stop) ==
  LET maybe == HasAttribute(l, n, "maybe")
  IN  /\ maybe # Null
      /\ \A m \in Within(l, n) : m > maybe =>
           /\ choice_stop => l[m].tag # "union"
           /\ star_stop => l[m].tag # "star"

CommonChoice(l, n1, n2, stop) ==
  LET shared == LastOf({m \in Up(l, n1, stop) \cap Up(l, n2, stop) :
                          l[m].tag = "union"})
  IN  IF n1 = Null \/ n2 = Null THEN Null
      ELSE IF shared # Null THEN shared
      ELSE IF stop \in SelfUp(l, n1) /\ l[stop].tag = "union" THEN stop
      ELSE Null

\* The search of CommonChoice from n2 upwards misses stop and runs into NULL.
EndsAtNull(l, n1, n2, stop) ==
  LET union == LastOf({m \in Up(l, n1, stop) : l[m].tag = "union"})
  IN  /\ n1 # Null /\ n2 # Null /\ union # Null
      /\ stop \notin SelfUp(l, n2) /\ union \notin SelfUp(l, n2)

\* The topmost L_CONCAT between start and stop.
LastConcat(l, start, stop) ==
  IF start = Null \/ stop = Null THEN Null
  ELSE FirstOf({m \in Up(l, start, stop) \ {start} : l[m].tag = "concat"})

\* The child of choice that node lies in.
ChoiceBranch(l, n, choice) == FirstOf({m \in SelfUp(l, n) : m > choice})

(***************************************************************************)
(* Labels and values of an L_SUBTREE: those that are not in an L_SUBTREE   *)
(* inside of it.                                                           *)
(***************************************************************************)
Own(l, s, from) ==
  {n \in from..(Past(l, s) - 1) :
     ~\E m \in (from..(n - 1)) : l[m].tag = "subtree" /\ n \in Subtree(l, m)}

FindLabel(l, s) == FirstOf({n \in Own(l, s, s + 1) : IsLabelTag(l[n].tag)})
FindValue(l, s) == FirstOf({n \in Own(l, s, s + 1) : IsValueTag(l[n].tag)})

\* ay_lnode_next_lv: the next label, or the next value, of the subtree.
NextLv(l, lv, label) ==
  LET s == LastOf({m \in Ancestors(l, lv) : l[m].tag = "subtree"})
      Sought(tag) == IF label THEN IsLabelTag(tag) ELSE IsValueTag(tag)
  IN  IF lv = Null \/ s = Null THEN Null
      ELSE FirstOf({n \in Own(l, s, lv + 1) : Sought(l[n].tag)})

\* Equal patterns or strings, and otherwise equal tags (ay_lnode_lense_equal).
LensEqual(l, n1, n2) ==
  /\ n1 # Null /\ n2 # Null
  /\ LET t1 == l[n1].tag
         t2 == l[n2].tag
         Named(t) == IsLabelTag(t) \/ IsValueTag(t)
     IN  IF Named(t1) /\ Named(t2) THEN l[n1].str = l[n2].str ELSE t1 = t2

\* Number of identifiers of the pattern of a lens that is a key.
IdentsCount(l, n) ==
  IF l[n].tag # "key" THEN 0 ELSE IF l[n].ids > 1 THEN l[n].ids ELSE 1

\* A lens for a comment, which augyang leaves out.
IsComment(l, n) == n # Null /\ l[n].tag = "label" /\ l[n].str = "#comment"
=============================================================================
