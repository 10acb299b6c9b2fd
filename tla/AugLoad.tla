------------------------------- MODULE AugLoad -------------------------------
(***************************************************************************)
(* Loading: augds_init_auginfo_siblings_r turns the schema of a module     *)
(* into augnodes, and augds_aug2yang_augnode_r walks the Augeas tree of a  *)
(* file along the augnodes and creates the YANG data.                      *)
(*                                                                         *)
(* A schema node is a record: kind, name, the augeas-extension arguments   *)
(* dp (data-path) and vp (value-yang-path), the key of a list, the type of *)
(* a leaf, mandatory, when, and the children.  An Augeas node has a label, *)
(* a value and children; a regular expression is the set of labels it      *)
(* matches.  The YANG data is the sequence of the nodes in the order they  *)
(* are created, each with the position of its parent: sibling instances of *)
(* one schema node stay in that order, the rest follows the schema.        *)
(*                                                                         *)
(* The index of the next instance of a recursive list is kept in its       *)
(* augnode, so it survives from one load to the next (variable next_idx).  *)
(***************************************************************************)
EXTENDS Integers, Sequences, FiniteSets, SequencesExt, FiniteSetsExt

CONSTANTS
    Modules,    \* records: the schema and the trees its files may hold
    None,       \* no data-path, no value, ...
    Digits      \* the labels that are numbers

Comments == {"#comment", "#scomment"}

-----------------------------------------------------------------------------
(* The compiled schema *)

RECURSIVE GetNext(_), FindNode(_, _), CaseNodes(_, _, _, _), CaseChildren(_, _, _, _),
          Siblings(_, _)

IsTerm(n)  == n.kind \in {"leaf", "leaf-list"}
IsKey(n)   == n.kind = "leaf" /\ n.iskey

\* lys_getnext: the data children, choices and cases are looked through
GetNext(n) ==
    FlattenSeq([i \in DOMAIN n.ch |->
        IF n.ch[i].kind = "choice"
        THEN FlattenSeq([j \in DOMAIN n.ch[i].ch |-> GetNext(n.ch[i].ch[j])])
        ELSE <<[node |-> n.ch[i], incase |-> n.kind = "case"]>>])

FindNode(n, name) ==
    IF n.name = name THEN {n}
    ELSE UNION {FindNode(n.ch[i], name) : i \in DOMAIN n.ch}

ListNamed(root, name) == CHOOSE n \in FindNode(root, name) : n.kind = "list"
ChildNamed(n, name)   ==
    LET c == GetNext(n)
    IN  c[CHOOSE i \in DOMAIN c : c[i].node.name = name].node

\* augds_node_get_type
NodeType(n) ==
    CASE n.dp = "$$"                           -> "LABEL"
      [] n.dp \notin {None, "$$"}              -> "VALUE"
      [] n.dp = None /\ n.kind = "list" /\ n.key = "_r-id"   -> "REC_LIST"
      [] n.dp = None /\ IsTerm(n) /\ n.type.base = "leafref" -> "REC_LREF"
      [] OTHER                                 -> "NONE"

\* augds_init_auginfo_get_pattern.  A pattern is a sequence of groups that all
\* have to match; a label has to match one pattern.  A type with no pattern
\* is an error nobody looks at and leaves what was collected before it.
GetPattern(n) ==
    LET t == IF IsTerm(n) THEN n.type ELSE n.ch[1].type
        Known(members) ==
            LET bad == SelectInSeq(members, LAMBDA m : m.base # "string")
            IN  IF bad = 0 THEN members ELSE SubSeq(members, 1, bad - 1)
    IN  CASE t.base = "string" -> <<t.groups>>
          [] t.base = "uint64" -> << <<[match |-> Digits, inverted |-> FALSE]>> >>
          [] t.base = "union"  ->
                LET k == Known(t.members) IN [i \in DOMAIN k |-> k[i].groups]
          [] OTHER             -> <<>>

\* augds_init_auginfo_case for the node at position i of its siblings; acc has
\* the case nodes found so far and whether one of them is mandatory.
CaseNodes(root, sibs, i, acc) ==
    LET j == CHOOSE k \in i..Len(sibs) :
                ~IsKey(sibs[k]) /\ \A l \in i..(k - 1) : IsKey(sibs[l])
        n == sibs[j]
    IN  CASE n.dp # None ->
                [cn   |-> Append(acc.cn,
                            [dp  |-> n.dp,
                             pat |-> IF n.kind = "container" /\ NodeType(n) = "LABEL"
                                     THEN GetPattern(GetNext(n)[1].node) ELSE <<>>]),
                 mand |-> acc.mand \/ n.kind = "container" \/ n.mand]
          [] n.dp = None /\ n.kind = "leaf" ->
                CaseNodes(root, ListNamed(root, n.ref).ch, 1, acc)
          [] n.dp = None /\ n.kind \in {"list", "container"} ->
                CaseChildren(root, n.ch, 1, acc)
          [] n.dp = None /\ n.kind = "choice" ->
                FoldLeft(LAMBDA a, c : CaseNodes(root, c.ch, 1, a), acc, n.ch)

CaseChildren(root, sibs, i, acc) ==
    IF i > Len(sibs) THEN acc
    ELSE LET a == CaseNodes(root, sibs, i, acc)
         IN  IF a.mand THEN a ELSE CaseChildren(root, sibs, i + 1, a)

\* augds_init_auginfo_siblings_r: the augnodes of the children of n
Siblings(root, n) ==
    LET Relevant(c) == ~(c.node.dp = None /\ IsTerm(c.node) /\ c.node.type.base # "leafref")
        Augnode(c)  ==
            LET s == c.node
            IN  [sch  |-> s,
                 sch2 |-> IF s.vp = None THEN None
                          ELSE ChildNamed(IF IsTerm(s) THEN n ELSE s, s.vp),
                 pat  |-> IF NodeType(s) = "LABEL" THEN GetPattern(s) ELSE <<>>,
                 cn   |-> IF NodeType(s) = "NONE" /\ c.incase
                          THEN CaseNodes(root, <<s>>, 1, [cn |-> <<>>, mand |-> FALSE]).cn
                          ELSE <<>>,
                 ch   |-> Siblings(root, s)]
        kids == SelectSeq(GetNext(n), Relevant)
    IN  [i \in DOMAIN kids |-> Augnode(kids[i])]

\* The module: a virtual node above its top-level list
Augnodes(m) == Siblings(m.schema, [m.schema EXCEPT !.ch = <<m.schema>>, !.kind = "module"])

-----------------------------------------------------------------------------
(* The walk.  st: the Augeas nodes used so far (their paths, with the schema *)
(* node each was used for), the ones a warning was logged for, the YANG data, *)
(* the indices of recursive lists, and whether every assert held.            *)

RECURSIVE LabelsR(_, _, _, _, _, _, _), AugnodeR(_, _, _, _, _, _),
          ValueR(_, _, _, _, _, _, _), ListR(_, _, _, _, _, _, _, _),
          CaseR(_, _, _, _, _, _, _, _), RecursiveR(_, _, _, _, _, _, _),
          FindAugnode(_, _)

\* Mutant: the node is put next to its parent
CreateNodeAside(st, sch, val, par) ==
    [st EXCEPT !.data = Append(@, [name |-> sch.name, val |-> val, par |-> Len(st.data) + 1])]

\* augds_leaf_is_empty
LeafIsEmpty(sch) ==
    \/ sch.type.base = "empty"
    \/ /\ sch.type.base = "union"
       /\ \E i \in DOMAIN sch.type.members : sch.type.members[i].base = "empty"

\* An optional leaf that makes no data without a value
NeedsValue(sch) == IsTerm(sch) /\ ~sch.mand /\ ~LeafIsEmpty(sch)

\* augds_aug2yang_augnode_create_node
CreateNode(st, sch, val, par) ==
    LET node == [name |-> sch.name, val |-> val, par |-> par]
        new  == Len(st.data) + 1
    IN  CASE NeedsValue(sch) /\ val = None -> st
          [] sch.kind = "container" /\ val # None ->
                [st EXCEPT !.data = @ \o
                    <<[node EXCEPT !.val = None],
                      [name |-> sch.ch[1].name, val |-> val, par |-> new]>>]
          [] OTHER -> [st EXCEPT !.data = Append(@, node)]

\* lyd_free_tree of the node created last
FreeNode(st, new) == [st EXCEPT !.data = SubSeq(@, 1, new - 1)]

HasChild(st, node) == \E i \in DOMAIN st.data : st.data[i].par = node

\* augds_ext_label_node_equal
ExtLabelEqual(dp, label) == dp = "$$" \/ dp = label

\* Mutant: inverted patterns are matched like the others
NoInvert(pat, label) ==
    \E i \in DOMAIN pat : \A j \in DOMAIN pat[i] : label \in pat[i][j].match

\* augds_pattern_label_match
PatternLabelMatch(pat, label) ==
    \E i \in DOMAIN pat : \A j \in DOMAIN pat[i] :
        (label \in pat[i][j].match) # pat[i][j].inverted

\* Mutant: used labels are not forgotten
AllLabels(p, win, st) == win

\* The labels of the window win that were not used yet
Free(p, win, st) == SelectSeq(win, LAMBDA i : Append(p, i) \notin DOMAIN st.used)

\* augds_aug2yang_augnode_labels_value_r
ValueR(top, an, kids, p, win, par, st) ==
    LET free == Free(p, win, st)
    IN  IF free = <<>> THEN st ELSE
        LET k == kids[Head(free)]
            path == Append(p, Head(free))
        IN  IF \/ ~ExtLabelEqual(an.sch.dp, k.label)
               \/ an.sch.dp = "$$" /\ ~PatternLabelMatch(an.pat, k.label)
            THEN st
            ELSE LET value == CASE an.sch.dp = "$$" -> k.label
                                [] an.sch.dp # "$$" /\ IsTerm(an.sch) -> k.value
                                [] OTHER -> None
                     new   == Len(st.data) + 1
                     s1    == CreateNode(st, an.sch, value, par)
                     s2    == IF an.sch2 = None THEN s1
                              ELSE CreateNode(s1, an.sch2, k.value,
                                              IF IsTerm(an.sch) THEN par ELSE new)
                     s3    == AugnodeR(top, an.ch, k.ch, path, new, s2)
                     s4    == [s3 EXCEPT !.used = @ @@ (path :> an.sch.name)]
                 IN  IF an.sch.kind = "leaf" THEN s4
                     ELSE ValueR(top, an, kids, p, Tail(free), par, s4)

\* augds_aug2yang_augnode_labels_list_r; local is the index of an "_id" list
ListR(top, an, kids, p, win, par, st, local) ==
    LET free  == Free(p, win, st)
        name  == an.sch.name
        rec   == an.sch.key = "_r-id"
        idx   == IF rec THEN st.idx[name] ELSE local
        Step(s, d) == IF rec THEN [s EXCEPT !.idx[name] = @ + d] ELSE s
    IN  IF free = <<>> THEN st ELSE
        LET new == Len(st.data) + 1
            s1  == CreateNode(Step(st, 1), an.sch, idx, par)
            s2  == LabelsR(top, an.ch, kids, p, <<Head(free)>>, new, s1)
            ok  == HasChild(s2, new)
            s3  == IF ok THEN s2 ELSE Step(FreeNode(s2, new), -1)
        IN  ListR(top, an, kids, p, Tail(free), par, s3, IF ok THEN local + 1 ELSE local)

\* Mutant: the index of a recursive list goes on from the last load
ListGoOn(top, an, kids, p, win, par, st) == ListR(top, an, kids, p, win, par, st, 1)

ListStart(top, an, kids, p, win, par, st) ==
    ListR(top, an, kids, p, win, par,
          IF an.sch.key = "_r-id" THEN [st EXCEPT !.idx[an.sch.name] = 1] ELSE st, 1)

\* augds_aug2yang_augnode_case_when: the leaf next to the node has such a value
CaseWhen(st, sch, par) ==
    sch.when = None \/ \E i \in DOMAIN st.data :
        /\ st.data[i].par = par /\ st.data[i].name = sch.when.of
        /\ st.data[i].val \in sch.when.in

\* augds_aug2yang_augnode_labels_case_r from case node j on
CaseR(top, an, kids, p, win, par, st, j) ==
    LET free == Free(p, win, st)
    IN  IF free = <<>> \/ j > Len(an.cn) THEN st ELSE
        LET label == kids[Head(free)].label
            c     == an.cn[j]
            new   == Len(st.data) + 1
        IN  IF \/ ~ExtLabelEqual(c.dp, label)
               \/ c.dp = "$$" /\ ~PatternLabelMatch(c.pat, label)
               \/ ~CaseWhen(st, an.sch, par)
            THEN CaseR(top, an, kids, p, win, par, st, j + 1)
            ELSE IF an.sch.kind = "list"
                 THEN ListStart(top, an, kids, p, win, par, st)
                 ELSE LabelsR(top, an.ch, kids, p, win, new, CreateNode(st, an.sch, None, par))

FindAugnode(ans, name) ==
    UNION {IF ans[i].sch.name = name THEN {ans[i]} ELSE FindAugnode(ans[i].ch, name) :
           i \in DOMAIN ans}

\* augds_aug2yang_augnode_leafref_parent: the closest ancestor that has the list
RECURSIVE LeafrefParent(_, _, _)
LeafrefParent(st, par, name) ==
    IF \E i \in DOMAIN st.data : st.data[i].par = par /\ st.data[i].name = name
    THEN par ELSE LeafrefParent(st, st.data[par].par, name)

\* augds_aug2yang_augnode_recursive_labels_r, with its asserts: the children of the
\* list have a data-path, and an instance has children iff the label was used.
RecursiveR(top, an, kids, p, win, par, st) ==
    LET free == Free(p, win, st)
        name == an.sch.ref
        lst  == CHOOSE a \in FindAugnode(top, name) : a.sch.kind = "list"
    IN  IF free = <<>> THEN st ELSE
        LET label == kids[Head(free)].label
            match == {k \in DOMAIN lst.ch : ExtLabelEqual(lst.ch[k].sch.dp, label)}
            tried == {k \in DOMAIN lst.ch : \A m \in match : k <= m}
            new   == Len(st.data) + 1
            idx   == st.idx[name]
            s1    == CreateNode([st EXCEPT !.idx[name] = @ + 1,
                                           !.ok = @ /\ \A k \in tried : lst.ch[k].sch.dp # None],
                                lst.sch, idx, LeafrefParent(st, par, name))
            s2    == LabelsR(top, lst.ch, kids, p, <<Head(free)>>, new, s1)
            s3    == [s2 EXCEPT !.ok = @ /\ HasChild(s2, new) =
                                               (Append(p, Head(free)) \in DOMAIN s2.used)]
            s4    == CASE match = {} -> st
                       [] OTHER -> IF HasChild(s2, new)
                                   THEN CreateNode(s3, an.sch, idx, par)
                                   ELSE FreeNode([s3 EXCEPT !.idx[name] = @ - 1], new)
        IN  RecursiveR(top, an, kids, p, Tail(free), par, s4)

\* augds_aug2yang_augnode_labels_r: the augnodes one after the other
LabelsR(top, ans, kids, p, win, par, st) ==
    IF ans = <<>> THEN st ELSE
    LET an  == Head(ans)
        new == Len(st.data) + 1
        s   == CASE an.sch.dp # None -> ValueR(top, an, kids, p, win, par, st)
                 [] an.sch.dp = None /\ an.sch.kind = "list" /\ par = 0 ->
                       LabelsR(top, an.ch, kids, p, win, new, CreateNode(st, an.sch, "path", par))
                 [] an.cn # <<>> -> CaseR(top, an, kids, p, win, par, st, 1)
                 [] an.sch.dp = None /\ an.sch.kind = "list" /\ par # 0 /\ an.cn = <<>> ->
                       ListStart(top, an, kids, p, win, par, st)
                 [] an.sch.dp = None /\ an.sch.kind = "leaf" ->
                       RecursiveR(top, an, kids, p, win, par, st)
                 [] OTHER ->
                       LabelsR(top, an.ch, kids, p, win, new, CreateNode(st, an.sch, None, par))
    IN  LabelsR(top, Tail(ans), kids, p, win, par, s)

\* augds_aug2yang_augnode_r
AugnodeR(top, ans, kids, p, par, st) ==
    LET all == SelectSeq([i \in DOMAIN kids |-> i], LAMBDA i : kids[i].label \notin Comments)
        s   == LabelsR(top, ans, kids, p, all, par, st)
    IN  IF ans = <<>> THEN st
        ELSE [s EXCEPT !.warned = @ \cup {Append(p, i) : i \in ToSet(Free(p, all, s))}]

-----------------------------------------------------------------------------
(* The plugin: files are edited and loaded, the augnodes stay. *)

VARIABLES
    mod,       \* the module
    file,      \* Augeas tree of its file
    data,      \* YANG data of the last load
    warned,    \* Augeas nodes the last load warned about
    used,      \* Augeas nodes it used, with the schema node each was used for
    ok,        \* no assert failed
    next_idx,  \* of the augnode of every recursive list
    loaded     \* the file was not edited since

vars == <<mod, file, data, warned, used, ok, next_idx, loaded>>

RECURSIVE RecLists(_)
RecLists(n) ==
    (IF n.kind = "list" /\ n.key = "_r-id" THEN {n.name} ELSE {})
        \cup UNION {RecLists(n.ch[i]) : i \in DOMAIN n.ch}

Init ==
    /\ mod \in Modules
    /\ file \in mod.files
    /\ data = <<>> /\ warned = {} /\ used = <<>> /\ ok = TRUE
    /\ next_idx = [l \in RecLists(mod.schema) |-> 0]
    /\ loaded = FALSE

\* Somebody edits the file
Edit ==
    /\ loaded /\ loaded' = FALSE
    /\ file' \in mod.files
    /\ data' = <<>> /\ warned' = {} /\ used' = <<>>
    /\ UNCHANGED <<mod, ok, next_idx>>

\* srpds_aug_load, the part that creates the data of one file
Load ==
    LET top == Augnodes(mod)
        st  == AugnodeR(top, top, file, <<>>, 0,
                        [used |-> <<>>, warned |-> {}, data |-> <<>>, idx |-> next_idx,
                         ok |-> ok])
    IN  /\ ~loaded
        /\ data' = st.data /\ warned' = st.warned /\ used' = st.used
        /\ next_idx' = st.idx /\ ok' = st.ok
        /\ loaded' = TRUE
        /\ UNCHANGED <<mod, file>>

Next == Edit \/ Load

Spec == Init /\ [][Next]_vars

-----------------------------------------------------------------------------
(* What the data stands for *)

RECURSIVE Unload(_, _, _), Size(_), NoComments(_), At(_, _)

Instances(d, par, name) ==
    SelectSeq([i \in DOMAIN d |-> i], LAMBDA i : d[i].par = par /\ d[i].name = name)

ValueOf(d, par, name) ==
    LET i == Instances(d, par, name) IN IF i = <<>> THEN None ELSE d[i[1]].val

Referenced(root, d, i) ==
    \E k \in DOMAIN d : \E r \in FindNode(root, d[k].name) :
        /\ r.ref = d[i].name /\ d[k].val = d[i].val
        /\ LeafrefParent([data |-> d], d[k].par, r.ref) = d[i].par

\* The Augeas nodes that the children of data node par of schema n describe,
\* read off the schema alone: the inverse of the walk.
Unload(n, d, par) ==
    LET root == mod.schema
        Emit(c, i) ==
            CASE c.dp # None ->
                    <<[label |-> CASE c.dp # "$$" -> c.dp
                                   [] c.dp = "$$" /\ c.kind = "container" ->
                                        ValueOf(d, i, c.ch[1].name)
                                   [] OTHER -> d[i].val,
                       value |-> CASE c.vp # None ->
                                        ValueOf(d, IF IsTerm(c) THEN par ELSE i, c.vp)
                                   [] c.vp = None /\ IsTerm(c) /\ c.dp # "$$" -> d[i].val
                                   [] OTHER -> None,
                       ch    |-> Unload(c, d, i)]>>
              [] c.dp = None /\ c.ref # None ->
                    LET l == ListNamed(root, c.ref)
                        r == CHOOSE k \in DOMAIN d : d[k].name = c.ref /\ d[k].val = d[i].val
                                        /\ d[k].par = LeafrefParent([data |-> d], par, c.ref)
                    IN  Unload(l, d, r)
              [] c.dp = None /\ IsTerm(c) /\ c.ref = None -> <<>>
              [] c.kind = "list" /\ c.key = "_r-id" /\ Referenced(root, d, i) -> <<>>
              [] OTHER -> Unload(c, d, i)
        kids == GetNext(n)
    IN  FlattenSeq([k \in DOMAIN kids |->
            LET is == Instances(d, par, kids[k].node.name)
            IN  FlattenSeq([j \in DOMAIN is |-> Emit(kids[k].node, is[j])])])

Described == Unload([mod.schema EXCEPT !.ch = <<mod.schema>>, !.kind = "module"], data, 0)

NoComments(f) ==
    LET g == SelectSeq(f, LAMBDA n : n.label \notin Comments)
    IN  [i \in DOMAIN g |-> [g[i] EXCEPT !.ch = NoComments(@)]]

Size(f) == IF f = <<>> THEN 0 ELSE 1 + Size(Head(f).ch) + Size(Tail(f))

At(f, p) == IF Len(p) = 1 THEN f[p[1]] ELSE At(f[p[1]].ch, Tail(p))

\* The data is a forest in the order of creation (a parent is created before
\* its children, augds_aug2yang_augnode_create_node), and every recursive list
\* has its counter.
TypeOK ==
    /\ mod \in Modules /\ file \in mod.files
    /\ loaded \in BOOLEAN /\ ok \in BOOLEAN
    /\ DOMAIN next_idx = RecLists(mod.schema)
    /\ \A i \in DOMAIN data : data[i].par \in 0..(i - 1)

\* A file that the schema describes is loaded whole: the data stands for just
\* the Augeas nodes of the file, in their order, whatever optional nodes,
\* cases and recursive nodes it has, although the walk never looks ahead and
\* never gives a label back (srdsa_load.c:318, "label cannot be skipped").
RoundTrip ==
    loaded /\ file \in mod.lang => warned = {} /\ Described = NoComments(file)

\* What the code drops without a warning: the node of an optional leaf, which
\* makes no data without a value, and everything below a node whose schema node
\* has no augnodes below it, which augds_aug2yang_augnode_r does not look at.
Dropped(p) ==
    LET sch == CHOOSE n \in FindNode(mod.schema, used[p]) : n.dp # None
        nd  == At(file, p)
        own == IF NeedsValue(sch) /\ sch.dp # "$$" /\ nd.value = None THEN 1 ELSE 0
    IN  own + (IF Siblings(mod.schema, sch) = <<>> THEN Size(NoComments(nd.ch)) ELSE 0)

\* In a file the schema only partly describes no Augeas node is read twice, and but
\* for those two cases none disappears silently: a node is in the data or the load
\* warned about it (srdsa_load.c:807, "Non-processed augeas data").
Accounted ==
    loaded =>
        Size(Described)
            + FoldSet(LAMBDA p, n : n + Size(NoComments(<<At(file, p)>>)), 0, warned)
            + FoldSet(LAMBDA p, n : n + Dropped(p), 0, DOMAIN used)
            = Size(NoComments(file))

\* The generated keys, which sysrepo's diff relies on: the "_id" keys of the
\* instances under one parent are 1, 2, ... in the order of the file, the "_r-id"
\* keys are 1, 2, ... in some order whatever was loaded before (so that loading
\* an unchanged file twice shows no change), and every leafref has its target; the
\* asserts of augds_aug2yang_augnode_recursive_labels_r hold.
KeysDense ==
    ok /\ (loaded => \A i \in DOMAIN data :
        LET n    == CHOOSE n \in FindNode(mod.schema, data[i].name) : TRUE
            same == Instances(data, data[i].par, data[i].name)
        IN  /\ n.kind = "list" /\ n.key = "_id" =>
                    \A j \in DOMAIN same : data[same[j]].val = j
            /\ n.kind = "list" /\ n.key = "_r-id" =>
                    {data[same[j]].val : j \in DOMAIN same} = 1..Len(same)
            /\ n.ref # None =>
                    LET p == LeafrefParent([data |-> data], data[i].par, n.ref)
                    IN  \E k \in DOMAIN data : /\ data[k].par = p /\ data[k].name = n.ref
                                               /\ data[k].val = data[i].val)
=============================================================================
