----------------------------- MODULE MCAugyang -----------------------------
(***************************************************************************)
(* Lenses for model checking: the shapes of real lenses (records, records  *)
(* under a star, lns . (sep . lns)*, alternatives with a common start,     *)
(* nested stars, recursive lenses) over all the kinds of records.  The     *)
(* labels of alternatives differ, as the type checker of Augeas demands.   *)
(***************************************************************************)
EXTENDS Augyang

Lens(tag, str, ids, kids) ==
  [tag |-> tag, str |-> str, ids |-> ids, nocase |-> FALSE, rec |-> FALSE, kids |-> kids]
Cat(kids) == Lens("concat", "", 0, kids)
Alt(kids) == Lens("union", "", 0, kids)
Star(k) == Lens("star", "", 0, <<k>>)
Opt(k) == Lens("maybe", "", 0, <<k>>)
Del == Lens("del", "", 0, <<>>)
Store(v) == Lens("store", v, 0, <<>>)
Label(s) == Lens("label", s, 0, <<>>)
Key(s) == Lens("key", s, 0, <<>>)
Ident(s, n) == Lens("key", s, n, <<>>)
Seq0 == Lens("seq", "seq", 0, <<>>)
Sub(kids) == Lens("subtree", "", 0, <<Cat(kids)>>)
Rec(body) == Lens("rec", "r", 0, <<body>>)
RecUse == [Lens("rec", "r", 0, <<>>) EXCEPT !.rec = TRUE]

N(s) == Sub(<<Label(s), Del>>)
NV(s, v) == Sub(<<Label(s), Store(v)>>)
Comment == NV("#comment", "text")

\* A record whose nodes depend on its value, with one name.
ByValue(x) == Sub(<<Label(x), Alt(<<Store("v"), Cat(<<Store("w"), N("s")>>)>>)>>)

\* Records named x: a leaf, with a value, with alternative values, with a node
\* that depends on the value, with a value or nodes, with a pattern as key, with
\* two names, with both, with nodes.
Plain(x) ==
  { N(x),
    NV(x, "v"),
    Sub(<<Label(x), Alt(<<Store("v"), Store("w")>>)>>),
    ByValue(x),
    Sub(<<Label(x), Alt(<<Store("v"), Cat(<<N("s"), NV("t", "u")>>)>>)>>),
    Sub(<<Key(x), Opt(Store("v"))>>),
    Sub(<<Ident(x, 2), Store("v"), N("s"), Opt(NV("t", "u"))>>),
    Sub(<<Ident(x, 2), Alt(<<Store("v"), Cat(<<Store("w"), N("s"), N("t")>>)>>)>>),
    Sub(<<Label(x), NV("s", "v"), Star(NV("t", "u"))>>) }

\* Records with the keys x and y: with the same nodes, with nodes of their own.
Forked(x, y) ==
  { Sub(<<Alt(<<Key(x), Ident(y, 1)>>), Store("v"), NV("s", "u")>>),
    Sub(<<Alt(<<Cat(<<Key(x), N("s")>>), Cat(<<Key(y), NV("t", "u")>>)>>), Del>>) }

\* A record with a pattern as key and a node that depends on the value.
Dependent(x) == Sub(<<Ident(x, 2), Alt(<<Store("v"), Cat(<<Store("w"), N("s")>>)>>)>>)

Entries(a, b) == Star(Alt(<<Comment, a, b>>))

\* Two nodes with a value, and with one of their values the nodes a and b.
Twins(a, b) ==
  LET Under(p) == Sub(<<Label(p), Alt(<<Store("v"), Cat(<<Store("w"), a, b>>)>>)>>)
  IN  Cat(<<Under("p"), Under("q")>>)

Shapes(a, b) ==
  { Cat(<<a, b>>),
    Cat(<<a, Star(Cat(<<Del, a>>)), Opt(b)>>),
    Alt(<<a, Cat(<<b, N("c")>>)>>),
    Alt(<<a, Opt(Alt(<<b, N("c")>>))>>),
    Alt(<<Cat(<<Alt(<<a, b>>), N("c")>>), N("d")>>),
    Alt(<<Cat(<<a, N("c")>>), Cat(<<a, b>>)>>),
    Alt(<<Cat(<<NV("c", "v"), a>>), Cat(<<NV("c", "w"), b>>)>>),
    Sub(<<Label("p"), Alt(<<a, Cat(<<b, Star(NV("q", "v"))>>)>>)>>),
    Cat(<<Sub(<<Label("p"), a, b>>), Sub(<<Label("q"), a, b>>)>>),
    Star(Sub(<<Seq0, a, Opt(b)>>)) }

Recursive(a) ==
  { Rec(Alt(<<a, Sub(<<Label("r"), Star(RecUse)>>)>>)),
    Sub(<<Label("p"), Rec(Alt(<<a, NV("c", "v"), Sub(<<Key("k"), Star(RecUse)>>)>>))>>),
    Star(Rec(Sub(<<Label("r"), a, Star(RecUse)>>))) }

\* A record split by its two names, with a recursive lens below: each of the two
\* has a copy of it, and of its grouping.
SplitAbove(a) ==
  { Sub(<<Ident("p", 2), r>>) : r \in Recursive(a)
      \cup {Rec(Alt(<<a, Sub(<<Key("k"), Opt(RecUse)>>)>>))} }

\* Alternatives with one label, of which one has nodes and the other has none,
\* with and without values, in both orders.
Bodies ==
  { N("c"),
    Cat(<<NV("c", "u"), Opt(N("d"))>>),
    Star(NV("c", "u")),
    Alt(<<N("c"), NV("d", "u")>>),
    Alt(<<Cat(<<NV("c", "u"), N("d")>>), Cat(<<NV("c", "t"), N("e")>>)>>) }
Uneven ==
  LET X(parts) == Sub(<<Label("x")>> \o parts)
      Pairs == UNION {{ <<X(<<Store("v"), k>>), X(<<Store("w")>>)>>, <<X(<<Store("v"), k>>), X(<<Del>>)>>,
                        <<X(<<k>>), X(<<Store("w")>>)>>, <<X(<<k>>), X(<<Del>>)>> } : k \in Bodies}
  IN  UNION {{ Alt(<<p[1], p[2], N("z")>>), Alt(<<p[2], p[1], N("z")>>),
               Star(Alt(<<p[1], p[2]>>)),
               Alt(<<Cat(<<p[1], N("y")>>), p[2], N("z")>>) } : p \in Pairs}

File(l) == Cat(<<l, Del>>)

\* Every shape over every two records.  RoomLenses and WhenLenses have the ones
\* left out: two keys in an entry of a star of alternatives or in a node of twins,
\* and a dependent record behind another with the same node.
MCLenses ==
  LET as == Plain("a") \cup Forked("a", "a2")
      bs == Plain("b") \cup Forked("b", "b2")
  IN  {File(l) : l \in UNION {Shapes(a, b) : a \in as, b \in bs}
                        \cup UNION {Shapes(a, Dependent("b")) : a \in as \ {ByValue("a")}}
                        \cup UNION {Shapes(Dependent("a"), b) : b \in bs}
                        \cup {Entries(a, b) : a \in Plain("a"), b \in Plain("b")}
                        \cup {Twins(a, b) : a \in Plain("a"), b \in Plain("b")}
                        \cup UNION {Recursive(a) : a \in as}
                        \cup UNION {SplitAbove(a) : a \in Plain("a") \cup {Dependent("a")}}
                        \cup Uneven}

\* A file of comments and records, as many lenses describe it, in which a
\* record has one of two keys; a recursive lens that splitting copies; and a
\* value that decides between two nodes, behind seven others.
RoomLenses ==
  {File(Entries(a, NV("b", "z"))) : a \in Forked("a", "a2")}
    \cup {File(Alt(<<Cat(<<Alt(<<N("x"), N("y")>>),
                          Rec(Alt(<<NV("a", "v"), Sub(<<Key("k"), Opt(RecUse)>>)>>))>>), N("z")>>))}
    \cup {File(Cat([m \in 1..7 |-> N(<<"a", "b", "c", "d", "e", "f", "g">>[m])] \o
                   <<Alt(<<Cat(<<NV("x", "v"), N("y")>>), Cat(<<NV("x", "w"), N("z")>>)>>)>>))}

\* A record with one of two keys below a value, in two places; and a record whose
\* node depends on its value behind another with the same node.
WhenLenses ==
  {File(Twins(a, NV("b", "z"))) : a \in Forked("a", "a2")}
    \cup {File(Cat(<<ByValue("a"), Dependent("b")>>))}
=============================================================================
