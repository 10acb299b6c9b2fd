----------------------------- MODULE MCAugLoad -----------------------------
(* Small schemas of the shapes augyang generates, with the files they       *)
(* describe and files that are one node away from those.                    *)
EXTENDS AugLoad

N(kind, name) ==
    [kind |-> kind, name |-> name, dp |-> None, vp |-> None, key |-> None, iskey |-> FALSE,
     type |-> [base |-> "string", groups |-> <<>>], mand |-> FALSE, when |-> None,
     ref |-> None, ch |-> <<>>]

Key(name)           == [N("leaf", name) EXCEPT !.iskey = TRUE, !.type = [base |-> "uint64"]]
List(name, key, ch) == [N("list", name) EXCEPT !.key = key, !.ch = <<Key(key)>> \o ch]
Seq_(name, vp, ch)  == [List(name, "_seq", ch) EXCEPT !.dp = "$$", !.vp = vp]
Cont(name, dp, vp, ch) == [N("container", name) EXCEPT !.dp = dp, !.vp = vp, !.ch = ch]
Leaf(name, dp, mand)   == [N("leaf", name) EXCEPT !.dp = dp, !.mand = mand]
Empty(name, dp)     == [Leaf(name, dp, FALSE) EXCEPT !.type = [base |-> "empty"]]
Maybe(name, dp)     == [Leaf(name, dp, FALSE) EXCEPT !.type =
                            [base |-> "union", members |-> <<[base |-> "empty"],
                                                            [base |-> "string", groups |-> <<>>]>>]]
Ref(name, to)       == [N("leaf", name) EXCEPT !.type = [base |-> "leafref"], !.ref = to]
Choice(cases)       == [N("choice", "ch") EXCEPT !.ch =
                            [i \in DOMAIN cases |-> [N("case", "case") EXCEPT !.ch = cases[i]]]]
Pattern(name, groups) == [Leaf(name, None, TRUE) EXCEPT !.type = [base |-> "string", groups |-> groups]]
In(S)  == [match |-> S, inverted |-> FALSE]
Out(S) == [match |-> S, inverted |-> TRUE]
A(label, value, ch) == [label |-> label, value |-> value, ch |-> ch]
L(label) == A(label, "x", <<>>)

\* All concatenations of one member of each set
RECURSIVE Concat(_), UpTo(_, _)
Concat(sets) == IF sets = <<>> THEN {<<>>}
                ELSE {a \o b : a \in Head(sets), b \in Concat(Tail(sets))}
UpTo(S, n)   == IF n = 0 THEN {<<>>} ELSE {<<>>} \cup {a \o b : a \in S, b \in UpTo(S, n - 1)}
Opt(S)       == S \cup {<<>>}
One(S)       == {<<a>> : a \in S}

\* One node left out, one node moved to the front, a node repeated at the end
Near(f) == {RemoveAt(f, i) : i \in DOMAIN f}
           \cup {<<f[i]>> \o RemoveAt(f, i) : i \in DOMAIN f}
           \cup {Append(f, f[i]) : i \in DOMAIN f}

\* xendconfsxp: nested arrays are kept in the list of arrays, by reference
Xend ==
    LET schema ==
          List("xend", "config-file", <<List("sexpr-list", "_id", <<
            Cont("sexpr", "$$", None, <<
              Pattern("var-name", <<In({"v", "w"})>>),
              Choice(<< <<Leaf("item", "item", TRUE)>>,
                        <<List("array-list", "_r-id", <<
                            Cont("array", "array", None, <<
                              List("config-entries", "_id", <<
                                Choice(<< <<Ref("_array-ref", "array-list")>>,
                                          <<Leaf("item2", "item", TRUE)>> >>)>>)>>)>>)>> >>)>>)>>)>>)
        A0 == {A("array", None, c) : c \in UpTo({<<L("item")>>}, 2)}
        A1 == {A("array", None, c) : c \in UpTo(One(A0 \cup {L("item")}), 2)}
        A2 == {A("array", None, c) : c \in UpTo(One({L("item"), A("array", None, <<>>),
                                              A("array", None, <<A("array", None, <<L("item")>>)>>)}), 3)}
        Body == {<<L("item")>>} \cup One(A1 \cup A2)
        lang == {<<A("v", None, b)>> : b \in Body}
                \cup {<<A("v", None, b), A("w", None, c), A("#comment", "x", <<>>)>> :
                            b, c \in {<<L("item")>>} \cup One({a \in A1 : Len(a.ch) = 1})}
    IN  [schema |-> schema, lang |-> lang,
         files |-> lang \cup UNION {{<<A("v", None, b)>> : b \in Near(<<a, L("item")>>)} : a \in A0}]

\* pg_hba: two cases that start with the same label, told apart by a when
PgHba ==
    LET Db(i) == List("database-list" \o i, "_id", <<Leaf("database" \o i, "database", TRUE)>>)
        Method(i) == Cont("method" \o i, "method", "value" \o i, <<Leaf("value" \o i, None, TRUE)>>)
        schema ==
          List("pg", "config-file", <<Seq_("entries-list", None, <<
            Leaf("type", "type", TRUE),
            Choice(<< <<[Cont("case", None, None, <<Db(""), Method("")>>)
                            EXCEPT !.when = [of |-> "type", in |-> {"local"}]]>>,
                      <<[Cont("case2", None, None, <<Db("2"), Leaf("address", "address", TRUE), Method("2")>>)
                            EXCEPT !.when = [of |-> "type", in |-> {"host", "hostssl"}]]>> >>)>>)>>)
        Dbs == {<<L("database")>>, <<L("database"), L("database")>>}
        Local == {<<A("type", "local", <<>>)>> \o d \o <<L("method")>> : d \in Dbs}
        Host  == {<<A("type", t, <<>>)>> \o d \o <<L("address"), L("method")>> :
                        d \in Dbs, t \in {"host", "hostssl"}}
        Entry == Local \cup Host
        lang == {<<A("1", None, e)>> : e \in Entry} \cup {<<A("1", None, e), A("2", None, f)>> : e, f \in Entry}
    IN  [schema |-> schema, lang |-> lang,
         files |-> lang \cup {<<A("1", None, f)>> : f \in UNION {Near(e) : e \in Entry}}]

\* automounter: optional nodes before a nested choice
Automounter ==
    LET Opt_(i) == List("opt-list" \o i, "_id", <<
                      Cont("opt" \o i, "opt", "optlabel" \o i, <<
                        Leaf("optlabel" \o i, None, TRUE), Leaf("optvalue" \o i, "value", FALSE)>>)>>)
        schema ==
          List("auto", "config-file", <<Seq_("entry-list", "entry-value", <<
            Leaf("entry-value", None, TRUE),
            Choice(<< <<Opt_(""),
                        Choice(<< <<Cont("location", "location", None, <<
                                      Seq_("location-list", None, <<
                                        List("host-list", "_id", <<Leaf("host", "host", TRUE)>>),
                                        Leaf("path", "path", TRUE)>>)>>)>>,
                                  <<Cont("mount", "mount", None, <<Seq_("mount-list", "mkey", <<
                                      Leaf("mkey", None, TRUE), Opt_("2")>>)>>)>> >>)>>,
                      <<Leaf("map", "map", FALSE)>> >>)>>)>>)
        Opts  == UpTo({<<A("opt", "o", <<>>)>>, <<A("opt", "o", <<L("value")>>)>>}, 2)
        Hosts == UpTo({<<L("host")>>}, 2)
        Loc   == {A("location", None, <<A("1", None, h \o <<L("path")>>)>>) : h \in Hosts}
        Mount == {A("mount", None, <<A("1", "x", o)>>) : o \in Opts}
        Entry == Concat(<<Opts, One(Loc \cup Mount)>>) \cup {<<L("map")>>}
        lang  == {<<A("1", "k", e)>> : e \in Entry}
        \* leaves without the value or with children the schema does not have
        Bare(l) == {A(l, None, <<>>), A(l, "x", <<L("sub")>>), A(l, None, <<L("sub"), L("sub")>>)}
        Silent == {<<m>> : m \in Bare("map")}
                  \cup {<<A("opt", "o", <<v>>), A("mount", None, <<>>)>> : v \in Bare("value")}
                  \cup {<<A("location", None, <<A("1", None, <<h, L("path")>>)>>)>> : h \in Bare("host")}
    IN  [schema |-> schema, lang |-> lang,
         files |-> lang \cup {<<A("1", "k", f)>> : f \in UNION {Near(e) : e \in Entry} \cup Silent}]

\* httpd: sections with any other name, in any order with directives; the
\* directive's flag is a leaf of type empty, its mode one that may be empty, and
\* its section is recursive
Httpd ==
    LET schema ==
          List("httpd", "config-file", <<List("entries", "_id", <<
            Choice(<< <<List("node-list", "_r-id", <<
                          Cont("node", "$$", None, <<
                            Pattern("label", <<In({"directive", "Dir", "If"}), Out({"directive"})>>),
                            List("args", "_id", <<Leaf("arg", "arg", TRUE)>>),
                            List("sub-entries", "_id", <<
                              Choice(<< <<Ref("_node-ref", "node-list")>>,
                                        <<Cont("sub-directive", "directive", "sub-word", <<
                                            Leaf("sub-word", None, TRUE)>>)>> >>)>>)>>)>>)>>,
                      <<Cont("directive", "directive", "word", <<
                          Leaf("word", None, TRUE), Empty("flag", "flag"), Maybe("mode", "mode")>>)>> >>)>>)>>)
        Dir   == {A("directive", "x", <<>>)}
        Dir0  == Dir \cup {A("directive", "x", <<A("flag", None, <<>>)>>),
                           A("directive", "x", <<A("mode", None, <<>>)>>),
                           A("directive", "x", <<A("flag", None, <<>>), L("mode")>>)}
        Args  == UpTo({<<L("arg")>>}, 1)
        N0    == {A(l, None, a \o b) : l \in {"Dir", "If"}, a \in Args, b \in UpTo(One(Dir), 1)}
        N1    == {A("Dir", None, a \o b) : a \in Args, b \in UpTo(One(Dir \cup N0), 2)}
        lang  == UpTo(One(Dir0 \cup N0), 2) \cup One(N1)
                 \cup {<<A("Dir", None, <<A("If", None, <<n>>), n>>), n>> : n \in N0}
    IN  [schema |-> schema, lang |-> lang,
         files |-> lang \cup {<<A("other", None, <<>>)>> \o f : f \in One(Dir0 \cup N0)}]

MCModules == {Xend, PgHba, Automounter, Httpd}
MCDigits  == {"1", "2", "3"}
=============================================================================
