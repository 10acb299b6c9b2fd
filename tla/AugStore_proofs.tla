--------------------------- MODULE AugStore_proofs ---------------------------
(***************************************************************************)
(* The Augeas tree follows diff_data, proved for files of any length.      *)
(*                                                                         *)
(* The plugin addresses an Augeas node by its label and an index counted   *)
(* in diff_data.  The argument: if the tree shows the instances of         *)
(* diff_data up to a position, the index counted there finds the node of   *)
(* that position (FindIndex); each of the four operations then changes the *)
(* tree and diff_data at the same position.  After an unsafe move this is  *)
(* over, but the two still have as many nodes of each label (SameLabels),  *)
(* so every index still finds some node.                                   *)
(*                                                                         *)
(* This is shown here for a diff whose nodes apply one after the other     *)
(* (DiffApplies); that libyang's diff is such a diff, and the theorems, are *)
(* in AugStoreDiff_proofs.                                                 *)
(***************************************************************************)
EXTENDS AugStore, SequenceTheorems, FiniteSetTheorems, FunctionTheorems,
        WellFoundedInduction, TLAPS

-----------------------------------------------------------------------------
(* Sequences: cutting, inserting and removing an element; finding a node *)

\* a without the n elements from position i on.
Cut(a, i, n) == SubSeq(a, 1, i - 1) \o SubSeq(a, i + n, Len(a))

\* What Cut leaves: the elements before i, and those behind the gap moved up by n.
LEMMA CutFact ==
  ASSUME NEW S, NEW a \in Seq(S), NEW i \in 1..(Len(a) + 1), NEW n \in 0..(Len(a) - i + 1)
  PROVE  /\ Cut(a, i, n) \in Seq(S)
         /\ Len(Cut(a, i, n)) = Len(a) - n
         /\ \A j \in 1..(i - 1) : Cut(a, i, n)[j] = a[j]
         /\ \A j \in i..(Len(a) - n) : Cut(a, i, n)[j] = a[j + n]
<1> DEFINE l == SubSeq(a, 1, i - 1)
           r == SubSeq(a, i + n, Len(a))
<1>0. Len(a) \in Nat /\ \A j \in 1..Len(a) : a[j] \in S
  OBVIOUS
<1>1. /\ l \in Seq(S) /\ Len(l) = i - 1
      /\ \A j \in 1..(i - 1) : l[j] = a[j]
  <2>1. \A j \in 1..(i - 1) : a[j] \in S
    BY <1>0
  <2> QED
    BY <1>0, <2>1, SubSeqProperties
<1>2. /\ r \in Seq(S) /\ Len(r) = Len(a) - i - n + 1
      /\ \A j \in 1..(Len(a) - i - n + 1) : r[j] = a[i + n + j - 1]
  <2>1. \A j \in (i + n)..Len(a) : a[j] \in S
    BY <1>0
  <2> QED
    BY <1>0, <2>1, SubSeqProperties
<1> HIDE DEF l, r
<1>3. /\ l \o r \in Seq(S) /\ Len(l \o r) = Len(a) - n
      /\ \A j \in 1..(Len(a) - n) :
           (l \o r)[j] = IF j <= i - 1 THEN l[j] ELSE r[j - (i - 1)]
  BY <1>0, <1>1, <1>2, ConcatProperties
<1>4. Cut(a, i, n) = l \o r
  BY DEF Cut, l, r
<1>5. \A j \in 1..(i - 1) : (l \o r)[j] = a[j]
  BY <1>0, <1>1, <1>3
<1>6. \A j \in i..(Len(a) - n) : (l \o r)[j] = a[j + n]
  <2> SUFFICES ASSUME NEW j \in i..(Len(a) - n) PROVE (l \o r)[j] = a[j + n]
    OBVIOUS
  <2> DEFINE q == j - (i - 1)
  <2>1. q \in 1..(Len(a) - i - n + 1) /\ j \in 1..(Len(a) - n) /\ i + n + q - 1 = j + n
        /\ ~(j <= i - 1)
    BY <1>0
  <2>2. (l \o r)[j] = r[q]
    BY <2>1, <1>3
  <2>3. r[q] = a[i + n + q - 1]
    <3> HIDE DEF q
    <3> QED
      BY <2>1, <1>2
  <2> QED
    BY <2>1, <2>2, <2>3
<1> QED
  BY <1>3, <1>4, <1>5, <1>6

\* e can be inserted into the sequence s on position i.
Insertable(S, s, i, e) == s \in Seq(S) /\ e \in S /\ i \in 1..(Len(s) + 1)

\* InsertAt puts e on position i and moves what was there, and behind it, by one.
LEMMA InsertAtFact ==
  ASSUME NEW S, NEW s, NEW e, NEW i, Insertable(S, s, i, e)
  PROVE  /\ InsertAt(s, i, e) \in Seq(S) /\ Len(InsertAt(s, i, e)) = Len(s) + 1
         /\ \A j \in 1..(i - 1) : InsertAt(s, i, e)[j] = s[j]
         /\ InsertAt(s, i, e)[i] = e
         /\ \A j \in (i + 1)..(Len(s) + 1) : InsertAt(s, i, e)[j] = s[j - 1]
<1> USE DEF Insertable
<1>1. s \in Seq(S) /\ e \in S /\ i \in 1..(Len(s) + 1)
  OBVIOUS
<1> DEFINE x == <<e>>
           l == SubSeq(s, 1, i - 1)
           r == SubSeq(s, i, Len(s))
           ls == l \o x
<1>2. x \in Seq(S) /\ Len(x) = 1 /\ x[1] = e
  OBVIOUS
<1> HIDE DEF x
<1>3. Len(s) \in Nat /\ Len(x) \in Nat /\ \A j \in 1..Len(s) : s[j] \in S
  BY <1>2
<1>4. /\ l \in Seq(S) /\ Len(l) = i - 1
      /\ \A j \in 1..(i - 1) : l[j] = s[j]
  <2>1. \A j \in 1..(i - 1) : s[j] \in S
    BY <1>3
  <2> QED
    BY <1>3, <2>1, SubSeqProperties
<1>5. /\ r \in Seq(S) /\ Len(r) = Len(s) - i + 1
      /\ \A j \in 1..(Len(s) - i + 1) : r[j] = s[i + j - 1]
  <2>1. \A j \in i..Len(s) : s[j] \in S
    BY <1>3
  <2> QED
    BY <1>3, <2>1, SubSeqProperties
<1> HIDE DEF l, r
<1>6. /\ ls \in Seq(S) /\ Len(ls) = i - 1 + Len(x)
      /\ \A j \in 1..(i - 1 + Len(x)) : ls[j] = IF j <= i - 1 THEN l[j] ELSE x[j - (i - 1)]
  <2>1. /\ ls \in Seq(S) /\ Len(ls) = Len(l) + Len(x)
        /\ \A j \in 1..(Len(l) + Len(x)) : ls[j] = IF j <= Len(l) THEN l[j] ELSE x[j - Len(l)]
    <3>1. l \in Seq(S) /\ x \in Seq(S)
      BY <1>4, <1>2
    <3> QED
      BY ONLY <3>1, ConcatProperties
  <2> HIDE DEF ls
  <2> QED
    BY <1>3, <1>4, <2>1
<1> HIDE DEF ls
<1>7. /\ ls \o r \in Seq(S) /\ Len(ls \o r) = Len(s) + Len(x)
      /\ \A j \in 1..(Len(s) + Len(x)) :
           (ls \o r)[j] = IF j <= i - 1 + Len(x) THEN ls[j] ELSE r[j - (i - 1 + Len(x))]
  <2>1. Len(ls) + Len(r) = Len(s) + Len(x)
    BY <1>3, <1>5, <1>6
  <2>2. /\ ls \o r \in Seq(S) /\ Len(ls \o r) = Len(ls) + Len(r)
        /\ \A j \in 1..(Len(ls) + Len(r)) :
             (ls \o r)[j] = IF j <= Len(ls) THEN ls[j] ELSE r[j - Len(ls)]
    BY <1>5, <1>6, ConcatProperties
  <2> QED
    BY <2>1, <2>2, <1>6
<1>8. InsertAt(s, i, e) = ls \o r
  BY DEF InsertAt, ls, l, r, x
<1>9. \A j \in 1..(i - 1) : (ls \o r)[j] = s[j]
  BY <1>3, <1>4, <1>6, <1>7
<1>10. \A j \in i..(i + Len(x) - 1) : (ls \o r)[j] = x[j - i + 1]
  <2> SUFFICES ASSUME NEW j \in i..(i + Len(x) - 1) PROVE (ls \o r)[j] = x[j - i + 1]
    OBVIOUS
  <2>1. j \in 1..(i - 1 + Len(x)) /\ j \in 1..(Len(s) + Len(x)) /\ j - (i - 1) = j - i + 1
    BY <1>3
  <2> QED
    BY <2>1, <1>3, <1>6, <1>7
<1>11. \A j \in (i + Len(x))..(Len(s) + Len(x)) : (ls \o r)[j] = s[j - Len(x)]
  <2> SUFFICES ASSUME NEW j \in (i + Len(x))..(Len(s) + Len(x)) PROVE (ls \o r)[j] = s[j - Len(x)]
    OBVIOUS
  <2> DEFINE q == j - (i - 1 + Len(x))
  <2>1. q \in 1..(Len(s) - i + 1) /\ j \in 1..(Len(s) + Len(x)) /\ i + q - 1 = j - Len(x)
        /\ ~(j <= i - 1 + Len(x))
    BY <1>3
  <2>2. (ls \o r)[j] = r[q]
    BY <2>1, <1>7
  <2>3. r[q] = s[i + q - 1]
    <3> HIDE DEF q
    <3> QED
      BY <2>1, <1>5
  <2> QED
    BY <2>1, <2>2, <2>3
<1>12. (ls \o r)[i] = e
  <2>1. i \in i..(i + Len(x) - 1) /\ i - i + 1 = 1
    BY <1>3, <1>2
  <2>2. (ls \o r)[i] = x[i - i + 1]
    BY ONLY <1>10, <2>1
  <2> QED
    BY <1>2, <2>1, <2>2
<1> QED
  BY <1>7, <1>8, <1>9, <1>11, <1>2, <1>12

\* RemoveAt is a cut of one element.
LEMMA RemoveAtFact ==
  ASSUME NEW S, NEW s \in Seq(S), NEW i \in 1..Len(s)
  PROVE  /\ RemoveAt(s, i) \in Seq(S) /\ Len(RemoveAt(s, i)) = Len(s) - 1
         /\ \A j \in 1..(i - 1) : RemoveAt(s, i)[j] = s[j]
         /\ \A j \in i..(Len(s) - 1) : RemoveAt(s, i)[j] = s[j + 1]
<1>0. Len(s) \in Nat /\ i \in 1..(Len(s) + 1) /\ s \in Seq(S) /\ 1 \in 0..(Len(s) - i + 1)
  OBVIOUS
<1>1. RemoveAt(s, i) = Cut(s, i, 1)
  BY DEF RemoveAt, Cut
<1>2. /\ Cut(s, i, 1) \in Seq(S) /\ Len(Cut(s, i, 1)) = Len(s) - 1
      /\ \A j \in 1..(i - 1) : Cut(s, i, 1)[j] = s[j]
      /\ \A j \in i..(Len(s) - 1) : Cut(s, i, 1)[j] = s[j + 1]
  BY ONLY <1>0, CutFact
<1> QED
  BY <1>1, <1>2

\* The positions up to k whose node has the label: what an Augeas index counts.
Before(s, label, k) == {j \in 1..k : s[j].label = label}

\* There are finitely many of them, and fewer up to an earlier position.
LEMMA BeforeFact ==
  ASSUME NEW s, NEW label, NEW k \in Nat
  PROVE  /\ IsFiniteSet(Before(s, label, k)) /\ Cardinality(Before(s, label, k)) \in Nat
         /\ \A m \in 0..k : Before(s, label, m) \in SUBSET Before(s, label, k)
<1>1. IsFiniteSet(1..k) /\ Before(s, label, k) \in SUBSET (1..k)
  BY FS_Interval DEF Before
<1>2. IsFiniteSet(Before(s, label, k))
  BY ONLY <1>1, FS_Subset
<1>3. Cardinality(Before(s, label, k)) \in Nat
  BY ONLY <1>2, FS_CardinalityType
<1>4. \A m \in 0..k : Before(s, label, m) \in SUBSET Before(s, label, k)
  BY DEF Before
<1> QED
  BY <1>2, <1>3, <1>4

\* A node is found by its label and the number of nodes with that label up to it:
\* two nodes with one label never have one index.
LEMMA FindFact ==
  ASSUME NEW s, NEW n \in Nat, DOMAIN s = 1..n, NEW k \in 1..n
  PROVE  Find(s, s[k].label, Cardinality(Before(s, s[k].label, k))) = k
<1> DEFINE l == s[k].label
           idx == Cardinality(Before(s, l, k))
           A == {i \in DOMAIN s : /\ s[i].label = l
                                  /\ Cardinality({j \in 1..i : s[j].label = l}) = idx}
<1>1. ASSUME NEW i \in 1..n, NEW j \in 1..n, i < j, s[j].label = l,
             Cardinality(Before(s, l, i)) = Cardinality(Before(s, l, j))
      PROVE  FALSE
  <2>1. i \in 0..j /\ j \in Nat
    BY <1>1
  <2>2. IsFiniteSet(Before(s, l, j)) /\ Before(s, l, i) \in SUBSET Before(s, l, j)
    BY <2>1, BeforeFact
  <2>3. Before(s, l, j) = Before(s, l, i)
    BY <2>2, <1>1, FS_Subset
  <2>4. j \in Before(s, l, j) /\ j \notin Before(s, l, i)
    BY <1>1 DEF Before
  <2> QED
    BY <2>3, <2>4
<1>2. k \in A
  BY DEF Before
<1>3. ASSUME NEW i \in A PROVE i = k
  <2>1. i \in 1..n /\ s[i].label = l /\ Cardinality(Before(s, l, i)) = Cardinality(Before(s, l, k))
    BY DEF Before
  <2>2. ~(i < k) /\ ~(k < i)
    BY <2>1, <1>1
  <2> QED
    BY <2>1, <2>2
<1>4. Find(s, l, idx) = IF A = {} THEN 0 ELSE CHOOSE i \in A : TRUE
  BY DEF Find
<1> HIDE DEF A
<1> QED
  BY <1>2, <1>3, <1>4

\* What is found is a position of the sequence.
LEMMA FindIn ==
  ASSUME NEW s, NEW n \in Nat, DOMAIN s = 1..n, NEW label, NEW idx, Find(s, label, idx) # 0
  PROVE  Find(s, label, idx) \in 1..n
  BY DEF Find

-----------------------------------------------------------------------------
(* diff_data, and the tree that shows it *)

\* No two instances of a list have one key.
Unique(s) == \A i, j \in 1..Len(s) : s[i].id = s[j].id => i = j

\* The members of a sequence of instances are typed.
LEMMA InstanceFact ==
  ASSUME NEW s \in Seq(Instance)
  PROVE  /\ Len(s) \in Nat /\ DOMAIN s = 1..Len(s)
         /\ \A j \in 1..Len(s) : /\ s[j] \in Instance /\ s[j].id \in Ids
                                 /\ s[j].label \in Labels /\ s[j].val \in Values
                                 /\ s[j].id \in IdsOf(s)
<1>1. /\ Len(s) \in Nat /\ DOMAIN s = 1..Len(s)
      /\ \A j \in 1..Len(s) : s[j] \in Instance
  OBVIOUS
<1>2. ASSUME NEW x \in Instance PROVE x.id \in Ids /\ x.label \in Labels /\ x.val \in Values
  BY DEF Instance
<1> QED
  BY <1>1, <1>2 DEF IdsOf

\* At finds the instance with a key, and with unique keys it finds no other.
LEMMA AtFact ==
  ASSUME NEW s \in Seq(Instance)
  PROVE  /\ \A id \in IdsOf(s) : At(s, id) \in 1..Len(s) /\ s[At(s, id)].id = id
         /\ Unique(s) => \A k \in 1..Len(s) : At(s, s[k].id) = k
<1>1. DOMAIN s = 1..Len(s)
  BY InstanceFact
<1>2. ASSUME NEW id \in IdsOf(s) PROVE At(s, id) \in 1..Len(s) /\ s[At(s, id)].id = id
  <2>1. \E i \in DOMAIN s : s[i].id = id
    BY DEF IdsOf
  <2> QED
    BY <1>1, <2>1 DEF At
<1>3. ASSUME Unique(s), NEW k \in 1..Len(s) PROVE At(s, s[k].id) = k
  <2>1. s[k].id \in IdsOf(s)
    BY <1>1 DEF IdsOf
  <2>2. At(s, s[k].id) \in 1..Len(s) /\ s[At(s, s[k].id)].id = s[k].id
    BY <1>2, <2>1
  <2> QED
    BY <1>3, <2>2 DEF Unique
<1> QED
  BY <1>2, <1>3

\* The members of a sequence of nodes are nodes.
LEMMA NodeFact ==
  ASSUME NEW s \in Seq(Node)
  PROVE  /\ Len(s) \in Nat /\ DOMAIN s = 1..Len(s)
         /\ \A j \in 1..Len(s) : s[j] \in Node
  OBVIOUS

\* Image keeps length, labels and values.
LEMMA ImageFact ==
  ASSUME NEW s \in Seq(Instance)
  PROVE  /\ Image(s) \in Seq(Node) /\ Len(Image(s)) = Len(s)
         /\ \A j \in 1..Len(s) : Image(s)[j].label = s[j].label /\ Image(s)[j].val = s[j].val
<1>1. /\ Len(s) \in Nat /\ DOMAIN s = 1..Len(s)
      /\ \A j \in 1..Len(s) : s[j].label \in Labels /\ s[j].val \in Values
  BY InstanceFact
<1>2. Image(s) \in [1..Len(s) -> Node]
  BY <1>1 DEF Image, Node
<1>3. \A j \in 1..Len(s) : Image(s)[j].label = s[j].label /\ Image(s)[j].val = s[j].val
  BY <1>1 DEF Image
<1>4. Image(s) \in Seq(Node) /\ Len(Image(s)) = Len(s)
  BY ONLY <1>1, <1>2, SeqDef
<1> QED
  BY <1>3, <1>4

\* The nodes of a are those of s.
Shows(a, s) ==
  /\ a \in Seq(Node) /\ s \in Seq(Instance) /\ Len(a) = Len(s)
  /\ \A j \in 1..Len(s) : a[j].label = s[j].label /\ a[j].val = s[j].val

\* A tree shows the instances of s exactly if it is their image.
LEMMA ShowsIsImage ==
  ASSUME NEW a, NEW s \in Seq(Instance)
  PROVE  Shows(a, s) <=> a = Image(s)
<1>1. /\ Len(s) \in Nat /\ Image(s) \in Seq(Node) /\ Len(Image(s)) = Len(s)
      /\ \A j \in 1..Len(s) : Image(s)[j].label = s[j].label /\ Image(s)[j].val = s[j].val
  BY InstanceFact, ImageFact
<1>2. ASSUME a = Image(s) PROVE Shows(a, s)
  BY <1>1, <1>2 DEF Shows
<1>3. ASSUME Shows(a, s) PROVE a = Image(s)
  <2>1. a \in Seq(Node) /\ Len(a) = Len(s)
    BY <1>3 DEF Shows
  <2>2. ASSUME NEW j \in 1..Len(s) PROVE a[j] = Image(s)[j]
    <3>1. a[j] \in Node /\ Image(s)[j] \in Node
      BY <1>1, <2>1
    <3>2. a[j].label = Image(s)[j].label /\ a[j].val = Image(s)[j].val
      BY <1>1, <1>3 DEF Shows
    <3>3. ASSUME NEW x \in Node, NEW y \in Node, x.label = y.label, x.val = y.val PROVE x = y
      BY <3>3 DEF Node
    <3> QED
      BY ONLY <3>1, <3>2, <3>3
  <2> HIDE DEF Image
  <2> QED
    BY <1>1, <2>1, <2>2, SeqEqual
<1> QED
  BY <1>2, <1>3

\* An index computed from s names the node of a, when the nodes up to it
\* have the same labels.
LEMMA FindIndex ==
  ASSUME NEW a \in Seq(Node), NEW s, NEW k \in 1..Len(a),
         \A j \in 1..k : a[j].label = s[j].label
  PROVE  Find(a, s[k].label, LabelIndex(s, k)) = k
<1>1. Len(a) \in Nat /\ DOMAIN a = 1..Len(a) /\ k \in 1..Len(a)
  OBVIOUS
<1>2. a[k].label = s[k].label
  BY <1>1
<1>3. Before(a, a[k].label, k) = {j \in 1..k : s[j].label = s[k].label}
  BY <1>2 DEF Before
<1>4. Find(a, a[k].label, Cardinality(Before(a, a[k].label, k))) = k
  BY ONLY <1>1, FindFact
<1> QED
  BY <1>2, <1>3, <1>4 DEF LabelIndex

-----------------------------------------------------------------------------
(* Inserting and removing an instance *)

\* A new instance with a new key leaves the keys unique, and is found where it was put.
LEMMA InsertData ==
  ASSUME NEW s \in Seq(Instance), Unique(s), NEW x \in Instance, x.id \notin IdsOf(s),
         NEW p \in 1..(Len(s) + 1)
  PROVE  /\ InsertAt(s, p, x) \in Seq(Instance) /\ Unique(InsertAt(s, p, x))
         /\ At(InsertAt(s, p, x), x.id) = p
<1> DEFINE u == InsertAt(s, p, x)
           n == Len(s)
<1>0. n \in Nat /\ p \in 1..(n + 1) /\ \A j \in 1..n : s[j].id \in IdsOf(s)
  BY InstanceFact
<1>1. /\ u \in Seq(Instance) /\ Len(u) = n + 1
      /\ \A j \in 1..(p - 1) : u[j] = s[j]
      /\ u[p] = x
      /\ \A j \in (p + 1)..(n + 1) : u[j] = s[j - 1]
  <2>1. Insertable(Instance, s, p, x)
    BY DEF Insertable
  <2> QED
    BY ONLY <2>1, InsertAtFact
<1> HIDE DEF u, n
<1> DEFINE From(j) == IF j < p THEN j ELSE j - 1
<1>2. ASSUME NEW j \in 1..(n + 1), j # p PROVE From(j) \in 1..n /\ u[j] = s[From(j)]
  <2>1. CASE j < p
    <3>1. From(j) \in 1..n /\ j \in 1..(p - 1)
      BY <1>0, <2>1
    <3> QED
      BY <1>1, <2>1, <3>1
  <2>2. CASE j > p
    <3>1. From(j) \in 1..n /\ j \in (p + 1)..(n + 1) /\ From(j) = j - 1
      BY <1>0, <2>2
    <3> QED
      BY <1>1, <3>1
  <2> QED
    BY <1>0, <1>2, <2>1, <2>2
<1>3. ASSUME NEW i \in 1..(n + 1), NEW j \in 1..(n + 1), u[i].id = u[j].id PROVE i = j
  <2>1. CASE i = p /\ j # p
    BY <1>0, <1>1, <1>2, <1>3, <2>1
  <2>2. CASE j = p /\ i # p
    BY <1>0, <1>1, <1>2, <1>3, <2>2
  <2>3. CASE i # p /\ j # p
    <3>1. /\ From(i) \in 1..n /\ From(j) \in 1..n
          /\ s[From(i)].id = s[From(j)].id
      BY <1>2, <1>3, <2>3
    <3>2. From(i) = From(j)
      BY <3>1 DEF Unique, n
    <3> QED
      BY <1>0, <2>3, <3>2
  <2> QED
    BY <2>1, <2>2, <2>3
<1>4. Unique(u)
  BY <1>1, <1>3 DEF Unique
<1>5. p \in 1..Len(u)
  BY <1>0, <1>1
<1>6. At(u, u[p].id) = p
  BY <1>1, <1>4, <1>5, AtFact
<1> QED
  BY <1>1, <1>4, <1>6 DEF u

\* Without one instance the keys are unique, its key is gone and the instances
\* before it are found where they were.
LEMMA RemoveData ==
  ASSUME NEW s \in Seq(Instance), Unique(s), NEW k \in 1..Len(s)
  PROVE  /\ RemoveAt(s, k) \in Seq(Instance) /\ Unique(RemoveAt(s, k))
         /\ s[k].id \notin IdsOf(RemoveAt(s, k))
         /\ \A i \in 1..Len(s) : i < k => At(RemoveAt(s, k), s[i].id) = i
<1> DEFINE u == RemoveAt(s, k)
           n == Len(s)
<1>0. n \in Nat /\ k \in 1..n
  BY InstanceFact
<1>1. /\ u \in Seq(Instance) /\ Len(u) = n - 1
      /\ \A j \in 1..(k - 1) : u[j] = s[j]
      /\ \A j \in k..(n - 1) : u[j] = s[j + 1]
  BY RemoveAtFact
<1> HIDE DEF u, n
<1> DEFINE From(j) == IF j < k THEN j ELSE j + 1
<1>2. ASSUME NEW j \in 1..(n - 1) PROVE From(j) \in 1..n /\ From(j) # k /\ u[j] = s[From(j)]
  <2>1. CASE j < k
    <3>1. From(j) \in 1..n /\ j \in 1..(k - 1)
      BY <1>0, <2>1
    <3> QED
      BY <1>1, <2>1, <3>1
  <2>2. CASE j >= k
    <3>1. From(j) \in 1..n /\ j \in k..(n - 1) /\ From(j) = j + 1 /\ From(j) # k
      BY <1>0, <2>2
    <3> QED
      BY <1>1, <3>1
  <2> QED
    BY <1>0, <2>1, <2>2
<1>3. ASSUME NEW i \in 1..(n - 1), NEW j \in 1..(n - 1), u[i].id = u[j].id PROVE i = j
  <2>1. /\ From(i) \in 1..n /\ From(j) \in 1..n
        /\ s[From(i)].id = s[From(j)].id
    BY <1>2, <1>3
  <2>2. From(i) = From(j)
    BY <2>1 DEF Unique, n
  <2> QED
    BY <1>0, <2>2
<1>4. Unique(u)
  BY <1>1, <1>3 DEF Unique
<1>5. s[k].id \notin IdsOf(u)
  <2> SUFFICES ASSUME NEW j \in DOMAIN u, u[j].id = s[k].id PROVE FALSE
    BY DEF IdsOf
  <2>1. j \in 1..(n - 1)
    BY <1>1, InstanceFact
  <2>2. From(j) \in 1..n /\ From(j) # k /\ s[From(j)].id = s[k].id
    BY <1>2, <2>1
  <2> QED
    BY <1>0, <2>2 DEF Unique, n
<1>6. ASSUME NEW i \in 1..n, i < k PROVE At(u, s[i].id) = i
  <2>1. i \in 1..(k - 1) /\ i \in 1..Len(u)
    BY <1>0, <1>1, <1>6
  <2>2. u[i] = s[i]
    BY <1>1, <2>1
  <2>3. At(u, u[i].id) = i
    BY <1>1, <1>4, <2>1, AtFact
  <2> QED
    BY <2>2, <2>3
<1> QED
  BY <1>1, <1>4, <1>5, <1>6 DEF u, n

\* AUGDS_OP_DELETE: the path names the node of the instance, and without both of
\* them the tree still shows diff_data.
LEMMA DeleteMirrors ==
  ASSUME NEW a, NEW s, Shows(a, s), NEW k \in 1..Len(s)
  PROVE  /\ Find(a, s[k].label, LabelIndex(s, k)) = k
         /\ Shows(RemoveAt(a, k), RemoveAt(s, k))
<1> DEFINE n == Len(s)
           u == RemoveAt(s, k)
           b == RemoveAt(a, k)
<1>1. /\ a \in Seq(Node) /\ s \in Seq(Instance) /\ Len(a) = n /\ n \in Nat /\ k \in 1..n
      /\ \A j \in 1..n : a[j].label = s[j].label /\ a[j].val = s[j].val
  BY InstanceFact DEF Shows
<1>2. Find(a, s[k].label, LabelIndex(s, k)) = k
  <2>1. k \in 1..Len(a) /\ \A j \in 1..k : a[j].label = s[j].label
    BY <1>1
  <2> QED
    BY ONLY <1>1, <2>1, FindIndex
<1>3. /\ u \in Seq(Instance) /\ Len(u) = n - 1
      /\ \A j \in 1..(k - 1) : u[j] = s[j]
      /\ \A j \in k..(n - 1) : u[j] = s[j + 1]
  BY <1>1, RemoveAtFact
<1>4. /\ b \in Seq(Node) /\ Len(b) = n - 1
      /\ \A j \in 1..(k - 1) : b[j] = a[j]
      /\ \A j \in k..(n - 1) : b[j] = a[j + 1]
  <2>1. k \in 1..Len(a)
    BY <1>1
  <2>2. /\ b \in Seq(Node) /\ Len(b) = Len(a) - 1
        /\ \A j \in 1..(k - 1) : b[j] = a[j]
        /\ \A j \in k..(Len(a) - 1) : b[j] = a[j + 1]
    BY <1>1, <2>1, RemoveAtFact
  <2> QED
    BY <1>1, <2>2
<1> HIDE DEF u, b, n
<1>5. ASSUME NEW j \in 1..(n - 1) PROVE b[j].label = u[j].label /\ b[j].val = u[j].val
  <2>1. CASE j < k
    <3>1. j \in 1..(k - 1) /\ j \in 1..n
      BY <1>1, <2>1
    <3> QED
      BY <1>1, <1>3, <1>4, <3>1
  <2>2. CASE j >= k
    <3>1. j \in k..(n - 1) /\ j + 1 \in 1..n
      BY <1>1, <2>2
    <3> QED
      BY <1>1, <1>3, <1>4, <3>1
  <2> QED
    BY <1>1, <2>1, <2>2
<1>6. Shows(b, u)
  BY <1>3, <1>4, <1>5 DEF Shows
<1> QED
  BY <1>2, <1>6 DEF b, u

-----------------------------------------------------------------------------
(* Updating a node or an instance in place *)

\* A node with a new label or value is a node, and the others are as they were.
LEMMA NodeUpdate ==
  ASSUME NEW a \in Seq(Node), NEW k \in 1..Len(a)
  PROVE  /\ \A l \in Labels :
              LET b == [a EXCEPT ![k].label = l]
              IN  /\ b \in Seq(Node) /\ Len(b) = Len(a)
                  /\ b[k].label = l /\ b[k].val = a[k].val
                  /\ \A j \in 1..Len(a) : j # k => b[j] = a[j]
         /\ \A v \in Values \cup {NoValue} :
              LET b == [a EXCEPT ![k].val = v]
              IN  /\ b \in Seq(Node) /\ Len(b) = Len(a)
                  /\ b[k].label = a[k].label /\ b[k].val = v
                  /\ \A j \in 1..Len(a) : j # k => b[j] = a[j]
<1>1. Len(a) \in Nat /\ DOMAIN a = 1..Len(a) /\ a[k] \in Node
  OBVIOUS
<1>2. ASSUME NEW x \in Node
      PROVE  /\ \A l \in Labels : LET y == [x EXCEPT !.label = l]
                                  IN  y \in Node /\ y.label = l /\ y.val = x.val
             /\ \A v \in Values \cup {NoValue} : LET y == [x EXCEPT !.val = v]
                                                 IN  y \in Node /\ y.label = x.label /\ y.val = v
  BY DEF Node
<1>3. ASSUME NEW y \in Node
      PROVE  LET b == [a EXCEPT ![k] = y]
             IN  /\ b \in Seq(Node) /\ Len(b) = Len(a) /\ b[k] = y
                 /\ \A j \in 1..Len(a) : j # k => b[j] = a[j]
  BY <1>1
<1>4. ASSUME NEW l \in Labels
      PROVE  LET b == [a EXCEPT ![k].label = l]
             IN  /\ b \in Seq(Node) /\ Len(b) = Len(a)
                 /\ b[k].label = l /\ b[k].val = a[k].val
                 /\ \A j \in 1..Len(a) : j # k => b[j] = a[j]
  <2> DEFINE y == [a[k] EXCEPT !.label = l]
  <2>1. y \in Node /\ y.label = l /\ y.val = a[k].val
    BY <1>1, <1>2
  <2>2. [a EXCEPT ![k].label = l] = [a EXCEPT ![k] = y]
    BY Zenon
  <2> HIDE DEF y
  <2> QED
    BY <1>3, <2>1, <2>2
<1>5. ASSUME NEW v \in Values \cup {NoValue}
      PROVE  LET b == [a EXCEPT ![k].val = v]
             IN  /\ b \in Seq(Node) /\ Len(b) = Len(a)
                 /\ b[k].label = a[k].label /\ b[k].val = v
                 /\ \A j \in 1..Len(a) : j # k => b[j] = a[j]
  <2> DEFINE y == [a[k] EXCEPT !.val = v]
  <2>1. y \in Node /\ y.label = a[k].label /\ y.val = v
    BY <1>1, <1>2
  <2>2. [a EXCEPT ![k].val = v] = [a EXCEPT ![k] = y]
    BY Zenon
  <2> HIDE DEF y
  <2> QED
    BY <1>3, <2>1, <2>2
<1> QED
  BY <1>4, <1>5

\* diff_data after a change of the instance on position k.
Updated(s, k, l, v) == [s EXCEPT ![k].label = l, ![k].val = v]

\* It has the new label and value, its key and the other instances are kept.
LEMMA InstanceUpdate ==
  ASSUME NEW s \in Seq(Instance), NEW k \in 1..Len(s), NEW l \in Labels, NEW v \in Values
  PROVE  /\ Updated(s, k, l, v) \in Seq(Instance) /\ Len(Updated(s, k, l, v)) = Len(s)
         /\ Updated(s, k, l, v)[k].label = l /\ Updated(s, k, l, v)[k].val = v
         /\ Updated(s, k, l, v)[k].id = s[k].id
         /\ \A j \in 1..Len(s) : j # k => Updated(s, k, l, v)[j] = s[j]
<1>1. Len(s) \in Nat /\ DOMAIN s = 1..Len(s) /\ s[k] \in Instance
  OBVIOUS
<1>2. ASSUME NEW x \in Instance
      PROVE  LET y == [x EXCEPT !.label = l, !.val = v]
             IN  y \in Instance /\ y.label = l /\ y.val = v /\ y.id = x.id
  BY DEF Instance
<1>3. ASSUME NEW y \in Instance
      PROVE  LET b == [s EXCEPT ![k] = y]
             IN  /\ b \in Seq(Instance) /\ Len(b) = Len(s) /\ b[k] = y
                 /\ \A j \in 1..Len(s) : j # k => b[j] = s[j]
  BY <1>1
<1> DEFINE y == [s[k] EXCEPT !.label = l, !.val = v]
<1>4. y \in Instance /\ y.label = l /\ y.val = v /\ y.id = s[k].id
  BY <1>1, <1>2
<1>5. Updated(s, k, l, v) = [s EXCEPT ![k] = y]
  <2>1. s \in [1..Len(s) -> Instance]
    OBVIOUS
  <2>2. ASSUME NEW j \in 1..Len(s) PROVE Updated(s, k, l, v)[j] = [s EXCEPT ![k] = y][j]
    BY <1>1 DEF Updated
  <2> QED
    BY <1>1, <2>2, Zenon DEF Updated
<1> HIDE DEF y
<1> QED
  BY <1>3, <1>4, <1>5

-----------------------------------------------------------------------------
(* AUGDS_OP_RENAME and the value *)

\* So the keys stay unique.
LEMMA UniqueUpdate ==
  ASSUME NEW s \in Seq(Instance), Unique(s), NEW k \in 1..Len(s), NEW l \in Labels, NEW v \in Values
  PROVE  Unique(Updated(s, k, l, v))
<1>1. /\ Len(Updated(s, k, l, v)) = Len(s)
      /\ Updated(s, k, l, v)[k].id = s[k].id
      /\ \A j \in 1..Len(s) : j # k => Updated(s, k, l, v)[j] = s[j]
  BY InstanceUpdate
<1>2. \A j \in 1..Len(s) : Updated(s, k, l, v)[j].id = s[j].id
  BY <1>1
<1> QED
  BY <1>1, <1>2 DEF Unique

\* The arguments of aug_set.
SetType(a, l, i, v) == a \in Seq(Node) /\ l \in Labels /\ v \in Values

\* aug_set makes a tree of nodes, whether it finds the node or creates it.
LEMMA SetTyped ==
  ASSUME NEW a, NEW l, NEW i, NEW v, SetType(a, l, i, v)
  PROVE  aug_set(a, l, i, v) \in Seq(Node)
<1> DEFINE k == Find(a, l, i)
<1>1. a \in Seq(Node) /\ Len(a) \in Nat /\ DOMAIN a = 1..Len(a) /\ v \in Values \cup {NoValue}
  BY NodeFact DEF SetType
<1>2. CASE k = 0
  <2>1. [label |-> l, val |-> v] \in Node
    BY DEF Node, SetType
  <2>2. Append(a, [label |-> l, val |-> v]) \in Seq(Node)
    BY ONLY <1>1, <2>1, AppendProperties
  <2> QED
    BY <1>2, <2>2 DEF aug_set
<1>3. CASE k # 0
  <2>1. k \in 1..Len(a)
    BY <1>1, <1>3, FindIn
  <2> HIDE DEF k
  <2>2. [a EXCEPT ![k].val = v] \in Seq(Node)
    BY <1>1, <2>1, NodeUpdate
  <2> QED
    BY <1>3, <2>2 DEF aug_set, k
<1> QED
  BY <1>2, <1>3

\* The tree after a change, at position pos.
Changed(a, s, k, pos, l, v) ==
  LET ren == [a EXCEPT ![pos].label = l]
  IN  IF v = s[k].val THEN ren
      ELSE aug_set(ren, l, LabelIndex(Updated(s, k, l, v), k), v)

\* A change makes a tree of nodes wherever the path led.
LEMMA ChangedTyped ==
  ASSUME NEW a \in Seq(Node), NEW s, NEW k, NEW pos \in 1..Len(a), NEW l \in Labels, NEW v \in Values
  PROVE  Changed(a, s, k, pos, l, v) \in Seq(Node)
<1> DEFINE ren == [a EXCEPT ![pos].label = l]
<1>1. ren \in Seq(Node)
  BY NodeUpdate
<1> HIDE DEF ren
<1>2. ASSUME NEW i PROVE aug_set(ren, l, i, v) \in Seq(Node)
  <2>1. SetType(ren, l, i, v)
    BY <1>1 DEF SetType
  <2> QED
    BY <2>1, SetTyped
<1> QED
  BY <1>1, <1>2 DEF Changed, ren

\* Rename and value: the index of apply #2, computed from the updated diff_data,
\* names the node that was just renamed.
LEMMA ChangeMirrors ==
  ASSUME NEW a, NEW s, Shows(a, s), NEW k \in 1..Len(s), NEW l \in Labels, NEW v \in Values
  PROVE  Shows(Changed(a, s, k, k, l, v), Updated(s, k, l, v))
<1> DEFINE n == Len(s)
           u == Updated(s, k, l, v)
           b == [a EXCEPT ![k].label = l]
           c == [b EXCEPT ![k].val = v]
<1>1. /\ a \in Seq(Node) /\ s \in Seq(Instance) /\ Len(a) = n /\ n \in Nat /\ k \in 1..n
      /\ k \in 1..Len(a) /\ v \in Values \cup {NoValue}
      /\ \A j \in 1..n : a[j].label = s[j].label /\ a[j].val = s[j].val
  BY InstanceFact DEF Shows
<1>2. /\ u \in Seq(Instance) /\ Len(u) = n
      /\ u[k].label = l /\ u[k].val = v
      /\ \A j \in 1..n : j # k => u[j] = s[j]
  BY <1>1, InstanceUpdate
<1>3. /\ b \in Seq(Node) /\ Len(b) = n
      /\ b[k].label = l /\ b[k].val = a[k].val
      /\ \A j \in 1..n : j # k => b[j] = a[j]
  BY <1>1, NodeUpdate
<1> HIDE DEF b
<1>4. /\ c \in Seq(Node) /\ Len(c) = n
      /\ c[k].label = l /\ c[k].val = v
      /\ \A j \in 1..n : j # k => c[j] = b[j]
  <2>1. k \in 1..Len(b)
    BY <1>1, <1>3
  <2> QED
    BY <1>1, <1>3, <2>1, NodeUpdate
<1> HIDE DEF c, u, n
<1>5. Find(b, l, LabelIndex(u, k)) = k
  <2>1. k \in 1..Len(b) /\ \A j \in 1..k : b[j].label = u[j].label
    BY <1>1, <1>2, <1>3
  <2>2. Find(b, u[k].label, LabelIndex(u, k)) = k
    BY ONLY <1>3, <2>1, FindIndex
  <2> QED
    BY <1>2, <2>2
<1>6. aug_set(b, l, LabelIndex(u, k), v) = c
  BY <1>1, <1>5 DEF aug_set, c
<1>7. CASE v = s[k].val
  <2>1. Changed(a, s, k, k, l, v) = b
    BY <1>7 DEF Changed, b
  <2>2. \A j \in 1..n : b[j].label = u[j].label /\ b[j].val = u[j].val
    BY <1>1, <1>2, <1>3, <1>7
  <2> QED
    BY <1>2, <1>3, <2>1, <2>2 DEF Shows, u
<1>8. CASE v # s[k].val
  <2>1. Changed(a, s, k, k, l, v) = c
    BY <1>6, <1>8 DEF Changed, b, u
  <2>2. \A j \in 1..n : c[j].label = u[j].label /\ c[j].val = u[j].val
    BY <1>1, <1>2, <1>3, <1>4
  <2> QED
    BY <1>2, <1>4, <2>1, <2>2 DEF Shows, u
<1> QED
  BY <1>7, <1>8

-----------------------------------------------------------------------------
(* AUGDS_OP_INSERT *)

\* A new instance is at position k of u, the nodes before it are those of s.
Opens(a, s, u, k) ==
  /\ Shows(a, s) /\ Len(s) >= 1 /\ k \in 1..(Len(s) + 1)
  /\ \A j \in 1..(k - 1) : u[j].label = s[j].label
  /\ k = 1 => u[2].label = s[1].label

\* The node aug_insert makes.
Empty(l) == [label |-> l, val |-> NoValue]

\* The first node with its label has the index 1.
LEMMA IndexOne ==
  ASSUME NEW s
  PROVE  /\ LabelIndex(s, 1) = 1
         /\ s[1].label # s[2].label => LabelIndex(s, 2) = 1
<1>1. {j \in 1..1 : s[j].label = s[1].label} = {1}
  OBVIOUS
<1>2. Cardinality({1}) = 1 /\ Cardinality({2}) = 1
  BY FS_Singleton
<1>3. ASSUME s[1].label # s[2].label PROVE {j \in 1..2 : s[j].label = s[2].label} = {2}
  <2>1. 1..2 = {1, 2}
    OBVIOUS
  <2> QED
    BY <1>3, <2>1
<1> QED
  BY <1>1, <1>2, <1>3 DEF LabelIndex

\* augds_store_diff_insert_anchor_path: the anchor of a new instance on position k
\* exists in the tree and the label is inserted on position k.
LEMMA AnchorMirrors ==
  ASSUME NEW a, NEW s, NEW u, NEW k, Opens(a, s, u, k), NEW l
  PROVE  LET pos == Find(a, u[AnchorOf(k)].label, AnchorIndex(u, k))
         IN  pos # 0 /\ aug_insert(a, pos, l, k = 1) = InsertAt(a, k, Empty(l))
<1> DEFINE n == Len(s)
           pos == Find(a, u[AnchorOf(k)].label, AnchorIndex(u, k))
<1>1. /\ a \in Seq(Node) /\ s \in Seq(Instance) /\ Len(a) = n /\ n \in Nat /\ n >= 1
      /\ k \in 1..(n + 1)
      /\ \A j \in 1..n : a[j].label = s[j].label
      /\ \A j \in 1..(k - 1) : u[j].label = s[j].label
      /\ k = 1 => u[2].label = s[1].label
  BY InstanceFact DEF Opens, Shows
<1>2. CASE k = 1
  <2>1. AnchorOf(k) = 2
    BY <1>2 DEF AnchorOf
  <2>2. AnchorIndex(u, k) = LabelIndex(s, 1)
    <3>1. CASE u[2].label = u[1].label
      <4>1. AnchorIndex(u, k) = LabelIndex(u, 1)
        BY <1>2, <2>1, <3>1 DEF AnchorIndex
      <4> QED
        BY <4>1, IndexOne
    <3>2. CASE u[2].label # u[1].label
      <4>1. AnchorIndex(u, k) = LabelIndex(u, 2)
        BY <1>2, <2>1, <3>2 DEF AnchorIndex
      <4> QED
        BY <3>2, <4>1, IndexOne
    <3> QED
      BY <3>1, <3>2
  <2>3. 1 \in 1..Len(a) /\ \A j \in 1..1 : a[j].label = s[j].label
    BY <1>1
  <2>4. Find(a, s[1].label, LabelIndex(s, 1)) = 1
    BY ONLY <1>1, <2>3, FindIndex
  <2>5. pos = 1
    BY <1>1, <1>2, <2>1, <2>2, <2>4
  <2> HIDE DEF pos
  <2>6. aug_insert(a, pos, l, k = 1) = InsertAt(a, k, Empty(l))
    BY <1>2, <2>5 DEF aug_insert, Empty
  <2> QED
    BY <2>5, <2>6 DEF pos
<1>3. CASE k > 1
  <2>1. AnchorOf(k) = k - 1 /\ k - 1 \in 1..n /\ k # 1 /\ k - 1 + 1 = k /\ k - 1 # 0
    BY <1>1, <1>3 DEF AnchorOf
  <2>2. AnchorIndex(u, k) = LabelIndex(u, k - 1)
    BY <2>1 DEF AnchorIndex
  <2> DEFINE m == k - 1
  <2>3. m \in 1..Len(a) /\ \A j \in 1..m : a[j].label = u[j].label
    BY <1>1, <2>1
  <2>4. Find(a, u[m].label, LabelIndex(u, m)) = m
    <3> HIDE DEF m
    <3> QED
      BY ONLY <1>1, <2>3, FindIndex
  <2>5. pos = m
    BY <2>1, <2>2, <2>4
  <2> HIDE DEF pos
  <2>6. aug_insert(a, pos, l, k = 1) = InsertAt(a, k, Empty(l))
    BY <2>1, <2>5 DEF aug_insert, Empty
  <2> QED
    BY <2>1, <2>5, <2>6 DEF pos
<1> QED
  BY <1>1, <1>2, <1>3

\* AUGDS_OP_INSERT: the value goes to the node that was just inserted.
LEMMA InsertMirrors ==
  ASSUME NEW a, NEW s, Shows(a, s), NEW k \in 1..(Len(s) + 1), NEW x \in Instance
  PROVE  LET u   == InsertAt(s, k, x)
             ins == InsertAt(a, k, Empty(x.label))
         IN  /\ Len(s) >= 1 => Opens(a, s, u, k)
             /\ Shows(aug_set(ins, x.label, LabelIndex(u, k), x.val), u)
<1> DEFINE n == Len(s)
           u == InsertAt(s, k, x)
           b == InsertAt(a, k, Empty(x.label))
           c == [b EXCEPT ![k].val = x.val]
<1>1. /\ a \in Seq(Node) /\ s \in Seq(Instance) /\ Len(a) = n /\ n \in Nat
      /\ k \in 1..(Len(s) + 1) /\ k \in 1..(n + 1) /\ k \in 1..(Len(a) + 1)
      /\ \A j \in 1..n : a[j].label = s[j].label /\ a[j].val = s[j].val
  BY InstanceFact DEF Shows
<1>2. x \in Instance /\ x.label \in Labels /\ x.val \in Values /\ x.val \in Values \cup {NoValue}
  BY DEF Instance
<1>3. Empty(x.label) \in Node /\ Empty(x.label).label = x.label
  BY <1>2 DEF Node, Empty
<1>4. /\ u \in Seq(Instance) /\ Len(u) = n + 1
      /\ \A j \in 1..(k - 1) : u[j] = s[j]
      /\ u[k] = x
      /\ \A j \in (k + 1)..(n + 1) : u[j] = s[j - 1]
  <2>1. Insertable(Instance, s, k, x)
    BY <1>1 DEF Insertable
  <2> QED
    BY ONLY <2>1, InsertAtFact
<1>5. /\ b \in Seq(Node) /\ Len(b) = n + 1
      /\ \A j \in 1..(k - 1) : b[j] = a[j]
      /\ b[k] = Empty(x.label)
      /\ \A j \in (k + 1)..(n + 1) : b[j] = a[j - 1]
  <2>0. Insertable(Node, a, k, Empty(x.label))
    BY <1>1, <1>3 DEF Insertable
  <2>1. /\ b \in Seq(Node) /\ Len(b) = Len(a) + 1
        /\ \A j \in 1..(k - 1) : b[j] = a[j]
        /\ b[k] = Empty(x.label)
        /\ \A j \in (k + 1)..(Len(a) + 1) : b[j] = a[j - 1]
    BY ONLY <2>0, InsertAtFact
  <2> QED
    BY <1>1, <2>1
<1> HIDE DEF b
<1>6. /\ c \in Seq(Node) /\ Len(c) = n + 1
      /\ c[k].label = x.label /\ c[k].val = x.val
      /\ \A j \in 1..(n + 1) : j # k => c[j] = b[j]
  <2>1. k \in 1..Len(b) /\ b[k].label = x.label
    BY <1>1, <1>3, <1>5
  <2>2. /\ c \in Seq(Node) /\ Len(c) = Len(b)
        /\ c[k].label = b[k].label /\ c[k].val = x.val
        /\ \A j \in 1..Len(b) : j # k => c[j] = b[j]
    BY <1>2, <1>5, <2>1, NodeUpdate
  <2> QED
    BY <1>5, <2>1, <2>2
<1> HIDE DEF c, u, n
<1>7. Find(b, x.label, LabelIndex(u, k)) = k
  <2>1. k \in 1..Len(b)
    BY <1>1, <1>5
  <2>2. ASSUME NEW j \in 1..k PROVE b[j].label = u[j].label
    <3>1. CASE j = k
      BY <1>3, <1>4, <1>5, <3>1
    <3>2. CASE j # k
      <4>1. j \in 1..(k - 1) /\ j \in 1..n
        BY <1>1, <3>2
      <4> QED
        BY <1>1, <1>4, <1>5, <4>1
    <3> QED
      BY <3>1, <3>2
  <2>3. Find(b, u[k].label, LabelIndex(u, k)) = k
    BY ONLY <1>5, <2>1, <2>2, FindIndex
  <2> QED
    BY <1>4, <2>3
<1>8. aug_set(b, x.label, LabelIndex(u, k), x.val) = c
  BY <1>1, <1>7 DEF aug_set, c
<1>9. ASSUME NEW j \in 1..(n + 1) PROVE c[j].label = u[j].label /\ c[j].val = u[j].val
  <2>1. CASE j = k
    BY <1>4, <1>6, <2>1
  <2>2. CASE j < k
    <3>1. j \in 1..(k - 1) /\ j \in 1..n /\ j # k
      BY <1>1, <2>2
    <3>2. c[j] = b[j] /\ b[j] = a[j] /\ u[j] = s[j]
      BY <1>4, <1>5, <1>6, <3>1
    <3> QED
      BY <1>1, <3>1, <3>2
  <2>3. CASE j > k
    <3>1. j \in (k + 1)..(n + 1) /\ j - 1 \in 1..n /\ j # k
      BY <1>1, <2>3
    <3>2. c[j] = b[j] /\ b[j] = a[j - 1] /\ u[j] = s[j - 1]
      BY <1>4, <1>5, <1>6, <3>1
    <3> QED
      BY <1>1, <3>1, <3>2
  <2> QED
    BY <1>1, <2>1, <2>2, <2>3
<1>10. Shows(c, u)
  BY <1>4, <1>6, <1>9 DEF Shows
<1>11. ASSUME n >= 1 PROVE Opens(a, s, u, k)
  <2>1. ASSUME k = 1 PROVE u[2].label = s[1].label
    <3>1. 2 \in (k + 1)..(n + 1) /\ 2 - 1 = 1
      BY <1>1, <1>11, <2>1
    <3> QED
      BY ONLY <1>4, <3>1
  <2> QED
    BY <1>1, <1>4, <1>11, <2>1 DEF Opens, n
<1> QED
  BY <1>8, <1>10, <1>11 DEF u, b, n

-----------------------------------------------------------------------------
(* AUGDS_OP_MOVE *)

\* diff_data after the move of the instance on position j to position p.
MovedTo(s, j, p) == InsertAt(RemoveAt(s, j), p, s[j])

\* The moves a diff makes: towards the front.
MoveArgs(s, j, p) ==
  s \in Seq(Instance) /\ Unique(s) /\ j \in 1..Len(s) /\ p \in 1..Len(s) /\ p < j

\* Where the instances are after the move.
LEMMA MoveData ==
  ASSUME NEW s, NEW j, NEW p, MoveArgs(s, j, p)
  PROVE  LET u == MovedTo(s, j, p)
         IN  /\ u \in Seq(Instance) /\ Unique(u) /\ Len(u) = Len(s) /\ At(u, s[j].id) = p
             /\ \A i \in 1..(p - 1) : u[i] = s[i]
             /\ u[p] = s[j]
             /\ \A i \in (p + 1)..j : u[i] = s[i - 1]
             /\ \A i \in (j + 1)..Len(s) : u[i] = s[i]
<1> DEFINE n == Len(s)
           x == s[j]
           r == RemoveAt(s, j)
           u == InsertAt(r, p, x)
<1>1. /\ s \in Seq(Instance) /\ Unique(s) /\ n \in Nat /\ j \in 1..Len(s)
      /\ j \in 1..n /\ p \in 1..n /\ p < j /\ x \in Instance
  BY InstanceFact DEF MoveArgs
<1>2. /\ r \in Seq(Instance) /\ Len(r) = n - 1
      /\ \A i \in 1..(j - 1) : r[i] = s[i]
      /\ \A i \in j..(n - 1) : r[i] = s[i + 1]
  <2>1. s \in Seq(Instance) /\ j \in 1..Len(s)
    BY <1>1
  <2> QED
    BY ONLY <2>1, RemoveAtFact
<1>3. Unique(r) /\ x.id \notin IdsOf(r)
  BY <1>1, RemoveData
<1> HIDE DEF r, x, n
<1>4. p \in 1..(Len(r) + 1) /\ Len(r) + 1 = n
  BY <1>1, <1>2
<1>5. /\ u \in Seq(Instance) /\ Len(u) = Len(r) + 1
      /\ \A i \in 1..(p - 1) : u[i] = r[i]
      /\ u[p] = x
      /\ \A i \in (p + 1)..(Len(r) + 1) : u[i] = r[i - 1]
  <2>1. Insertable(Instance, r, p, x)
    BY <1>1, <1>2, <1>4 DEF Insertable
  <2> QED
    BY ONLY <2>1, InsertAtFact
<1>6. Unique(u) /\ At(u, x.id) = p
  BY <1>1, <1>2, <1>3, <1>4, InsertData
<1> HIDE DEF u
<1>7. ASSUME NEW i \in 1..(p - 1) PROVE u[i] = s[i]
  <2>1. i \in 1..(j - 1)
    BY <1>1
  <2> QED
    BY <1>2, <1>5, <2>1
<1>8. ASSUME NEW i \in (p + 1)..j PROVE u[i] = s[i - 1]
  <2>1. i - 1 \in 1..(j - 1) /\ i \in (p + 1)..(Len(r) + 1)
    BY <1>1, <1>4
  <2>2. u[i] = r[i - 1]
    BY <1>5, <2>1
  <2> QED
    BY <1>2, <2>1, <2>2
<1>9. ASSUME NEW i \in (j + 1)..n PROVE u[i] = s[i]
  <2> DEFINE q == i - 1
  <2>1. q \in j..(n - 1) /\ i \in (p + 1)..(Len(r) + 1) /\ q + 1 = i
    BY <1>1, <1>4
  <2>2. u[i] = r[i - 1]
    BY <1>5, <2>1
  <2>3. r[q] = s[q + 1]
    <3> HIDE DEF q
    <3> QED
      BY <1>2, <2>1
  <2> QED
    BY <2>1, <2>2, <2>3
<1>10. Len(u) = n
  BY <1>4, <1>5
<1>11. MovedTo(s, j, p) = u /\ n = Len(s) /\ x = s[j]
  BY DEF MovedTo, u, r, x, n
<1> QED
  BY <1>5, <1>6, <1>7, <1>8, <1>9, <1>10, <1>11

\* No node with the label of the node at j is between p and j.
Passes(s, j, p) == \A i \in p..(j - 1) : s[i].label # s[j].label

\* The index of a node and that of the next one with its label.
LEMMA FindNext ==
  ASSUME NEW b, NEW n \in Nat, DOMAIN b = 1..n, NEW k \in 1..n, NEW m \in 1..n, k < m,
         b[m].label = b[k].label,
         \A i \in (k + 1)..(m - 1) : b[i].label # b[k].label
  PROVE  Find(b, b[k].label, Cardinality(Before(b, b[k].label, k)) + 1) = m
<1> DEFINE l == b[k].label
           K == Before(b, l, k)
<1>1. Before(b, l, m) = K \cup {m} /\ m \notin K
  BY DEF Before
<1>2. IsFiniteSet(K)
  BY BeforeFact
<1>3. Cardinality(K \cup {m}) = Cardinality(K) + 1
  <2> HIDE DEF K
  <2> QED
    BY <1>1, <1>2, FS_AddElement
<1>4. Find(b, b[m].label, Cardinality(Before(b, b[m].label, m))) = m
  BY FindFact
<1> QED
  BY <1>1, <1>3, <1>4

\* AUGDS_OP_MOVE: if it passes no node with its label, the inserted node has the index
\* the path says and the moved one the index after it.
LEMMA MoveMirrors ==
  ASSUME NEW a, NEW s, Shows(a, s), NEW j, NEW p, MoveArgs(s, j, p), Passes(s, j, p)
  PROVE  LET u   == MovedTo(s, j, p)
             l   == s[j].label
             b   == InsertAt(a, p, Empty(l))
             idx == LabelIndex(u, p)
         IN  /\ Opens(a, s, u, p)
             /\ Find(b, l, idx + 1) # 0
             /\ Shows(aug_mv(b, l, idx + 1, idx), u)
<1> DEFINE n == Len(s)
           u == MovedTo(s, j, p)
           l == s[j].label
           b == InsertAt(a, p, Empty(l))
           idx == LabelIndex(u, p)
           m == j + 1
           v == b[m].val
           c == [b EXCEPT ![p].val = v]
           e == RemoveAt(c, m)
<1>1. /\ a \in Seq(Node) /\ s \in Seq(Instance) /\ Len(a) = n /\ n \in Nat
      /\ j \in 1..n /\ p \in 1..n /\ p < j
      /\ p \in 1..(Len(a) + 1)
      /\ \A i \in 1..n : a[i].label = s[i].label /\ a[i].val = s[i].val
  BY InstanceFact DEF Shows, MoveArgs
<1>2. /\ u \in Seq(Instance) /\ Len(u) = n
      /\ \A i \in 1..(p - 1) : u[i] = s[i]
      /\ u[p] = s[j]
      /\ \A i \in (p + 1)..j : u[i] = s[i - 1]
      /\ \A i \in (j + 1)..n : u[i] = s[i]
  BY MoveData
<1>3. l \in Labels /\ Empty(l) \in Node /\ Empty(l).label = l /\ s[j].val \in Values
  <2>1. l \in Labels /\ s[j].val \in Values
    BY <1>1, InstanceFact
  <2> QED
    BY <2>1 DEF Empty, Node
<1>4. /\ b \in Seq(Node) /\ Len(b) = n + 1
      /\ \A i \in 1..(p - 1) : b[i] = a[i]
      /\ b[p].label = l
      /\ \A i \in (p + 1)..(n + 1) : b[i] = a[i - 1]
  <2>0. Insertable(Node, a, p, Empty(l))
    BY <1>1, <1>3 DEF Insertable
  <2>1. /\ b \in Seq(Node) /\ Len(b) = Len(a) + 1
        /\ \A i \in 1..(p - 1) : b[i] = a[i]
        /\ b[p] = Empty(l)
        /\ \A i \in (p + 1)..(Len(a) + 1) : b[i] = a[i - 1]
    <3> HIDE DEF l
    <3> QED
      BY ONLY <2>0, InsertAtFact
  <2> QED
    BY <1>1, <1>3, <2>1
<1>5. m \in 1..(n + 1) /\ p \in 1..(n + 1) /\ p < m /\ m \in (p + 1)..(n + 1) /\ m - 1 = j
      /\ m \in Nat /\ p \in Nat /\ n + 1 \in Nat /\ j \in Nat
  BY <1>1
<1> HIDE DEF u, b, n, m, v
<1>6. b[m] = a[j] /\ b[m].label = l /\ v = s[j].val
  BY <1>1, <1>4, <1>5 DEF v
<1>7. b \in Seq(Node) /\ p \in 1..Len(b) /\ \A i \in 1..p : b[i].label = u[i].label
  <2>1. p \in 1..Len(b)
    BY <1>4, <1>5
  <2>2. ASSUME NEW i \in 1..p PROVE b[i].label = u[i].label
    <3>1. CASE i = p
      BY <1>2, <1>4, <3>1
    <3>2. CASE i # p
      <4>1. i \in 1..(p - 1) /\ i \in 1..n
        BY <1>1, <3>2
      <4> QED
        BY <1>1, <1>2, <1>4, <4>1
    <3> QED
      BY <3>1, <3>2
  <2> QED
    BY <1>4, <2>1, <2>2
<1>8. Find(b, l, idx) = p
  <2>1. Find(b, u[p].label, LabelIndex(u, p)) = p
    BY ONLY <1>7, FindIndex
  <2> QED
    BY <1>2, <2>1
<1>9. idx = Cardinality(Before(b, b[p].label, p))
  <2>1. u[p].label = b[p].label
    BY <1>2, <1>4
  <2> QED
    BY <1>7, <2>1 DEF LabelIndex, Before
<1> HIDE DEF idx
<1>10. Find(b, l, idx + 1) = m
  <2>1. ASSUME NEW i \in (p + 1)..(m - 1) PROVE b[i].label # b[p].label
    <3>1. i \in (p + 1)..(n + 1) /\ i - 1 \in p..(j - 1) /\ i - 1 \in 1..n
      BY <1>1, <1>5
    <3>2. b[i] = a[i - 1] /\ a[i - 1].label = s[i - 1].label
      BY <1>1, <1>4, <3>1
    <3>3. s[i - 1].label # l
      BY <3>1 DEF Passes
    <3> QED
      BY <1>4, <3>2, <3>3
  <2>2. DOMAIN b = 1..(n + 1)
    BY <1>4, NodeFact
  <2>3. b[m].label = b[p].label
    BY <1>4, <1>6
  <2>4. Find(b, b[p].label, Cardinality(Before(b, b[p].label, p)) + 1) = m
    BY ONLY <1>5, <2>1, <2>2, <2>3, FindNext
  <2> QED
    BY <1>4, <1>9, <2>4
<1>11. /\ c \in Seq(Node) /\ Len(c) = n + 1
       /\ c[p].label = l /\ c[p].val = s[j].val
       /\ \A i \in 1..(n + 1) : i # p => c[i] = b[i]
  <2>1. b \in Seq(Node) /\ p \in 1..Len(b) /\ v \in Values \cup {NoValue}
    BY <1>3, <1>4, <1>5, <1>6
  <2>2. /\ c \in Seq(Node) /\ Len(c) = Len(b)
        /\ c[p].label = b[p].label /\ c[p].val = v
        /\ \A i \in 1..Len(b) : i # p => c[i] = b[i]
    BY ONLY <2>1, NodeUpdate
  <2> QED
    BY <1>4, <1>6, <2>2
<1>12. aug_mv(b, l, idx + 1, idx) = e
  <2>1. p # 0
    BY <1>5
  <2> QED
    BY <1>8, <1>10, <2>1, Zenon DEF aug_mv, e, c, v
<1> HIDE DEF c
<1>13. /\ e \in Seq(Node) /\ Len(e) = n
       /\ \A i \in 1..(m - 1) : e[i] = c[i]
       /\ \A i \in m..n : e[i] = c[i + 1]
  <2>1. c \in Seq(Node) /\ m \in 1..Len(c)
    BY <1>5, <1>11
  <2>2. /\ e \in Seq(Node) /\ Len(e) = Len(c) - 1
        /\ \A i \in 1..(m - 1) : e[i] = c[i]
        /\ \A i \in m..(Len(c) - 1) : e[i] = c[i + 1]
    BY ONLY <2>1, RemoveAtFact
  <2>3. Len(c) - 1 = n
    BY <1>1, <1>11
  <2> QED
    BY ONLY <2>2, <2>3
<1> HIDE DEF e
<1>14. ASSUME NEW i \in 1..n PROVE e[i].label = u[i].label /\ e[i].val = u[i].val
  <2>1. CASE i = p
    <3>1. p \in 1..(m - 1)
      BY <1>1, <1>5
    <3> QED
      BY <1>2, <1>11, <1>13, <2>1, <3>1
  <2>2. CASE i < p
    <3>1. i \in 1..(m - 1) /\ i \in 1..(p - 1) /\ i # p /\ i \in 1..(n + 1)
      BY <1>1, <1>5, <2>2
    <3>2. e[i] = c[i] /\ c[i] = b[i] /\ b[i] = a[i] /\ u[i] = s[i]
      BY <1>2, <1>4, <1>11, <1>13, <3>1
    <3> QED
      BY <1>1, <3>2
  <2>3. CASE i > p /\ i <= j
    <3>1. /\ i \in 1..(m - 1) /\ i \in (p + 1)..j /\ i # p /\ i \in 1..(n + 1)
          /\ i \in (p + 1)..(n + 1) /\ i - 1 \in 1..n
      BY <1>1, <1>5, <2>3
    <3>2. e[i] = c[i] /\ c[i] = b[i] /\ b[i] = a[i - 1] /\ u[i] = s[i - 1]
      BY <1>2, <1>4, <1>11, <1>13, <3>1
    <3> QED
      BY <1>1, <3>1, <3>2
  <2>4. CASE i > j
    <3> DEFINE q == i + 1
    <3>1. /\ i \in m..n /\ q # p /\ q \in 1..(n + 1)
          /\ q \in (p + 1)..(n + 1) /\ q - 1 = i /\ i \in (j + 1)..n
      BY <1>1, <1>5, <2>4 DEF m
    <3>2. e[i] = c[q] /\ u[i] = s[i]
      BY <1>2, <1>13, <3>1
    <3> HIDE DEF q
    <3>3. c[q] = b[q] /\ b[q] = a[q - 1]
      BY <1>4, <1>11, <3>1
    <3> QED
      BY <1>1, <3>1, <3>2, <3>3
  <2> QED
    BY <1>1, <2>1, <2>2, <2>3, <2>4
<1>15. Shows(e, u)
  BY <1>2, <1>13, <1>14 DEF Shows
<1>16. Opens(a, s, u, p)
  <2>1. ASSUME p = 1 PROVE u[2].label = s[1].label
    <3>1. 2 \in (p + 1)..j /\ 2 - 1 = 1
      BY <1>1, <2>1
    <3> QED
      BY ONLY <1>2, <3>1
  <2>2. n >= 1 /\ p \in 1..(n + 1)
    BY <1>1
  <2> QED
    BY <1>2, <2>1, <2>2 DEF Opens, n
<1> QED
  BY <1>5, <1>10, <1>12, <1>15, <1>16 DEF u, b, idx

-----------------------------------------------------------------------------
(* Counting the nodes with a label *)

\* A set of numbers has a least one.
LEMMA NatMin ==
  ASSUME NEW T \in SUBSET Nat, T # {}
  PROVE  \E x \in T : \A y \in T : x <= y
<1> DEFINE R == OpToRel(<, Nat)
<1>1. \E x \in T : \A y \in T : ~ (<<y, x>> \in R)
  BY NatLessThanWellFounded, WFMin
<1>2. \A x, y \in Nat : y < x => <<y, x>> \in R
  BY Zenon DEF OpToRel
<1> HIDE DEF R
<1>3. PICK x \in T : \A y \in T : ~ (<<y, x>> \in R)
  BY <1>1
<1>4. ASSUME NEW y \in T PROVE x <= y
  <2>1. ~(y < x) /\ x \in Nat /\ y \in Nat
    BY <1>2, <1>3
  <2> QED
    BY <2>1
<1> QED
  BY <1>4

\* The number of nodes of s with the label.
Count(s, l) == Cardinality(Before(s, l, Len(s)))

\* An index is at least 1 and at most the number of nodes with the label.
LEMMA IndexRange ==
  ASSUME NEW s, Len(s) \in Nat, NEW k \in 1..Len(s)
  PROVE  LabelIndex(s, k) \in 1..Count(s, s[k].label)
<1> DEFINE l == s[k].label
           B == Before(s, l, k)
           A == Before(s, l, Len(s))
<1>1. k \in Nat /\ k \in 0..Len(s) /\ Len(s) \in Nat
  OBVIOUS
<1>2. IsFiniteSet(A) /\ B \in SUBSET A /\ Cardinality(A) \in Nat /\ Cardinality(B) \in Nat
  BY <1>1, BeforeFact
<1>3. IsFiniteSet(B)
  BY <1>1, BeforeFact
<1>4. k \in B
  BY <1>1 DEF Before
<1>5. LabelIndex(s, k) = Cardinality(B) /\ Count(s, l) = Cardinality(A)
  BY DEF LabelIndex, Count, Before
<1> HIDE DEF A, B
<1>6. Cardinality(B) <= Cardinality(A)
  BY ONLY <1>2, FS_Subset
<1>7. Cardinality(B) # 0
  BY <1>3, <1>4, FS_EmptySet
<1> QED
  BY <1>2, <1>5, <1>6, <1>7

\* And every such index is found: of the positions with enough nodes up to them,
\* the first one has the label and the index.
LEMMA FindExists ==
  ASSUME NEW s, NEW n \in Nat, DOMAIN s = 1..n, Len(s) = n, NEW l, NEW idx \in 1..Count(s, l)
  PROVE  Find(s, l, idx) \in 1..n /\ s[Find(s, l, idx)].label = l
<1> DEFINE C(k) == Cardinality(Before(s, l, k))
           T == {k \in 0..n : C(k) >= idx}
<1>1. ASSUME NEW k \in 0..n PROVE IsFiniteSet(Before(s, l, k)) /\ C(k) \in Nat
  BY BeforeFact
<1>2. C(n) = Count(s, l) /\ C(n) \in Nat
  BY <1>1 DEF Count
<1>3. C(0) = 0
  <2>1. Before(s, l, 0) = {}
    BY DEF Before
  <2> QED
    BY <2>1, FS_EmptySet
<1>4. idx \in Nat /\ idx >= 1 /\ C(n) >= idx
  BY <1>2
<1> HIDE DEF C
<1>5. n \in T /\ T \in SUBSET Nat
  BY <1>4
<1>6. PICK m \in T : \A y \in T : m <= y
  BY <1>5, NatMin
<1>7. m # 0 /\ m \in 1..n /\ m - 1 \in 0..n /\ m - 1 + 1 = m
  BY <1>3, <1>4, <1>6
<1>8. C(m - 1) < idx
  <2>1. m - 1 \notin T
    BY <1>6, <1>7
  <2>2. C(m - 1) \in Nat
    BY <1>1, <1>7
  <2> QED
    BY <1>4, <1>7, <2>1, <2>2
<1>9. s[m].label = l /\ C(m) = idx
  <2> DEFINE p == m - 1
             P == Before(s, l, p)
             M == Before(s, l, m)
  <2>1. 1..m = (1..p) \cup {m} /\ m \notin 1..p
    BY <1>7
  <2>2. IsFiniteSet(P) /\ C(p) = Cardinality(P) /\ C(m) = Cardinality(M) /\ C(p) \in Nat /\ C(m) \in Nat
    BY <1>1, <1>7 DEF C
  <2>3. C(m) >= idx
    BY <1>6
  <2>4. ASSUME s[m].label # l PROVE FALSE
    <3>1. M = P
      BY <2>1, <2>4 DEF Before
    <3>2. C(m) = C(p)
      BY <2>2, <3>1
    <3> QED
      BY <1>4, <1>8, <2>2, <2>3, <3>2
  <2>5. M = P \cup {m} /\ m \notin P
    BY <2>1, <2>4 DEF Before
  <2> HIDE DEF P, M
  <2>6. Cardinality(P \cup {m}) = Cardinality(P) + 1
    BY <2>2, <2>5, FS_AddElement
  <2>7. C(m) = C(p) + 1
    BY <2>2, <2>5, <2>6
  <2> QED
    BY <1>4, <1>8, <2>2, <2>3, <2>4, <2>7
<1> DEFINE A == {k \in DOMAIN s : /\ s[k].label = l
                                  /\ Cardinality({j \in 1..k : s[j].label = l}) = idx}
<1>10. m \in A
  BY <1>7, <1>9 DEF C, Before
<1>11. Find(s, l, idx) = IF A = {} THEN 0 ELSE CHOOSE k \in A : TRUE
  BY DEF Find
<1>12. Find(s, l, idx) \in A
  <2> HIDE DEF A
  <2> QED
    BY <1>10, <1>11
<1> QED
  BY <1>12

\* u is s with one more node, on position k.
Opened(u, s, k) ==
  /\ Len(s) \in Nat /\ Len(u) = Len(s) + 1 /\ k \in 1..Len(u)
  /\ \A j \in 1..(k - 1) : u[j].label = s[j].label
  /\ \A j \in (k + 1)..Len(u) : u[j].label = s[j - 1].label

\* One more node with its label, none with another.
LEMMA CountOpened ==
  ASSUME NEW u, NEW s, NEW k, Opened(u, s, k), NEW l
  PROVE  /\ Count(s, l) \in Nat
         /\ Count(u, l) = IF u[k].label = l THEN Count(s, l) + 1 ELSE Count(s, l)
<1> DEFINE n == Len(s)
           S == Before(s, l, n)
           U == Before(u, l, n + 1)
           Shift(j) == IF j < k THEN j ELSE j + 1
           f == [j \in S |-> Shift(j)]
<1>1. /\ n \in Nat /\ k \in 1..(n + 1) /\ Len(u) = n + 1
      /\ \A j \in 1..(k - 1) : u[j].label = s[j].label
      /\ \A j \in (k + 1)..(n + 1) : u[j].label = s[j - 1].label
  BY DEF Opened
<1>2. Count(s, l) = Cardinality(S) /\ Count(u, l) = Cardinality(U)
  BY <1>1 DEF Count
<1> HIDE DEF n
<1>3. IsFiniteSet(S) /\ Cardinality(S) \in Nat /\ IsFiniteSet(U)
  BY <1>1, BeforeFact
<1>4. ASSUME NEW j \in S PROVE Shift(j) \in U \ {k}
  <2>1. j \in 1..n /\ s[j].label = l
    BY DEF Before
  <2>2. CASE j < k
    <3>1. j \in 1..(k - 1) /\ j \in 1..(n + 1) /\ j # k /\ Shift(j) = j
      BY <1>1, <2>1, <2>2
    <3> QED
      BY <1>1, <2>1, <3>1 DEF Before
  <2>3. CASE ~(j < k)
    <3> DEFINE q == j + 1
    <3>1. q \in (k + 1)..(n + 1) /\ q \in 1..(n + 1) /\ q # k /\ Shift(j) = q /\ q - 1 = j
      BY <1>1, <2>1, <2>3
    <3> HIDE DEF q
    <3>2. u[q].label = s[j].label
      BY <1>1, <3>1
    <3> QED
      BY <2>1, <3>1, <3>2 DEF Before
  <2> QED
    BY <2>2, <2>3
<1>5. ASSUME NEW t \in U \ {k} PROVE \E j \in S : Shift(j) = t
  <2>1. t \in 1..(n + 1) /\ u[t].label = l /\ t # k
    BY DEF Before
  <2>2. CASE t < k
    <3>1. t \in 1..(k - 1) /\ t \in 1..n /\ Shift(t) = t
      BY <1>1, <2>1, <2>2
    <3>2. t \in S
      BY <1>1, <2>1, <3>1 DEF Before
    <3> QED
      BY <3>1, <3>2
  <2>3. CASE t > k
    <3>1. t \in (k + 1)..(n + 1) /\ t - 1 \in 1..n /\ Shift(t - 1) = t
      BY <1>1, <2>1, <2>3
    <3>2. t - 1 \in S
      BY <1>1, <2>1, <3>1 DEF Before
    <3> QED
      BY <3>1, <3>2
  <2> QED
    BY <1>1, <2>1, <2>2, <2>3
<1>6. \A i, j \in S : Shift(i) = Shift(j) => i = j
  <2>1. S \in SUBSET (1..n)
    BY DEF Before
  <2> HIDE DEF S
  <2> QED
    BY <1>1, <2>1
<1> HIDE DEF S, U, Shift
<1>7. f \in [S -> U \ {k}]
  BY <1>4
<1>8. (\A a, b \in S : f[a] = f[b] => a = b) /\ (\A t \in U \ {k} : \E j \in S : f[j] = t)
  BY <1>5, <1>6
<1> HIDE DEF f
<1>9. f \in Bijection(S, U \ {k})
  BY ONLY <1>7, <1>8, Fun_IsBij
<1>10. Cardinality(U \ {k}) = Cardinality(S) /\ IsFiniteSet(U \ {k})
  <2>1. ExistsBijection(S, U \ {k})
    BY <1>9 DEF ExistsBijection
  <2> QED
    BY ONLY <1>3, <2>1, FS_Bijection
<1>11. k \in U <=> u[k].label = l
  BY <1>1 DEF U, Before
<1>12. CASE u[k].label = l
  <2>1. U = (U \ {k}) \cup {k}
    BY <1>11, <1>12
  <2>2. Cardinality((U \ {k}) \cup {k}) = Cardinality(U \ {k}) + 1
    <3> DEFINE V == U \ {k}
    <3>1. k \notin V /\ IsFiniteSet(V)
      BY <1>10
    <3> HIDE DEF V
    <3>2. Cardinality(V \cup {k}) = Cardinality(V) + 1
      BY <3>1, FS_AddElement
    <3> QED
      BY <3>2 DEF V
  <2>3. Cardinality(U) = Cardinality(S) + 1
    BY <1>10, <2>1, <2>2
  <2> QED
    BY <1>2, <1>3, <1>12, <2>3
<1>13. CASE u[k].label # l
  <2>1. U = U \ {k}
    BY <1>11, <1>13
  <2> QED
    BY <1>2, <1>3, <1>10, <1>13, <2>1
<1> QED
  BY <1>12, <1>13

-----------------------------------------------------------------------------
(* The two trees have the same labels, whatever was moved *)

\* The tree has as many nodes with a label as diff_data has instances.
SameLabels(a, s) == \A l \in Labels : Count(a, l) = Count(s, l)

\* InsertAt opens the sequence.
LEMMA OpenedInsert ==
  ASSUME NEW S, NEW s, NEW i, NEW e, Insertable(S, s, i, e)
  PROVE  Opened(InsertAt(s, i, e), s, i) /\ InsertAt(s, i, e)[i] = e
<1> DEFINE u == InsertAt(s, i, e)
<1>1. /\ Len(u) = Len(s) + 1
      /\ \A j \in 1..(i - 1) : u[j] = s[j]
      /\ u[i] = e
      /\ \A j \in (i + 1)..(Len(s) + 1) : u[j] = s[j - 1]
  BY InsertAtFact
<1>2. Len(s) \in Nat /\ i \in 1..(Len(s) + 1)
  BY DEF Insertable
<1> HIDE DEF u
<1>3. Opened(u, s, i)
  BY <1>1, <1>2 DEF Opened
<1> QED
  BY <1>1, <1>3 DEF u

\* RemoveAt is its reverse.
LEMMA OpenedRemove ==
  ASSUME NEW S, NEW s \in Seq(S), NEW i \in 1..Len(s)
  PROVE  Opened(s, RemoveAt(s, i), i)
<1> DEFINE r == RemoveAt(s, i)
           n == Len(r)
<1>0. Len(s) \in Nat /\ s \in Seq(S) /\ i \in 1..Len(s)
  OBVIOUS
<1>1. /\ Len(r) = Len(s) - 1
      /\ \A j \in 1..(i - 1) : r[j] = s[j]
      /\ \A j \in i..(Len(s) - 1) : r[j] = s[j + 1]
  BY ONLY <1>0, RemoveAtFact
<1> HIDE DEF r
<1>2. n \in Nat /\ Len(s) = n + 1
  BY <1>0, <1>1
<1>3. ASSUME NEW j \in (i + 1)..Len(s) PROVE s[j].label = r[j - 1].label
  <2> DEFINE q == j - 1
  <2>1. q \in i..(Len(s) - 1) /\ q + 1 = j
    BY <1>0
  <2> HIDE DEF q
  <2>2. r[q] = s[j]
    BY <1>1, <2>1
  <2> QED
    BY <2>2 DEF q
<1>4. Opened(s, r, i)
  BY <1>0, <1>1, <1>2, <1>3 DEF Opened
<1> QED
  BY <1>4 DEF r

\* Only the labels count.
LEMMA CountSame ==
  ASSUME NEW a, NEW b, Len(a) = Len(b), \A j \in 1..Len(a) : a[j].label = b[j].label, NEW l
  PROVE  Count(a, l) = Count(b, l)
<1>1. Before(a, l, Len(a)) = Before(b, l, Len(b))
  BY DEF Before
<1> QED
  BY <1>1 DEF Count

\* A value changes no count.
LEMMA CountVal ==
  ASSUME NEW a \in Seq(Node), NEW k \in 1..Len(a), NEW v \in Values \cup {NoValue}, NEW l
  PROVE  Count([a EXCEPT ![k].val = v], l) = Count(a, l)
<1> DEFINE b == [a EXCEPT ![k].val = v]
<1>1. /\ Len(b) = Len(a) /\ b[k].label = a[k].label
      /\ \A j \in 1..Len(a) : j # k => b[j] = a[j]
  BY NodeUpdate
<1> HIDE DEF b
<1>2. \A j \in 1..Len(b) : b[j].label = a[j].label
  BY <1>1
<1>3. Count(b, l) = Count(a, l)
  BY ONLY <1>1, <1>2, CountSame
<1> QED
  BY <1>3 DEF b

\* Both trees are typed and have the same labels.
Even(a, s) == a \in Seq(Node) /\ s \in Seq(Instance) /\ SameLabels(a, s)

\* A path computed from s names a node of a with that label.
LEMMA PathFound ==
  ASSUME NEW a, NEW s, Even(a, s), NEW k \in 1..Len(s)
  PROVE  LET pos == Find(a, s[k].label, LabelIndex(s, k))
         IN  pos \in 1..Len(a) /\ a[pos].label = s[k].label
<1> DEFINE l == s[k].label
           idx == LabelIndex(s, k)
<1>1. a \in Seq(Node) /\ s \in Seq(Instance) /\ Len(s) \in Nat /\ l \in Labels
  BY InstanceFact DEF Even
<1>2. Len(a) \in Nat /\ DOMAIN a = 1..Len(a)
  BY <1>1, NodeFact
<1>3. idx \in 1..Count(s, l)
  BY <1>1, IndexRange
<1>4. idx \in 1..Count(a, l)
  BY <1>1, <1>3 DEF Even, SameLabels
<1> HIDE DEF idx, l
<1>5. Find(a, l, idx) \in 1..Len(a) /\ a[Find(a, l, idx)].label = l
  BY ONLY <1>2, <1>4, FindExists
<1> QED
  BY <1>5 DEF idx, l

\* One more, or one less, with the same label in both.
LEMMA EvenOpened ==
  ASSUME NEW a, NEW b, NEW p, Opened(b, a, p), NEW s, NEW u, NEW k, Opened(u, s, k),
         b[p].label = u[k].label
  PROVE  SameLabels(b, u) <=> SameLabels(a, s)
<1>1. ASSUME NEW l \in Labels PROVE Count(b, l) = Count(u, l) <=> Count(a, l) = Count(s, l)
  <2>1. /\ Count(a, l) \in Nat
        /\ Count(b, l) = IF b[p].label = l THEN Count(a, l) + 1 ELSE Count(a, l)
    BY CountOpened
  <2>2. /\ Count(s, l) \in Nat
        /\ Count(u, l) = IF u[k].label = l THEN Count(s, l) + 1 ELSE Count(s, l)
    BY CountOpened
  <2>3. CASE u[k].label = l
    BY <2>1, <2>2, <2>3
  <2>4. CASE u[k].label # l
    BY <2>1, <2>2, <2>4
  <2> QED
    BY <2>3, <2>4
<1> QED
  BY <1>1 DEF SameLabels

\* AUGDS_OP_DELETE takes the same label from both.
LEMMA DeleteEven ==
  ASSUME NEW a, NEW s, Even(a, s), NEW k \in 1..Len(s)
  PROVE  LET pos == Find(a, s[k].label, LabelIndex(s, k))
         IN  pos # 0 /\ SameLabels(RemoveAt(a, pos), RemoveAt(s, k))
<1> DEFINE pos == Find(a, s[k].label, LabelIndex(s, k))
<1>1. pos \in 1..Len(a) /\ a[pos].label = s[k].label
  BY PathFound
<1> HIDE DEF pos
<1>2. a \in Seq(Node) /\ s \in Seq(Instance) /\ Len(a) \in Nat
  BY NodeFact DEF Even
<1>3. Opened(a, RemoveAt(a, pos), pos)
  BY ONLY <1>1, <1>2, OpenedRemove
<1>4. Opened(s, RemoveAt(s, k), k)
  BY <1>2, OpenedRemove
<1>5. SameLabels(RemoveAt(a, pos), RemoveAt(s, k))
  BY <1>1, <1>3, <1>4, EvenOpened DEF Even
<1>6. pos # 0
  BY <1>1, <1>2
<1> QED
  BY <1>5, <1>6 DEF pos

\* The value goes to a node that exists, so no label is added.
LEMMA SetEven ==
  ASSUME NEW a, NEW s, Even(a, s), NEW k \in 1..Len(s), NEW v \in Values
  PROVE  SameLabels(aug_set(a, s[k].label, LabelIndex(s, k), v), s)
<1> DEFINE pos == Find(a, s[k].label, LabelIndex(s, k))
           b == [a EXCEPT ![pos].val = v]
<1>1. pos \in 1..Len(a)
  BY PathFound
<1>2. a \in Seq(Node) /\ Len(a) \in Nat /\ v \in Values \cup {NoValue}
  BY NodeFact DEF Even
<1>3. pos # 0
  BY <1>1, <1>2
<1>4. aug_set(a, s[k].label, LabelIndex(s, k), v) = b
  BY <1>3 DEF aug_set
<1> HIDE DEF pos
<1>5. \A l \in Labels : Count(b, l) = Count(a, l)
  BY <1>1, <1>2, CountVal
<1> HIDE DEF b
<1> QED
  BY <1>4, <1>5 DEF Even, SameLabels

\* AUGDS_OP_RENAME and the value: one label is replaced by the same in both.
LEMMA ChangeEven ==
  ASSUME NEW a, NEW s, Even(a, s), NEW k \in 1..Len(s), NEW l \in Labels, NEW v \in Values
  PROVE  LET pos == Find(a, s[k].label, LabelIndex(s, k))
         IN  pos # 0 /\ SameLabels(Changed(a, s, k, pos, l, v), Updated(s, k, l, v))
<1> DEFINE pos == Find(a, s[k].label, LabelIndex(s, k))
           u == Updated(s, k, l, v)
           b == [a EXCEPT ![pos].label = l]
           ra == RemoveAt(a, pos)
           rs == RemoveAt(s, k)
<1>1. pos \in 1..Len(a)
  BY PathFound
<1>2. a \in Seq(Node) /\ s \in Seq(Instance) /\ Len(a) \in Nat /\ k \in 1..Len(s)
  BY NodeFact DEF Even
<1>3. pos # 0 /\ SameLabels(ra, rs)
  BY DeleteEven
<1> HIDE DEF pos
<1>4. /\ u \in Seq(Instance) /\ Len(u) = Len(s) /\ u[k].label = l
      /\ \A j \in 1..Len(s) : j # k => u[j] = s[j]
  BY <1>2, InstanceUpdate
<1>5. /\ b \in Seq(Node) /\ Len(b) = Len(a) /\ b[pos].label = l
      /\ \A j \in 1..Len(a) : j # pos => b[j] = a[j]
  BY <1>1, <1>2, NodeUpdate
<1>6. Opened(a, ra, pos)
  BY ONLY <1>1, <1>2, OpenedRemove
<1>7. Opened(s, rs, k)
  BY <1>2, OpenedRemove
<1> HIDE DEF u, b, ra, rs
<1>8. Opened(b, ra, pos)
  <2>1. /\ \A j \in 1..(pos - 1) : j \in 1..Len(a) /\ j # pos
        /\ \A j \in (pos + 1)..Len(a) : j \in 1..Len(a) /\ j # pos
    BY <1>1, <1>2
  <2> QED
    BY <1>5, <1>6, <2>1 DEF Opened
<1>9. Opened(u, rs, k)
  <2>1. Len(s) \in Nat
    BY <1>2, InstanceFact
  <2>2. /\ \A j \in 1..(k - 1) : j \in 1..Len(s) /\ j # k
        /\ \A j \in (k + 1)..Len(s) : j \in 1..Len(s) /\ j # k
    BY <1>2, <2>1
  <2> QED
    BY <1>4, <1>7, <2>2 DEF Opened
<1>10. SameLabels(b, u)
  BY <1>3, <1>4, <1>5, <1>8, <1>9, EvenOpened
<1>11. SameLabels(aug_set(b, l, LabelIndex(u, k), v), u)
  <2>1. Even(b, u) /\ k \in 1..Len(u)
    BY <1>2, <1>4, <1>5, <1>10 DEF Even
  <2>2. SameLabels(aug_set(b, u[k].label, LabelIndex(u, k), v), u)
    BY <2>1, SetEven
  <2> QED
    BY <1>4, <2>2
<1>12. Changed(a, s, k, pos, l, v) = b \/ Changed(a, s, k, pos, l, v) = aug_set(b, l, LabelIndex(u, k), v)
  BY Zenon DEF Changed, b, u
<1>13. SameLabels(Changed(a, s, k, pos, l, v), u)
  BY <1>10, <1>11, <1>12
<1> QED
  BY <1>3, <1>13 DEF pos, u

\* What is found has the label, and an index in range.
LEMMA FindRange ==
  ASSUME NEW s, NEW n \in Nat, DOMAIN s = 1..n, Len(s) = n, NEW l, NEW idx, Find(s, l, idx) # 0
  PROVE  idx \in 1..Count(s, l) /\ s[Find(s, l, idx)].label = l /\ Find(s, l, idx) \in 1..n
<1> DEFINE A == {k \in DOMAIN s : /\ s[k].label = l
                                  /\ Cardinality({j \in 1..k : s[j].label = l}) = idx}
           k == Find(s, l, idx)
<1>1. k = IF A = {} THEN 0 ELSE CHOOSE i \in A : TRUE
  BY DEF Find
<1>2. k \in A
  <2> HIDE DEF A
  <2> QED
    BY <1>1
<1>3. k \in 1..n /\ s[k].label = l /\ LabelIndex(s, k) = idx
  BY <1>2 DEF LabelIndex
<1> HIDE DEF k
<1>4. LabelIndex(s, k) \in 1..Count(s, s[k].label)
  BY <1>3, IndexRange
<1> QED
  BY <1>3, <1>4 DEF k

\* The anchor exists: its index is one that diff_data had before the new instance.
LEMMA AnchorEven ==
  ASSUME NEW a, NEW s, Even(a, s), NEW u, NEW k, Opens(Image(s), s, u, k)
  PROVE  Find(a, u[AnchorOf(k)].label, AnchorIndex(u, k)) \in 1..Len(a)
<1> DEFINE l == u[AnchorOf(k)].label
           idx == AnchorIndex(u, k)
           b == Image(s)
<1>1. a \in Seq(Node) /\ s \in Seq(Instance) /\ Len(s) \in Nat
  BY InstanceFact DEF Even
<1>2. /\ b \in Seq(Node) /\ Len(b) = Len(s)
      /\ \A j \in 1..Len(s) : b[j].label = s[j].label
  BY <1>1, ImageFact
<1>3. Find(b, l, idx) # 0
  BY AnchorMirrors
<1>4. Len(b) \in Nat /\ DOMAIN b = 1..Len(b)
  BY <1>2, NodeFact
<1> HIDE DEF b, l, idx
<1>5. idx \in 1..Count(b, l) /\ b[Find(b, l, idx)].label = l /\ Find(b, l, idx) \in 1..Len(b)
  BY ONLY <1>3, <1>4, FindRange
<1>6. l \in Labels
  <2>1. s[Find(b, l, idx)].label \in Labels
    BY <1>1, <1>2, <1>5, InstanceFact
  <2> QED
    BY <1>2, <1>5, <2>1
<1>7. Count(b, l) = Count(s, l)
  BY <1>2, CountSame
<1>8. idx \in 1..Count(a, l)
  BY <1>5, <1>6, <1>7 DEF Even, SameLabels
<1>9. Len(a) \in Nat /\ DOMAIN a = 1..Len(a)
  BY <1>1, NodeFact
<1>10. Find(a, l, idx) \in 1..Len(a)
  BY ONLY <1>8, <1>9, FindExists
<1> QED
  BY <1>10 DEF l, idx

\* aug_insert adds one node with the label.
LEMMA InsertOpens ==
  ASSUME NEW a \in Seq(Node), NEW pos \in 1..Len(a), NEW l \in Labels, NEW before \in BOOLEAN
  PROVE  LET b == aug_insert(a, pos, l, before)
         IN  b \in Seq(Node) /\ \E q \in 1..(Len(a) + 1) : Opened(b, a, q) /\ b[q].label = l
<1> DEFINE b == aug_insert(a, pos, l, before)
           q == IF before THEN pos ELSE pos + 1
<1>1. Empty(l) \in Node /\ Empty(l).label = l
  BY DEF Empty, Node
<1>2. q \in 1..(Len(a) + 1)
  OBVIOUS
<1>3. b = InsertAt(a, q, Empty(l))
  BY DEF aug_insert, Empty
<1> HIDE DEF q, b
<1>4. Insertable(Node, a, q, Empty(l))
  BY <1>1, <1>2 DEF Insertable
<1>5. Opened(b, a, q) /\ b[q].label = l
  BY <1>1, <1>3, <1>4, OpenedInsert
<1>6. b \in Seq(Node)
  BY <1>3, <1>4, InsertAtFact
<1> QED
  BY <1>2, <1>5, <1>6 DEF b

\* AUGDS_OP_INSERT adds the same label to both.
LEMMA InsertEven ==
  ASSUME NEW a, NEW s, Even(a, s), Len(s) >= 1, NEW k \in 1..(Len(s) + 1), NEW x \in Instance
  PROVE  LET u   == InsertAt(s, k, x)
             pos == Find(a, u[AnchorOf(k)].label, AnchorIndex(u, k))
             ins == aug_insert(a, pos, x.label, k = 1)
         IN  pos # 0 /\ SameLabels(aug_set(ins, x.label, LabelIndex(u, k), x.val), u)
<1> DEFINE u == InsertAt(s, k, x)
           pos == Find(a, u[AnchorOf(k)].label, AnchorIndex(u, k))
           b == aug_insert(a, pos, x.label, k = 1)
<1>1. /\ a \in Seq(Node) /\ s \in Seq(Instance) /\ Len(s) \in Nat
      /\ x.label \in Labels /\ x.val \in Values /\ Len(a) \in Nat
  BY InstanceFact, NodeFact DEF Even, Instance
<1>2. Opens(Image(s), s, u, k)
  <2>1. Shows(Image(s), s)
    BY <1>1, ShowsIsImage
  <2> QED
    BY <2>1, InsertMirrors
<1>3. pos \in 1..Len(a)
  BY <1>2, AnchorEven
<1>4. Insertable(Instance, s, k, x)
  BY <1>1 DEF Insertable
<1>5. Opened(u, s, k) /\ u[k] = x /\ u \in Seq(Instance) /\ Len(u) = Len(s) + 1
  BY ONLY <1>4, OpenedInsert, InsertAtFact
<1> HIDE DEF pos, u
<1>6. b \in Seq(Node) /\ \E q \in 1..(Len(a) + 1) : Opened(b, a, q) /\ b[q].label = x.label
  BY <1>1, <1>3, InsertOpens
<1>7. PICK q \in 1..(Len(a) + 1) : Opened(b, a, q) /\ b[q].label = x.label
  BY <1>6
<1> HIDE DEF b
<1>8. SameLabels(b, u)
  <2>1. SameLabels(a, s) /\ b[q].label = u[k].label
    BY <1>5, <1>7 DEF Even
  <2> QED
    BY ONLY <1>5, <1>7, <2>1, EvenOpened
<1>9. Even(b, u) /\ k \in 1..Len(u)
  BY <1>5, <1>6, <1>8 DEF Even
<1>10. SameLabels(aug_set(b, u[k].label, LabelIndex(u, k), x.val), u)
  BY <1>1, <1>9, SetEven
<1>11. pos # 0
  BY <1>1, <1>3
<1> QED
  BY <1>5, <1>10, <1>11 DEF b, pos, u

\* The first instance: no node has the label yet, so aug_set adds one.
LEMMA FirstEven ==
  ASSUME NEW a, NEW s, Even(a, s), Len(s) = 0, NEW x \in Instance, NEW i
  PROVE  SameLabels(aug_set(a, x.label, i, x.val), InsertAt(s, 1, x))
<1> DEFINE l == x.label
           y == [label |-> l, val |-> x.val]
           b == Append(a, y)
           n == Len(a)
           u == InsertAt(s, 1, x)
<1>1. a \in Seq(Node) /\ s \in Seq(Instance) /\ n \in Nat /\ DOMAIN a = 1..n /\ Len(a) = n
  BY NodeFact DEF Even
<1>2. y \in Node /\ y.label = l /\ l \in Labels
  BY DEF Node, Instance
<1>3. Count(a, l) = 0
  <2>1. Before(s, l, 0) = {}
    BY DEF Before
  <2>2. Count(s, l) = 0
    BY <2>1, FS_EmptySet DEF Count
  <2> QED
    BY <1>2, <2>2 DEF Even, SameLabels
<1>4. Find(a, l, i) = 0
  <2> SUFFICES ASSUME Find(a, l, i) # 0 PROVE FALSE
    OBVIOUS
  <2>1. i \in 1..Count(a, l)
    BY ONLY <1>1, Find(a, l, i) # 0, FindRange
  <2> QED
    BY <1>3, <2>1
<1>5. aug_set(a, l, i, x.val) = b
  BY <1>4 DEF aug_set
<1>6. Insertable(Instance, s, 1, x)
  BY <1>1 DEF Insertable
<1>7. Opened(u, s, 1) /\ u[1] = x
  BY ONLY <1>6, OpenedInsert
<1> HIDE DEF y, u
<1>8. Len(b) = n + 1 /\ b[n + 1] = y /\ \A j \in 1..n : b[j] = a[j]
  BY <1>1, <1>2, AppendProperties
<1> HIDE DEF b
<1>9. Opened(b, a, n + 1)
  BY <1>1, <1>8 DEF Opened
<1>10. SameLabels(b, u)
  <2>1. SameLabels(a, s) /\ b[n + 1].label = u[1].label
    BY <1>2, <1>7, <1>8 DEF Even
  <2> QED
    BY ONLY <1>7, <1>9, <2>1, EvenOpened
<1> QED
  BY <1>5, <1>10 DEF u

\* AUGDS_OP_MOVE changes no count, in whichever direction the keys say: the inserted
\* node makes room for the index after, so both nodes of aug_mv exist.
LEMMA MoveEven ==
  ASSUME NEW a, NEW s, Even(a, s), NEW j, NEW p, MoveArgs(s, j, p), NEW back \in BOOLEAN
  PROVE  LET u    == MovedTo(s, j, p)
             l    == u[p].label
             idx  == LabelIndex(u, p)
             pos  == Find(a, u[AnchorOf(p)].label, AnchorIndex(u, p))
             ins  == aug_insert(a, pos, l, p = 1)
             from == IF back THEN idx + 1 ELSE idx
             to   == IF back THEN idx ELSE idx + 1
         IN  pos # 0 /\ Find(ins, l, from) # 0 /\ SameLabels(aug_mv(ins, l, from, to), u)
<1> DEFINE u == MovedTo(s, j, p)
           l == u[p].label
           idx == LabelIndex(u, p)
           pos == Find(a, u[AnchorOf(p)].label, AnchorIndex(u, p))
           b == aug_insert(a, pos, l, p = 1)
           from == IF back THEN idx + 1 ELSE idx
           to == IF back THEN idx ELSE idx + 1
           r == RemoveAt(s, j)
<1>1. /\ a \in Seq(Node) /\ Len(a) \in Nat /\ s \in Seq(Instance) /\ Len(s) \in Nat
      /\ j \in 1..Len(s) /\ p \in 1..Len(s) /\ p < j /\ Unique(s)
  BY InstanceFact, NodeFact DEF Even, MoveArgs
<1>2. u \in Seq(Instance) /\ Len(u) = Len(s) /\ u[p] = s[j] /\ l \in Labels
  <2>1. u \in Seq(Instance) /\ Len(u) = Len(s) /\ u[p] = s[j]
    BY MoveData
  <2> QED
    BY <1>1, <2>1, InstanceFact
<1>3. Opens(Image(s), s, u, p)
  <2> DEFINE n == Len(s)
  <2>1. Shows(Image(s), s)
    BY <1>1, ShowsIsImage
  <2>2. /\ \A i \in 1..(p - 1) : u[i] = s[i]
        /\ \A i \in (p + 1)..j : u[i] = s[i - 1]
    BY MoveData
  <2>3. ASSUME p = 1 PROVE u[2].label = s[1].label
    <3>1. 2 \in (p + 1)..j /\ 2 - 1 = 1
      BY <1>1, <2>3
    <3> QED
      BY ONLY <2>2, <3>1
  <2>4. n >= 1 /\ p \in 1..(n + 1)
    BY <1>1
  <2> HIDE DEF u
  <2> QED
    BY <2>1, <2>2, <2>3, <2>4 DEF Opens
<1>4. pos \in 1..Len(a)
  BY <1>3, AnchorEven
<1>5. SameLabels(s, u)
  <2>1. Opened(s, r, j)
    BY <1>1, OpenedRemove
  <2>2. Insertable(Instance, r, p, s[j])
    <3>1. r \in Seq(Instance) /\ Len(r) = Len(s) - 1
      BY <1>1, RemoveAtFact
    <3>2. p \in 1..(Len(r) + 1) /\ s[j] \in Instance
      BY <1>1, <3>1
    <3> QED
      BY <3>1, <3>2 DEF Insertable
  <2>3. Opened(u, r, p)
    BY <2>2, OpenedInsert DEF MovedTo
  <2>4. SameLabels(r, r)
    BY DEF SameLabels
  <2> HIDE DEF u, r
  <2>5. s[j].label = u[p].label
    BY <1>2
  <2> QED
    BY ONLY <2>1, <2>3, <2>4, <2>5, EvenOpened
<1> HIDE DEF u, pos
<1>6. b \in Seq(Node) /\ \E q \in 1..(Len(a) + 1) : Opened(b, a, q) /\ b[q].label = l
  <2> HIDE DEF l
  <2> QED
    BY <1>1, <1>2, <1>4, InsertOpens
<1>7. PICK q \in 1..(Len(a) + 1) : Opened(b, a, q) /\ b[q].label = l
  BY <1>6
<1> HIDE DEF b
<1>8. idx \in 1..Count(a, l) /\ Count(b, l) = Count(a, l) + 1 /\ Count(a, l) \in Nat
  <2>1. idx \in 1..Count(u, l)
    BY <1>1, <1>2, IndexRange
  <2>2. Count(a, l) = Count(s, l) /\ Count(s, l) = Count(u, l)
    BY <1>2, <1>5 DEF Even, SameLabels
  <2>3. Count(a, l) \in Nat /\ Count(b, l) = Count(a, l) + 1
    BY <1>7, CountOpened
  <2> HIDE DEF idx, l
  <2> QED
    BY <2>1, <2>2, <2>3
<1> HIDE DEF idx, l
<1>9. from \in 1..Count(b, l) /\ to \in 1..Count(b, l)
  BY <1>8
<1> HIDE DEF from, to
<1> DEFINE src == Find(b, l, from)
           dst == Find(b, l, to)
           v == b[src].val
           c == [b EXCEPT ![dst].val = v]
           e == RemoveAt(c, src)
<1>10. Len(b) \in Nat /\ DOMAIN b = 1..Len(b)
  BY <1>6, NodeFact
<1>11. src \in 1..Len(b) /\ b[src].label = l
  BY ONLY <1>9, <1>10, FindExists
<1>12. dst \in 1..Len(b)
  BY ONLY <1>9, <1>10, FindExists
<1>13. src # 0 /\ dst # 0
  BY <1>10, <1>11, <1>12
<1>14. aug_mv(b, l, from, to) = e
  BY <1>13, Zenon DEF aug_mv
<1> HIDE DEF src, dst
<1>15. v \in Values \cup {NoValue}
  <2>1. b[src] \in Node
    BY <1>6, <1>11
  <2>2. ASSUME NEW y \in Node PROVE y.val \in Values \cup {NoValue}
    BY DEF Node
  <2> QED
    BY <2>1, <2>2
<1> HIDE DEF v
<1>16. /\ c \in Seq(Node) /\ Len(c) = Len(b) /\ c[src].label = l
       /\ SameLabels(c, b)
  <2>1. /\ c \in Seq(Node) /\ Len(c) = Len(b) /\ c[dst].label = b[dst].label
        /\ \A i \in 1..Len(b) : i # dst => c[i] = b[i]
    <3>1. b \in Seq(Node) /\ dst \in 1..Len(b) /\ v \in Values \cup {NoValue}
      BY <1>6, <1>12, <1>15
    <3> QED
      BY ONLY <3>1, NodeUpdate
  <2>2. SameLabels(c, b)
    BY <1>6, <1>12, <1>15, CountVal DEF SameLabels
  <2> HIDE DEF c
  <2>3. c[src].label = l
    BY <1>11, <2>1
  <2> QED
    BY <2>1, <2>2, <2>3
<1> HIDE DEF c
<1>17. Opened(c, e, src)
  <2>1. c \in Seq(Node) /\ src \in 1..Len(c)
    BY <1>11, <1>16
  <2> QED
    BY ONLY <2>1, OpenedRemove
<1> HIDE DEF e
<1>18. SameLabels(e, a)
  <2>1. c[src].label = b[q].label /\ SameLabels(c, b) /\ Opened(b, a, q)
    BY <1>7, <1>16
  <2> QED
    BY ONLY <1>17, <2>1, EvenOpened
<1>19. SameLabels(e, u)
  BY <1>5, <1>18 DEF Even, SameLabels
<1>20. pos # 0
  BY <1>1, <1>4
<1> QED
  BY <1>13, <1>14, <1>19, <1>20 DEF src, b, from, to, l, idx, pos, u

-----------------------------------------------------------------------------
(* The inductive invariant *)

\* The first instance of an empty list: aug_set creates the node.
LEMMA FirstMirrors ==
  ASSUME NEW a, NEW s, Shows(a, s), Len(s) = 0, NEW x \in Instance, NEW i
  PROVE  Shows(aug_set(a, x.label, i, x.val), InsertAt(s, 1, x))
<1> DEFINE y == [label |-> x.label, val |-> x.val]
           b == Append(a, y)
           u == InsertAt(s, 1, x)
<1>1. a \in Seq(Node) /\ s \in Seq(Instance) /\ Len(a) = 0 /\ DOMAIN a = {}
  BY DEF Shows
<1>2. y \in Node /\ y.label = x.label /\ y.val = x.val
  BY DEF Node, Instance
<1>3. Find(a, x.label, i) = 0
  BY <1>1 DEF Find
<1>4. aug_set(a, x.label, i, x.val) = b
  BY <1>3 DEF aug_set
<1> HIDE DEF y
<1>5. b \in Seq(Node) /\ Len(b) = 1 /\ b[1] = y
  BY <1>1, <1>2, AppendProperties
<1>6. u \in Seq(Instance) /\ Len(u) = 1 /\ u[1] = x
  <2>1. Insertable(Instance, s, 1, x)
    BY <1>1 DEF Insertable
  <2>2. u \in Seq(Instance) /\ Len(u) = Len(s) + 1 /\ u[1] = x
    BY ONLY <2>1, InsertAtFact
  <2> QED
    BY <2>2
<1> HIDE DEF b, u
<1>7. Shows(b, u)
  BY <1>2, <1>5, <1>6 DEF Shows
<1> QED
  BY <1>4, <1>7 DEF u

\* aug_insert makes a tree of nodes.
LEMMA InsertTyped ==
  ASSUME NEW a \in Seq(Node), NEW pos \in 1..Len(a), NEW l \in Labels, NEW before \in BOOLEAN
  PROVE  aug_insert(a, pos, l, before) \in Seq(Node)
<1>1. Empty(l) \in Node
  BY DEF Empty, Node
<1>2. pos \in 1..(Len(a) + 1) /\ pos + 1 \in 1..(Len(a) + 1) /\ a \in Seq(Node)
  OBVIOUS
<1>3. Insertable(Node, a, pos, Empty(l)) /\ Insertable(Node, a, pos + 1, Empty(l))
  BY <1>1, <1>2 DEF Insertable
<1>4. InsertAt(a, pos, Empty(l)) \in Seq(Node) /\ InsertAt(a, pos + 1, Empty(l)) \in Seq(Node)
  BY ONLY <1>3, InsertAtFact
<1> QED
  BY <1>4 DEF aug_insert, Empty

\* aug_mv makes a tree of nodes.
LEMMA MvTyped ==
  ASSUME NEW a \in Seq(Node), NEW l, NEW from, NEW to, Find(a, l, from) # 0
  PROVE  aug_mv(a, l, from, to) \in Seq(Node)
<1> DEFINE src == Find(a, l, from)
           dst == Find(a, l, to)
           v == a[src].val
<1>1. Len(a) \in Nat /\ DOMAIN a = 1..Len(a) /\ a \in Seq(Node)
  OBVIOUS
<1>2. src \in 1..Len(a)
  BY ONLY <1>1, Find(a, l, from) # 0, FindIn
<1>3. dst # 0 => dst \in 1..Len(a)
  BY ONLY <1>1, FindIn
<1>4. a[src] \in Node /\ v \in Values \cup {NoValue}
  <2>1. a[src] \in Node
    <3> HIDE DEF src
    <3> QED
      BY <1>1, <1>2
  <2>2. ASSUME NEW x \in Node PROVE x.val \in Values \cup {NoValue}
    BY DEF Node
  <2> QED
    BY <2>1, <2>2
<1>5. aug_mv(a, l, from, to) = IF dst = 0 THEN Append(RemoveAt(a, src), a[src])
                               ELSE RemoveAt([a EXCEPT ![dst].val = v], src)
  BY Zenon DEF aug_mv
<1> HIDE DEF src, dst, v
<1>6. CASE dst = 0
  <2>1. RemoveAt(a, src) \in Seq(Node)
    BY ONLY <1>1, <1>2, RemoveAtFact
  <2>2. Append(RemoveAt(a, src), a[src]) \in Seq(Node)
    BY ONLY <1>4, <2>1, AppendProperties
  <2> QED
    BY <1>5, <1>6, <2>2
<1>7. CASE dst # 0
  <2> DEFINE b == [a EXCEPT ![dst].val = v]
  <2>1. b \in Seq(Node) /\ Len(b) = Len(a)
    BY <1>1, <1>3, <1>4, <1>7, NodeUpdate
  <2>2. src \in 1..Len(b)
    BY <1>2, <2>1
  <2>3. RemoveAt(b, src) \in Seq(Node)
    <3> HIDE DEF b
    <3> QED
      BY ONLY <2>1, <2>2, RemoveAtFact
  <2> QED
    BY <1>5, <1>7, <2>3
<1> QED
  BY <1>6, <1>7

\* The keys of diff_data are unique: At, and with it every index, is defined.
Distinct == Unique(data)

\* The trees have the same labels and no path failed.
Counted == SameLabels(aug, data) /\ rc = "ok"

\* As long as all moves were safe, the tree shows diff_data.
Following == unsafe \/ Shows(aug, data)

\* The inductive invariant.
IInv == TypeOK /\ Distinct /\ Counted /\ Following

\* Applied keeps the invariant if what it is given does.
LEMMA AppliedStep ==
  ASSUME IInv, NEW ok, ok, NEW tree \in Seq(Node), NEW upd \in Seq(Instance), NEW risky \in BOOLEAN,
         Applied(ok, tree, upd, risky), Unique(upd), SameLabels(tree, upd),
         ~unsafe /\ ~risky => Shows(tree, upd)
  PROVE  IInv'
<1>1. TypeOK'
  <2>1. unsafe' \in BOOLEAN
    BY Zenon DEF IInv, TypeOK, Applied
  <2> QED
    BY <2>1 DEF IInv, TypeOK, Applied
<1>2. Distinct' /\ Counted'
  <2>1. aug' = tree /\ data' = upd /\ rc' = "ok"
    BY DEF Applied
  <2> QED
    BY <2>1 DEF Distinct, Counted, Unique, SameLabels
<1>3. Following'
  <2>1. CASE unsafe \/ risky
    BY <2>1, Zenon DEF Applied, Following
  <2>2. CASE ~unsafe /\ ~risky
    BY <2>2, Zenon DEF Applied, Following
  <2> QED
    BY <2>1, <2>2
<1> QED
  BY <1>1, <1>2, <1>3 DEF IInv

\* augds_store_find_anchor: a position to insert at.
LEMMA PositionFact ==
  ASSUME NEW s \in Seq(Instance), NEW after, after = First \/ after \in IdsOf(s)
  PROVE  Position(s, after) \in 1..(Len(s) + 1)
<1>1. Len(s) \in Nat
  OBVIOUS
<1>2. after # First => At(s, after) \in 1..Len(s)
  BY AtFact
<1> QED
  BY <1>1, <1>2 DEF Position

-----------------------------------------------------------------------------
(* Steps *)

\* What the invariant says about the two trees.
LEMMA StateFact ==
  ASSUME IInv
  PROVE  /\ aug \in Seq(Node) /\ Len(aug) \in Nat /\ DOMAIN aug = 1..Len(aug)
         /\ data \in Seq(Instance) /\ Len(data) \in Nat /\ Unique(data)
         /\ ~unsafe => Shows(aug, data)
         /\ Even(aug, data)
<1>1. aug \in Seq(Node) /\ data \in Seq(Instance)
  BY DEF IInv, TypeOK
<1>2. ~unsafe => Shows(aug, data)
  BY Zenon DEF IInv, Following
<1>3. Even(aug, data)
  BY <1>1 DEF IInv, Counted, Even
<1> QED
  BY <1>1, <1>2, <1>3 DEF IInv, Distinct

\* Delete keeps the invariant.
LEMMA DeleteStep ==
  ASSUME IInv, DiffApplies, Delete
  PROVE  IInv'
<1> DEFINE d == NextNode
           k == At(data, d.id)
           pos == Find(aug, data[k].label, LabelIndex(data, k))
           ok == pos # 0
           tree == RemoveAt(aug, pos)
           upd == RemoveAt(data, k)
<1>1. d.id \in IdsOf(data)
  BY DEF DiffApplies, Delete, Node1
<1>2. k \in 1..Len(data)
  BY <1>1, StateFact, AtFact
<1>3. Applied(ok, tree, upd, FALSE)
  BY DEF Delete
<1> HIDE DEF k
<1>4. ~unsafe => pos = k /\ Shows(RemoveAt(aug, k), upd)
  BY <1>2, StateFact, DeleteMirrors
<1>5. k # 0
  BY <1>2, StateFact
<1>6. ok /\ SameLabels(tree, upd)
  BY <1>2, StateFact, DeleteEven
<1>7. tree \in Seq(Node)
  <2>1. pos \in 1..Len(aug)
    BY <1>6, StateFact, FindIn
  <2> HIDE DEF pos
  <2>2. aug \in Seq(Node) /\ pos \in 1..Len(aug)
    BY <2>1, StateFact
  <2> QED
    BY ONLY <2>2, RemoveAtFact
<1>8. upd \in Seq(Instance) /\ Unique(upd)
  BY <1>2, StateFact, RemoveData
<1>9. ~unsafe /\ ~FALSE => Shows(tree, upd)
  BY <1>4, <1>5
<1> HIDE DEF ok, tree, upd
<1> QED
  BY <1>3, <1>6, <1>7, <1>8, <1>9, AppliedStep

\* Change keeps the invariant.
LEMMA ChangeStep ==
  ASSUME IInv, DiffApplies, Change
  PROVE  IInv'
<1> DEFINE d == NextNode
           k == At(data, d.id)
           pos == Find(aug, data[k].label, LabelIndex(data, k))
           ok == pos # 0
           tree == Changed(aug, data, k, pos, d.label, d.val)
           upd == Updated(data, k, d.label, d.val)
<1>1. d.id \in IdsOf(data) /\ d.label \in Labels /\ d.val \in Values
  BY DEF DiffApplies, Change, Node1
<1>2. k \in 1..Len(data)
  BY <1>1, StateFact, AtFact
<1>3. Applied(ok, tree, upd, FALSE)
  BY Zenon DEF Change, Changed, Updated
<1> HIDE DEF k, d
<1>4. ~unsafe => pos = k /\ Shows(Changed(aug, data, k, k, d.label, d.val), upd)
  BY <1>1, <1>2, StateFact, DeleteMirrors, ChangeMirrors
<1>5. k # 0
  BY <1>2, StateFact
<1>6. ok /\ SameLabels(tree, upd)
  BY <1>1, <1>2, StateFact, ChangeEven
<1>7. tree \in Seq(Node)
  <2>1. pos \in 1..Len(aug)
    BY <1>6, StateFact, FindIn
  <2> HIDE DEF pos
  <2> QED
    BY <1>1, <2>1, StateFact, ChangedTyped
<1>8. upd \in Seq(Instance) /\ Unique(upd)
  BY <1>1, <1>2, StateFact, InstanceUpdate, UniqueUpdate
<1>9. ~unsafe /\ ~FALSE => Shows(tree, upd)
  BY <1>4, <1>5
<1> HIDE DEF ok, tree, upd
<1> QED
  BY <1>3, <1>6, <1>7, <1>8, <1>9, AppliedStep

\* Insert keeps the invariant.
LEMMA InsertStep ==
  ASSUME IInv, DiffApplies, Insert
  PROVE  IInv'
<1> DEFINE d == NextNode
           x == [id |-> d.id, label |-> d.label, val |-> d.val]
           p == Position(data, d.after)
           upd == InsertAt(data, p, x)
           k == At(upd, d.id)
           only == Len(upd) = 1
           pos(i) == Find(aug, upd[AnchorOf(i)].label, AnchorIndex(upd, i))
           ins(i) == IF only THEN aug ELSE aug_insert(aug, pos(i), d.label, i = 1)
           ok(i) == only \/ pos(i) # 0
           tree(i) == aug_set(ins(i), d.label, LabelIndex(upd, i), d.val)
<1>1. /\ d.id \in Ids /\ d.id \notin IdsOf(data) /\ d.label \in Labels /\ d.val \in Values
      /\ d.after = First \/ d.after \in IdsOf(data)
  BY DEF DiffApplies, Insert, Node1
<1>2. x \in Instance /\ x.id = d.id /\ x.label = d.label /\ x.val = d.val
  BY <1>1 DEF Instance
<1>3. Applied(ok(k), tree(k), upd, FALSE)
  BY Zenon DEF Insert, Place, AnchorPos
<1>4. p \in 1..(Len(data) + 1)
  BY <1>1, StateFact, PositionFact
<1> HIDE DEF d, x, p
<1>5. upd \in Seq(Instance) /\ Unique(upd) /\ k = p
  <2>1. /\ InsertAt(data, p, x) \in Seq(Instance) /\ Unique(InsertAt(data, p, x))
        /\ At(InsertAt(data, p, x), x.id) = p
    BY <1>1, <1>2, <1>4, StateFact, InsertData
  <2> QED
    BY <1>2, <2>1
<1>6. Len(upd) = Len(data) + 1
  <2>1. Insertable(Instance, data, p, x)
    BY <1>2, <1>4, StateFact DEF Insertable
  <2> QED
    BY ONLY <2>1, InsertAtFact
<1>7. Applied(ok(p), tree(p), upd, FALSE)
  BY <1>3, <1>5
<1>8. ok(p) /\ SameLabels(tree(p), upd)
  <2>1. Even(aug, data) /\ Len(data) \in Nat
    BY StateFact
  <2>2. CASE only
    <3>1. Len(data) = 0 /\ p = 1
      <4>2. ASSUME NEW n \in Nat, NEW q \in 1..(n + 1), n + 1 = 1 PROVE n = 0 /\ q = 1
        BY <4>2
      <4>3. Len(data) + 1 = 1
        BY <1>6, <2>2
      <4> QED
        BY ONLY <1>4, <2>1, <4>2, <4>3
    <3>2. SameLabels(aug_set(aug, x.label, LabelIndex(upd, p), x.val), InsertAt(data, 1, x))
      BY <1>2, <2>1, <3>1, FirstEven
    <3> QED
      BY <1>2, <2>2, <3>1, <3>2
  <2>3. CASE ~only
    <3>1. Len(data) >= 1
      BY <1>6, <2>1, <2>3
    <3>2. pos(p) # 0 /\ SameLabels(aug_set(aug_insert(aug, pos(p), x.label, p = 1), x.label,
                                           LabelIndex(upd, p), x.val), upd)
      BY <1>2, <1>4, <2>1, <3>1, InsertEven
    <3> HIDE DEF pos, upd
    <3> QED
      BY <1>2, <2>3, <3>2
  <2> QED
    BY <2>2, <2>3
<1>9. tree(p) \in Seq(Node)
  <2>1. ins(p) \in Seq(Node)
    <3>1. CASE only
      BY <3>1, StateFact
    <3>2. CASE ~only
      <4>1. pos(p) # 0
        BY <1>8, <3>2
      <4>2. pos(p) \in 1..Len(aug)
        BY <4>1, StateFact, FindIn
      <4> HIDE DEF pos
      <4>3. aug_insert(aug, pos(p), d.label, p = 1) \in Seq(Node)
        BY <1>1, <4>2, StateFact, InsertTyped
      <4> QED
        BY <3>2, <4>3
    <3> QED
      BY <3>1, <3>2
  <2> HIDE DEF ins
  <2>2. SetType(ins(p), d.label, LabelIndex(upd, p), d.val)
    BY <1>1, <2>1 DEF SetType
  <2> QED
    BY <2>2, SetTyped
<1>10. ASSUME ~unsafe PROVE Shows(tree(p), upd)
  <2>0. Shows(aug, data)
    BY <1>10, StateFact
  <2>1. CASE only
    <3>1. Len(data) = 0 /\ p = 1
      <4>1. Len(data) \in Nat /\ Len(upd) = 1
        BY <2>1, StateFact
      <4>2. ASSUME NEW n \in Nat, NEW q \in 1..(n + 1), n + 1 = 1 PROVE n = 0 /\ q = 1
        BY <4>2
      <4>3. Len(data) + 1 = 1
        BY ONLY <1>6, <4>1
      <4> QED
        BY ONLY <1>4, <4>1, <4>2, <4>3
    <3>2. Shows(aug_set(aug, x.label, LabelIndex(upd, p), x.val), InsertAt(data, 1, x))
      BY <1>2, <2>0, <3>1, FirstMirrors
    <3> QED
      BY <1>2, <2>1, <3>1, <3>2
  <2>2. CASE ~only
    <3>1. Len(data) >= 1
      BY <1>6, <2>2, StateFact
    <3>2. /\ Opens(aug, data, upd, p)
          /\ Shows(aug_set(InsertAt(aug, p, Empty(x.label)), x.label, LabelIndex(upd, p), x.val), upd)
      BY <1>2, <1>4, <2>0, <3>1, InsertMirrors
    <3>3. /\ pos(p) # 0
          /\ aug_insert(aug, pos(p), d.label, p = 1) = InsertAt(aug, p, Empty(d.label))
      BY <3>2, AnchorMirrors
    <3> HIDE DEF pos, upd
    <3> QED
      BY <1>2, <2>2, <3>2, <3>3
  <2> QED
    BY <2>1, <2>2
<1> HIDE DEF ok, tree, upd
<1>11. ~unsafe /\ ~FALSE => Shows(tree(p), upd)
  BY <1>10
<1> QED
  BY <1>5, <1>7, <1>8, <1>11, <1>9, AppliedStep

\* Move keeps the invariant: the position behind the anchor is in front of the instance,
\* so taking the instance out does not change it.
LEMMA MoveStep ==
  ASSUME IInv, DiffApplies, Move
  PROVE  IInv'
<1> DEFINE d == NextNode
           j == At(data, d.id)
           p == Position(data, d.after)
           upd == Place(RemoveAt(data, j), data[j], d.after)
           k == At(upd, d.id)
           l(i) == upd[i].label
           idx(i) == LabelIndex(upd, i)
           pos(i) == Find(aug, upd[AnchorOf(i)].label, AnchorIndex(upd, i))
           ins(i) == aug_insert(aug, pos(i), l(i), i = 1)
           from(i) == IF MovedBack(upd, i) THEN idx(i) + 1 ELSE idx(i)
           to(i) == IF MovedBack(upd, i) THEN idx(i) ELSE idx(i) + 1
           ok(i) == pos(i) # 0 /\ Find(ins(i), l(i), from(i)) # 0
           tree(i) == aug_mv(ins(i), l(i), from(i), to(i))
           risky(i) == ~MoveSafe(j, upd, i)
<1>1. /\ d.id \in IdsOf(data) /\ p < j
      /\ d.after = First \/ d.after \in IdsOf(data)
  BY DEF DiffApplies, Move, Node1
<1>2. j \in 1..Len(data) /\ data[j].id = d.id
  BY <1>1, StateFact, AtFact
<1>3. p \in 1..(Len(data) + 1)
  BY <1>1, StateFact, PositionFact
<1>4. Applied(ok(k), tree(k), upd, risky(k))
  BY Zenon DEF Move, AnchorPos
<1>5. Position(RemoveAt(data, j), d.after) = p
  <2>1. CASE d.after = First
    BY <2>1 DEF Position
  <2>2. CASE d.after # First
    <3> DEFINE i == At(data, d.after)
    <3>1. i \in 1..Len(data) /\ data[i].id = d.after
      BY <1>1, <2>2, StateFact, AtFact
    <3>2. p = i + 1
      BY <2>2 DEF Position
    <3>3. Len(data) \in Nat
      BY StateFact
    <3> HIDE DEF i, p, j
    <3>4. i < j
      BY ONLY <1>1, <1>2, <3>1, <3>2, <3>3
    <3>5. At(RemoveAt(data, j), data[i].id) = i
      BY <1>2, <3>1, <3>4, StateFact, RemoveData
    <3> QED
      BY <2>2, <3>1, <3>2, <3>5 DEF Position
  <2> QED
    BY <2>1, <2>2
<1>6. upd = MovedTo(data, j, p)
  BY <1>5 DEF Place, MovedTo
<1> HIDE DEF d, j, p
<1>7. MoveArgs(data, j, p)
  <2>1. Len(data) \in Nat /\ data \in Seq(Instance) /\ Unique(data)
    BY StateFact
  <2>2. p \in 1..Len(data)
    BY ONLY <1>1, <1>2, <1>3, <2>1
  <2> QED
    BY <1>1, <1>2, <2>1, <2>2 DEF MoveArgs
<1>8. /\ upd \in Seq(Instance) /\ Unique(upd) /\ Len(upd) = Len(data)
      /\ k = p /\ upd[p] = data[j]
  BY <1>2, <1>6, <1>7, MoveData
<1>9. Applied(ok(p), tree(p), upd, risky(p))
  BY <1>4, <1>8
<1>10. l(p) = data[j].label /\ l(p) \in Labels
  BY <1>2, <1>8, StateFact, InstanceFact
<1> HIDE DEF upd
<1>11. ok(p) /\ SameLabels(tree(p), upd)
  <2>1. MovedBack(upd, p) \in BOOLEAN /\ Even(aug, data)
    BY StateFact DEF MovedBack
  <2> QED
    BY <1>6, <1>7, <2>1, MoveEven
<1>12. tree(p) \in Seq(Node)
  <2>1. pos(p) \in 1..Len(aug)
    BY <1>11, StateFact, FindIn
  <2> HIDE DEF pos, l
  <2>2. ins(p) \in Seq(Node)
    BY <1>10, <2>1, StateFact, InsertTyped
  <2> HIDE DEF ins, from, to
  <2> QED
    BY <1>11, <2>2, MvTyped
<1>13. ASSUME ~unsafe, ~risky(p) PROVE Shows(tree(p), upd)
  <2>0. Shows(aug, data)
    BY <1>13, StateFact
  <2>1. Passes(data, j, p) /\ MovedBack(upd, p)
    BY <1>13, Zenon DEF MoveSafe, Passes
  <2>2. from(p) = idx(p) + 1 /\ to(p) = idx(p)
    BY <2>1
  <2> DEFINE b == InsertAt(aug, p, Empty(l(p)))
  <2>3. /\ Opens(aug, data, upd, p)
        /\ Find(b, l(p), idx(p) + 1) # 0
        /\ Shows(aug_mv(b, l(p), idx(p) + 1, idx(p)), upd)
    BY <1>6, <1>7, <1>10, <2>0, <2>1, MoveMirrors
  <2>4. pos(p) # 0 /\ ins(p) = b
    BY <2>3, AnchorMirrors
  <2> HIDE DEF pos, ins, l, idx, from, to, b
  <2> QED
    BY <2>2, <2>3, <2>4
<1>14. risky(p) \in BOOLEAN
  BY Zenon DEF MoveSafe
<1> HIDE DEF ok, tree, risky
<1>15. ~unsafe /\ ~risky(p) => Shows(tree(p), upd)
  BY <1>13
<1> QED
  BY <1>8, <1>9, <1>12, <1>14, <1>15, <1>11, AppliedStep

\* Loading numbers the instances, so their keys are unique.
LEMMA LoadedFact ==
  ASSUME NEW s \in Loaded
  PROVE  s \in Seq(Instance) /\ Unique(s)
<1>1. PICK n \in 0..MaxLen : \E ls \in [1..n -> Labels] :
              s = [i \in 1..n |-> [id |-> i, label |-> ls[i], val |-> i]]
  BY DEF Loaded
<1>2. PICK ls \in [1..n -> Labels] : s = [i \in 1..n |-> [id |-> i, label |-> ls[i], val |-> i]]
  BY <1>1
<1>3. n \in Nat /\ MaxId \in Nat /\ n <= MaxId
  BY StoreAssumption
<1>4. ASSUME NEW i \in 1..n
      PROVE  [id |-> i, label |-> ls[i], val |-> i] \in Instance
  <2>1. i \in Ids /\ i \in Values /\ ls[i] \in Labels
    BY <1>2, <1>3 DEF Ids, Values
  <2> QED
    BY <2>1 DEF Instance
<1>5. s \in [1..n -> Instance]
  BY <1>2, <1>4
<1>6. s \in Seq(Instance) /\ Len(s) = n
  BY ONLY <1>3, <1>5, SeqDef
<1>7. \A i \in 1..n : s[i].id = i
  BY <1>2
<1> QED
  BY <1>6, <1>7 DEF Unique

\* What is stored is a list of instances.
LEMMA StoredFact ==
  ASSUME NEW cur, NEW s \in Stored(cur)
  PROVE  s \in Seq(Instance)
<1> DEFINE Version(id) == {inst \in Instance :
                             /\ inst.id = id
                             /\ inst.val \in (IF id \in IdsOf(cur) THEN {id, id + MaxId} ELSE {id})}
           Orders == UNION {{ids \in [1..n -> Ids] : IsInjective(ids)} : n \in 0..MaxLen + 1}
           All == UNION {Version(id) : id \in Ids}
<1>1. PICK ids \in Orders : s \in [DOMAIN ids -> All]
  BY DEF Stored
<1>2. All \subseteq Instance
  OBVIOUS
<1> HIDE DEF All
<1>3. PICK n \in 0..MaxLen + 1 : ids \in [1..n -> Ids]
  OBVIOUS
<1>4. n \in Nat
  BY StoreAssumption
<1>5. s \in [1..n -> Instance]
  BY <1>1, <1>2, <1>3
<1> QED
  BY ONLY <1>4, <1>5, SeqDef

\* The invariant holds when the store begins.
LEMMA InitHolds == Init => IInv
<1> SUFFICES ASSUME Init PROVE IInv
  OBVIOUS
<1>1. data \in Seq(Instance) /\ Unique(data) /\ target \in Seq(Instance)
  BY LoadedFact, StoredFact DEF Init
<1>2. Shows(aug, data) /\ aug \in Seq(Node)
  BY <1>1, ImageFact, ShowsIsImage DEF Init
<1>3. rc = "ok" /\ unsafe \in BOOLEAN
  BY DEF Init
<1>4. SameLabels(aug, data)
  BY <1>2, CountSame DEF Shows, SameLabels
<1> QED
  BY <1>1, <1>2, <1>3, <1>4, Zenon DEF IInv, TypeOK, Distinct, Counted, Following

\* Every step keeps it, if the next node of the diff applies.
LEMMA NextHolds == IInv /\ DiffApplies /\ [Next]_vars => IInv'
<1> SUFFICES ASSUME IInv, DiffApplies, [Next]_vars PROVE IInv'
  OBVIOUS
<1>1. CASE Delete
  BY <1>1, DeleteStep
<1>2. CASE Change
  BY <1>2, ChangeStep
<1>3. CASE Insert
  BY <1>3, InsertStep
<1>4. CASE Move
  BY <1>4, MoveStep
<1>5. CASE UNCHANGED vars
  BY <1>5, Zenon DEF vars, IInv, TypeOK, Distinct, Counted, Following, Unique, Shows, SameLabels
<1> QED
  BY <1>1, <1>2, <1>3, <1>4, <1>5 DEF Next

\* So it holds always.
LEMMA Inductive == Spec /\ []DiffApplies => []IInv
  BY InitHolds, NextHolds, PTL DEF Spec
=============================================================================
