--------------------------- MODULE AyTree_proofs ----------------------------
(***************************************************************************)
(* Proofs about AyTree, for trees of any size, any memory and any number   *)
(* of operations: every operation leaves the array a preorder. The         *)
(* argument is on the profile of the array (AyPreorder): each operation is *)
(* an insertion of a node that fits, of a block, a cut or a move of it,    *)
(* and the nodes it counts up or down are those above.                     *)
(***************************************************************************)
EXTENDS AyTree, AyPreorder, SequenceTheorems, WellFoundedInduction, TLAPS

(***************************************************************************)
(* Sets of indices and the array.                                          *)
(***************************************************************************)

\* A set of numbers has a least one.
LEMMA NatMin ==
  ASSUME NEW T \in SUBSET Nat, T # {}
  PROVE  \E x \in T : \A y \in T : x <= y
<1> DEFINE R == OpToRel(<, Nat)
<1>1. \E x \in T : \A y \in T : ~ (<<y, x>> \in R)
  BY NatLessThanWellFounded, WFMin
<1>2. \A x, y \in Nat : y < x => <<y, x>> \in R
  BY Zenon DEF OpToRel
<1> HIDE DEF R
<1>3. PICK x \in T : \A y \in T : ~ (<<y, x>> \in R)
  BY <1>1
<1>4. ASSUME NEW y \in T PROVE x <= y
  <2>1. ~(y < x) /\ x \in Nat /\ y \in Nat
    BY <1>2, <1>3
  <2> QED
    BY <2>1
<1> QED
  BY <1>4

\* A bounded set of numbers has a greatest one.
LEMMA NatMax ==
  ASSUME NEW n \in Nat, NEW S \in SUBSET (0..n), S # {}
  PROVE  \E x \in S : \A y \in S : y <= x
<1> DEFINE T == {n - y : y \in S}
<1>1. T \in SUBSET Nat
  OBVIOUS
<1>10. T # {}
  <2>1. PICK y \in S : TRUE
    OBVIOUS
  <2> QED
    BY <2>1
<1>2. PICK z \in T : \A y \in T : z <= y
  BY <1>1, <1>10, NatMin
<1>3. PICK x \in S : z = n - x
  OBVIOUS
<1>4. \A y \in S : n - x <= n - y
  BY <1>2, <1>3
<1> QED
  BY <1>4

\* LastOf is the greatest member: the parent is the nearest ancestor and the
\* last child the last node whose parent is the node.
LEMMA LastOfFact ==
  ASSUME NEW n \in Nat, NEW S \in SUBSET (1..n)
  PROVE  /\ S = {} => LastOf(S) = 0
         /\ S # {} => LastOf(S) \in S /\ \A y \in S : y <= LastOf(S)
<1>0. S \in SUBSET (0..n)
  OBVIOUS
<1>1. S # {} => \E x \in S : \A y \in S : y <= x
  BY <1>0, NatMax
<1> QED
  BY <1>1 DEF LastOf, Null

\* FirstOf is the least member: a search through the array from the front.
LEMMA FirstOfFact ==
  ASSUME NEW S \in SUBSET Nat, S # {}
  PROVE  FirstOf(S) \in S /\ \A y \in S : FirstOf(S) <= y
<1>1. \E x \in S : \A y \in S : x <= y
  BY NatMin
<1> QED
  BY <1>1 DEF FirstOf, Null

\* What an array is after nodes were written into a new gap
\* (ay_ynode_insert_gap_range).
LEMMA InsertRangeFact ==
  ASSUME NEW a \in Seq(Ynode), NEW s \in Seq(Ynode), NEW i \in 1..(Len(a) + 1)
  PROVE  /\ InsertRange(a, i, s) \in Seq(Ynode)
         /\ Len(InsertRange(a, i, s)) = Len(a) + Len(s)
         /\ \A j \in 1..(i - 1) : InsertRange(a, i, s)[j] = a[j]
         /\ \A j \in i..(i + Len(s) - 1) : InsertRange(a, i, s)[j] = s[j - i + 1]
         /\ \A j \in (i + Len(s))..(Len(a) + Len(s)) : InsertRange(a, i, s)[j] = a[j - Len(s)]
<1> DEFINE l == SubSeq(a, 1, i - 1)
           r == SubSeq(a, i, Len(a))
           ls == l \o s
<1>0. Len(a) \in Nat /\ Len(s) \in Nat /\ \A j \in 1..Len(a) : a[j] \in Ynode
  OBVIOUS
<1>1. /\ l \in Seq(Ynode) /\ Len(l) = i - 1
      /\ \A j \in 1..(i - 1) : l[j] = a[j]
  <2>1. \A j \in 1..(i - 1) : a[j] \in Ynode
    BY <1>0
  <2> QED
    BY <1>0, <2>1, SubSeqProperties
<1>2. /\ r \in Seq(Ynode) /\ Len(r) = Len(a) - i + 1
      /\ \A j \in 1..(Len(a) - i + 1) : r[j] = a[i + j - 1]
  <2>1. \A j \in i..Len(a) : a[j] \in Ynode
    BY <1>0
  <2> QED
    BY <1>0, <2>1, SubSeqProperties
<1> HIDE DEF l, r
<1>3. /\ ls \in Seq(Ynode) /\ Len(ls) = i - 1 + Len(s)
      /\ \A j \in 1..(i - 1 + Len(s)) : ls[j] = IF j <= i - 1 THEN l[j] ELSE s[j - (i - 1)]
  <2>1. /\ ls \in Seq(Ynode) /\ Len(ls) = Len(l) + Len(s)
        /\ \A j \in 1..(Len(l) + Len(s)) : ls[j] = IF j <= Len(l) THEN l[j] ELSE s[j - Len(l)]
    <3>1. l \in Seq(Ynode) /\ s \in Seq(Ynode)
      BY <1>1
    <3> QED
      BY ONLY <3>1, ConcatProperties
  <2> HIDE DEF ls
  <2> QED
    BY <1>0, <1>1, <2>1
<1> HIDE DEF ls
<1>4. /\ ls \o r \in Seq(Ynode) /\ Len(ls \o r) = Len(a) + Len(s)
      /\ \A j \in 1..(Len(a) + Len(s)) :
           (ls \o r)[j] = IF j <= i - 1 + Len(s) THEN ls[j] ELSE r[j - (i - 1 + Len(s))]
  <2>1. Len(ls) + Len(r) = Len(a) + Len(s)
    BY <1>0, <1>2, <1>3
  <2>2. /\ ls \o r \in Seq(Ynode) /\ Len(ls \o r) = Len(ls) + Len(r)
        /\ \A j \in 1..(Len(ls) + Len(r)) :
             (ls \o r)[j] = IF j <= Len(ls) THEN ls[j] ELSE r[j - Len(ls)]
    BY <1>2, <1>3, ConcatProperties
  <2> QED
    BY <2>1, <2>2, <1>3
<1>5. InsertRange(a, i, s) = ls \o r
  BY DEF InsertRange, ls, l, r
<1>6. \A j \in 1..(i - 1) : (ls \o r)[j] = a[j]
  BY <1>0, <1>1, <1>3, <1>4
<1>7. \A j \in i..(i + Len(s) - 1) : (ls \o r)[j] = s[j - i + 1]
  <2> SUFFICES ASSUME NEW j \in i..(i + Len(s) - 1) PROVE (ls \o r)[j] = s[j - i + 1]
    OBVIOUS
  <2>1. j \in 1..(i - 1 + Len(s)) /\ j \in 1..(Len(a) + Len(s)) /\ j - (i - 1) = j - i + 1
    BY <1>0
  <2> QED
    BY <2>1, <1>0, <1>3, <1>4
<1>8. \A j \in (i + Len(s))..(Len(a) + Len(s)) : (ls \o r)[j] = a[j - Len(s)]
  <2> SUFFICES ASSUME NEW j \in (i + Len(s))..(Len(a) + Len(s)) PROVE (ls \o r)[j] = a[j - Len(s)]
    OBVIOUS
  <2> DEFINE q == j - (i - 1 + Len(s))
  <2>1. q \in 1..(Len(a) - i + 1) /\ j \in 1..(Len(a) + Len(s)) /\ i + q - 1 = j - Len(s)
        /\ ~(j <= i - 1 + Len(s))
    BY <1>0
  <2>2. (ls \o r)[j] = r[q]
    BY <2>1, <1>4
  <2>3. r[q] = a[i + q - 1]
    <3> HIDE DEF q
    <3> QED
      BY <2>1, <1>2
  <2> QED
    BY <2>1, <2>2, <2>3
<1> QED
  BY <1>4, <1>5, <1>6, <1>7, <1>8

\* What an array is after a gap was closed (ay_ynode_delete_gap_range).
LEMMA DeleteGapFact ==
  ASSUME NEW a \in Seq(Ynode), NEW i \in 1..(Len(a) + 1), NEW n \in 0..(Len(a) - i + 1)
  PROVE  /\ DeleteGap(a, i, n) \in Seq(Ynode)
         /\ Len(DeleteGap(a, i, n)) = Len(a) - n
         /\ \A j \in 1..(i - 1) : DeleteGap(a, i, n)[j] = a[j]
         /\ \A j \in i..(Len(a) - n) : DeleteGap(a, i, n)[j] = a[j + n]
<1> DEFINE l == SubSeq(a, 1, i - 1)
           r == SubSeq(a, i + n, Len(a))
<1>0. Len(a) \in Nat /\ \A j \in 1..Len(a) : a[j] \in Ynode
  OBVIOUS
<1>1. /\ l \in Seq(Ynode) /\ Len(l) = i - 1
      /\ \A j \in 1..(i - 1) : l[j] = a[j]
  <2>1. \A j \in 1..(i - 1) : a[j] \in Ynode
    BY <1>0
  <2> QED
    BY <1>0, <2>1, SubSeqProperties
<1>2. /\ r \in Seq(Ynode) /\ Len(r) = Len(a) - i - n + 1
      /\ \A j \in 1..(Len(a) - i - n + 1) : r[j] = a[i + n + j - 1]
  <2>1. \A j \in (i + n)..Len(a) : a[j] \in Ynode
    BY <1>0
  <2> QED
    BY <1>0, <2>1, SubSeqProperties
<1> HIDE DEF l, r
<1>3. /\ l \o r \in Seq(Ynode) /\ Len(l \o r) = Len(a) - n
      /\ \A j \in 1..(Len(a) - n) :
           (l \o r)[j] = IF j <= i - 1 THEN l[j] ELSE r[j - (i - 1)]
  BY <1>0, <1>1, <1>2, ConcatProperties
<1>4. DeleteGap(a, i, n) = l \o r
  BY DEF DeleteGap, l, r
<1>5. \A j \in 1..(i - 1) : (l \o r)[j] = a[j]
  BY <1>0, <1>1, <1>3
<1>6. \A j \in i..(Len(a) - n) : (l \o r)[j] = a[j + n]
  <2> SUFFICES ASSUME NEW j \in i..(Len(a) - n) PROVE (l \o r)[j] = a[j + n]
    OBVIOUS
  <2> DEFINE q == j - (i - 1)
  <2>1. q \in 1..(Len(a) - i - n + 1) /\ j \in 1..(Len(a) - n) /\ i + n + q - 1 = j + n
        /\ ~(j <= i - 1)
    BY <1>0
  <2>2. (l \o r)[j] = r[q]
    BY <2>1, <1>3
  <2>3. r[q] = a[i + n + q - 1]
    <3> HIDE DEF q
    <3> QED
      BY <2>1, <1>2
  <2> QED
    BY <2>1, <2>2, <2>3
<1> QED
  BY <1>3, <1>4, <1>5, <1>6

\* The nodes of a range.
LEMMA SliceFact ==
  ASSUME NEW a \in Seq(Ynode), NEW i \in 1..Len(a), NEW n \in 1..(Len(a) - i + 1)
  PROVE  /\ Slice(a, i, n) \in Seq(Ynode)
         /\ Len(Slice(a, i, n)) = n
         /\ \A j \in 1..n : Slice(a, i, n)[j] = a[i + j - 1]
<1>0. Len(a) \in Nat /\ \A j \in 1..Len(a) : a[j] \in Ynode
  OBVIOUS
<1>1. \A j \in i..(i + n - 1) : a[j] \in Ynode
  BY <1>0
<1>2. i \in Int /\ i + n - 1 \in Int /\ i <= i + n - 1 /\ i + n - 1 - i + 1 = n
  BY <1>0
<1> QED
  BY <1>1, <1>2, SubSeqProperties DEF Slice

\* A node with another count is a node.
LEMMA YnodeExcept ==
  ASSUME NEW y \in Ynode, NEW d \in Nat
  PROVE  /\ [y EXCEPT !.desc = d] \in Ynode
         /\ [y EXCEPT !.desc = d].desc = d
         /\ [y EXCEPT !.desc = d].id = y.id
  BY DEF Ynode

\* A new node with its count is a node (ay_ynode_insert_gap).
LEMMA BlankFact ==
  ASSUME NEW id \in Nat, NEW d \in Nat
  PROVE  /\ [Blank(id) EXCEPT !.desc = d] \in Ynode
         /\ [Blank(id) EXCEPT !.desc = d].desc = d
         /\ [Blank(id) EXCEPT !.desc = d].id = id
<1>1. Blank(id) \in Ynode
  BY DEF Ynode, Blank, Null, YangType
<1>2. Blank(id).id = id
  BY DEF Blank
<1> QED
  BY <1>1, <1>2, YnodeExcept

\* Counting nodes up or down changes their counts alone.
LEMMA GrowFact ==
  ASSUME NEW a \in Seq(Ynode), NEW S, NEW d \in Int,
         \A j \in 1..Len(a) : j \in S => a[j].desc + d \in Nat
  PROVE  /\ Grow(a, S, d) \in Seq(Ynode)
         /\ Len(Grow(a, S, d)) = Len(a)
         /\ \A j \in 1..Len(a) :
              /\ Grow(a, S, d)[j].desc = IF j \in S THEN a[j].desc + d ELSE a[j].desc
              /\ Grow(a, S, d)[j].id = a[j].id
              /\ j \notin S => Grow(a, S, d)[j] = a[j]
<1>0. Len(a) \in Nat /\ \A j \in 1..Len(a) : a[j] \in Ynode
  OBVIOUS
<1>1. ASSUME NEW j \in 1..Len(a)
      PROVE  /\ Grow(a, S, d)[j] \in Ynode
             /\ Grow(a, S, d)[j].desc = IF j \in S THEN a[j].desc + d ELSE a[j].desc
             /\ Grow(a, S, d)[j].id = a[j].id
             /\ j \notin S => Grow(a, S, d)[j] = a[j]
  <2>1. CASE j \in S
    <3>1. a[j] \in Ynode /\ a[j].desc + d \in Nat
      BY <2>1, <1>0
    <3>2. Grow(a, S, d)[j] = [a[j] EXCEPT !.desc = a[j].desc + d]
      BY <2>1 DEF Grow
    <3> QED
      BY <2>1, <3>1, <3>2, YnodeExcept
  <2>2. CASE j \notin S
    BY <2>2, <1>0 DEF Grow
  <2> QED
    BY <2>1, <2>2
<1>2. Grow(a, S, d) \in [1..Len(a) -> Ynode]
  BY <1>1 DEF Grow
<1>3. Grow(a, S, d) \in Seq(Ynode) /\ Len(Grow(a, S, d)) = Len(a)
  BY <1>0, <1>2, SeqDef
<1> QED
  BY <1>1, <1>3

(***************************************************************************)
(* Sound arrays: insertion, deletion and copy.                             *)
(***************************************************************************)

\* The profile of an array.
Desc(a) == [k \in 1..Len(a) |-> a[k].desc]

\* The profile is a function to the numbers.
LEMMA DescFact ==
  ASSUME NEW a \in Seq(Ynode)
  PROVE  /\ Desc(a) \in [1..Len(a) -> Nat] /\ Len(a) \in Nat
         /\ \A j \in 1..Len(a) : a[j] \in Ynode /\ a[j].desc \in Nat /\ Desc(a)[j] = a[j].desc
<1>1. \A j \in 1..Len(a) : a[j] \in Ynode
  OBVIOUS
<1>2. \A j \in 1..Len(a) : a[j].desc \in Nat
  BY <1>1 DEF Ynode
<1> QED
  BY <1>1, <1>2 DEF Desc

\* WellFormed says that the profile is one of a preorder.
LEMMA WellFormedIsPreorder ==
  ASSUME NEW a \in Seq(Ynode)
  PROVE  WellFormed(a) <=> Preorder(Desc(a), Len(a))
<1> DEFINE D == Desc(a)
           n == Len(a)
<1>1. /\ D \in [1..n -> Nat] /\ n \in Nat
      /\ \A j \in 1..n : a[j].desc = D[j] /\ D[j] \in Nat
  BY DescFact
<1>2. \A j \in 1..n : Past(a, j) = j + D[j] + 1
  BY <1>1 DEF Past
<1> HIDE DEF D, n
<1>3. WellFormed(a) <=>
        /\ n >= 1
        /\ a[1].desc = n - 1
        /\ \A i, j \in 1..n : i < j /\ j < Past(a, i) => Past(a, j) <= Past(a, i)
  BY DEF WellFormed, n
<1>4. (\A i, j \in 1..n : i < j /\ j < Past(a, i) => Past(a, j) <= Past(a, i))
      <=> (\A i, j \in 1..n : i < j /\ j <= i + D[i] => j + D[j] <= i + D[i])
  <2>1. ASSUME NEW i \in 1..n, NEW j \in 1..n
        PROVE  /\ j < Past(a, i) <=> j <= i + D[i]
               /\ Past(a, j) <= Past(a, i) <=> j + D[j] <= i + D[i]
    BY <1>1, <1>2
  <2> QED
    BY <2>1
<1>5. n >= 1 => (a[1].desc = n - 1 <=> D[1] = n - 1)
  BY <1>1
<1>6. Preorder(D, n) <=>
        /\ n >= 1
        /\ D[1] = n - 1
        /\ \A i, j \in 1..n : i < j /\ j <= i + D[i] => j + D[j] <= i + D[i]
  BY <1>1 DEF Preorder
<1> QED
  BY <1>3, <1>4, <1>5, <1>6 DEF D, n

\* The ancestors of a node depend on the profile alone.
LEMMA AncestorsAreAnc ==
  ASSUME NEW a \in Seq(Ynode), NEW i \in 1..(Len(a) + 1)
  PROVE  Ancestors(a, i) = Anc(Desc(a), i)
<1>1. ASSUME NEW j \in 1..(i - 1) PROVE i < Past(a, j) <=> i <= j + Desc(a)[j]
  <2>1. j \in 1..Len(a)
    OBVIOUS
  <2>2. a[j].desc = Desc(a)[j] /\ a[j].desc \in Nat
    BY <2>1, DescFact
  <2> QED
    BY <2>2 DEF Past
<1> QED
  BY <1>1 DEF Ancestors, Anc

\* The part of TreeOK about the array, for the next identifier c.
Sound(a, c) ==
  /\ a \in Seq(Ynode)
  /\ Preorder(Desc(a), Len(a))
  /\ \A i \in 2..Len(a) : a[i].id \in 1..(c - 1)

\* What Sound says of each node.
LEMMA SoundFact ==
  ASSUME NEW a, NEW c, Sound(a, c)
  PROVE  /\ a \in Seq(Ynode) /\ Len(a) \in Nat \ {0}
         /\ Preorder(Desc(a), Len(a))
         /\ Desc(a) \in [1..Len(a) -> Nat]
         /\ \A j \in 1..Len(a) : a[j] \in Ynode /\ a[j].desc \in Nat /\ Desc(a)[j] = a[j].desc
         /\ \A j \in 2..Len(a) : a[j].id \in 1..(c - 1)
         /\ \A j \in 1..Len(a) : j + a[j].desc <= Len(a)
<1>1. a \in Seq(Ynode) /\ Preorder(Desc(a), Len(a))
  BY DEF Sound
<1>2. Len(a) \in Nat \ {0}
  BY <1>1 DEF Preorder
<1>3. /\ Desc(a) \in [1..Len(a) -> Nat]
      /\ \A j \in 1..Len(a) : a[j] \in Ynode /\ a[j].desc \in Nat /\ Desc(a)[j] = a[j].desc
  BY <1>1, DescFact
<1>4. ASSUME NEW j \in 1..Len(a) PROVE j + a[j].desc <= Len(a)
  <2>1. j + Desc(a)[j] <= Len(a)
    BY <1>1, <1>2, PreorderFacts
  <2> QED
    BY <2>1, <1>3
<1> QED
  BY <1>1, <1>2, <1>3, <1>4 DEF Sound

\* TreeOK in terms of Sound.
LEMMA TreeIsSound ==
  ASSUME NEW t
  PROVE  TreeOK(t) <=> /\ t \in YnodeTree /\ Sound(t.arr, t.idcnt)
                       /\ Len(t.arr) <= t.cap /\ t.ok
<1>1. t \in YnodeTree => t.arr \in Seq(Ynode)
  BY DEF YnodeTree
<1>2. t \in YnodeTree => (WellFormed(t.arr) <=> Preorder(Desc(t.arr), Len(t.arr)))
  BY <1>1, WellFormedIsPreorder
<1> QED
  BY <1>1, <1>2 DEF TreeOK, Sound

\* A node inserted where it fits leaves a sound array (ay_ynode_insert_gap).
LEMMA InsertGapSound ==
  ASSUME NEW a, NEW c \in Nat \ {0}, Sound(a, c), NEW S,
         NEW i \in Int, NEW d \in Int, Fits(Desc(a), Len(a), i, d, S),
         NEW y \in Ynode, y.id = c, y.desc = d
  PROVE  /\ Sound(InsertRange(Grow(a, S, 1), i, <<y>>), c + 1)
         /\ Len(InsertRange(Grow(a, S, 1), i, <<y>>)) = Len(a) + 1
<1> DEFINE n == Len(a)
           D == Desc(a)
           g == Grow(a, S, 1)
           s == <<y>>
           b == InsertRange(g, i, s)
<1>0. i \in 2..(n + 1) /\ d \in 0..(n + 1 - i)
  BY DEF Fits
<1>1. /\ a \in Seq(Ynode) /\ n \in Nat \ {0}
      /\ Preorder(D, n) /\ D \in [1..n -> Nat]
      /\ \A j \in 1..n : a[j] \in Ynode /\ a[j].desc \in Nat /\ D[j] = a[j].desc
  BY SoundFact
<1>2. /\ g \in Seq(Ynode) /\ Len(g) = n
      /\ \A j \in 1..n : /\ g[j].desc = IF j \in S THEN D[j] + 1 ELSE D[j]
                         /\ g[j].id = a[j].id
  <2>1. \A j \in 1..Len(a) : j \in S => a[j].desc + 1 \in Nat
    BY <1>1
  <2>2. a \in Seq(Ynode) /\ 1 \in Int
    BY <1>1
  <2>3. /\ g \in Seq(Ynode) /\ Len(g) = n
        /\ \A j \in 1..n : /\ g[j].desc = IF j \in S THEN a[j].desc + 1 ELSE a[j].desc
                           /\ g[j].id = a[j].id
    BY ONLY <2>1, <2>2, GrowFact
  <2> HIDE DEF g
  <2> QED
    BY <1>1, <2>3
<1> HIDE DEF g
<1>4. s \in Seq(Ynode) /\ Len(s) = 1 /\ s[1] = y
  OBVIOUS
<1> HIDE DEF s
<1>5. /\ b \in Seq(Ynode) /\ Len(b) = n + 1
      /\ \A j \in 1..(i - 1) : b[j] = g[j]
      /\ b[i] = y
      /\ \A j \in (i + 1)..(n + 1) : b[j] = g[j - 1]
  <2>1. i \in 1..(Len(g) + 1)
    BY <1>0, <1>1, <1>2
  <2>2. /\ b \in Seq(Ynode) /\ Len(b) = Len(g) + Len(s)
        /\ \A j \in 1..(i - 1) : b[j] = g[j]
        /\ \A j \in i..(i + Len(s) - 1) : b[j] = s[j - i + 1]
        /\ \A j \in (i + Len(s))..(Len(g) + Len(s)) : b[j] = g[j - Len(s)]
    <3>1. g \in Seq(Ynode) /\ s \in Seq(Ynode)
      BY <1>2, <1>4
    <3> QED
      BY ONLY <3>1, <2>1, InsertRangeFact
  <2> HIDE DEF b
  <2>3. b[i] = s[1]
    BY <1>0, <1>1, <1>4, <2>2
  <2> QED
    BY <2>2, <2>3, <1>0, <1>1, <1>2, <1>4
<1> HIDE DEF b, n, D
<1>7. /\ Desc(b) \in [1..(n + 1) -> Nat]
      /\ \A j \in 1..(n + 1) : Desc(b)[j] = b[j].desc
  BY <1>5, DescFact
<1>8. Wraps(Desc(b), D, n, i, d, S)
  <2>0. i \in 2..(n + 1) /\ d \in 0..(n + 1 - i) /\ Fits(D, n, i, d, S)
    BY <1>0 DEF D, n
  <2>1. ASSUME NEW j \in 1..(i - 1)
        PROVE  Desc(b)[j] = IF j \in S THEN D[j] + 1 ELSE D[j]
    <3>1. j \in 1..n /\ j \in 1..(n + 1)
      BY <1>1, <2>0
    <3> QED
      BY <3>1, <1>2, <1>5, <1>7
  <2>2. Desc(b)[i] = d
    BY <1>5, <1>7, <2>0
  <2>3. ASSUME NEW j \in (i + 1)..(n + 1) PROVE Desc(b)[j] = D[j - 1]
    <3>1. j - 1 \in 1..n /\ j \in 1..(n + 1)
      BY <1>1, <2>0
    <3>2. j - 1 \notin S
      BY <3>1, <2>0 DEF Above, Fits
    <3>3. Desc(b)[j] = g[j - 1].desc
      BY <3>1, <1>5, <1>7
    <3> QED
      BY <3>1, <3>2, <3>3, <1>2
  <2> QED
    BY <1>7, <2>0, <2>1, <2>2, <2>3 DEF Wraps
<1>9. Preorder(Desc(b), n + 1)
  BY <1>1, <1>8, PreorderWrap
<1>10. ASSUME NEW j \in 2..(n + 1) PROVE b[j].id \in 1..(c + 1 - 1)
  <2>00. i \in 2..(n + 1)
    BY <1>0
  <2>0. \A k \in 2..n : g[k].id \in 1..(c - 1)
    BY <1>2 DEF Sound, n
  <2>1. CASE j < i
    <3>1. j \in 2..n /\ j \in 1..(i - 1)
      BY <2>1, <2>00, <1>1
    <3> QED
      BY <2>0, <3>1, <1>5
  <2>2. CASE j = i
    BY <2>2, <1>1, <1>5
  <2>3. CASE j > i
    <3>1. j - 1 \in 2..n /\ j \in (i + 1)..(n + 1)
      BY <2>3, <2>00, <1>1
    <3>2. b[j].id = g[j - 1].id
      BY <3>1, <1>5
    <3>3. b[j].id \in 1..(c - 1)
      BY <2>0, <3>1, <3>2
    <3> QED
      BY <3>3
  <2> QED
    BY <2>00, <2>1, <2>2, <2>3
<1>11. Sound(b, c + 1)
  BY <1>5, <1>9, <1>10 DEF Sound
<1> QED
  BY <1>5, <1>11 DEF b, g, s, n

\* Every insertion of one node that fits, into memory that is left, leaves a
\* sound tree (ay_ynode_insert_gap).
LEMMA InsertGapOK ==
  ASSUME NEW t, TreeOK(t), Len(t.arr) < t.cap,
         NEW i \in Int, NEW d \in Nat, NEW S, Fits(Desc(t.arr), Len(t.arr), i, d, S)
  PROVE  TreeOK(InsertGap(t, i, d, S))
<1> DEFINE y == [Blank(t.idcnt) EXCEPT !.desc = d]
           b == InsertRange(Grow(t.arr, S, 1), i, <<y>>)
           o == (t.ok /\ Len(t.arr) < t.cap)
           u == [t EXCEPT !.arr = b, !.idcnt = t.idcnt + 1, !.ok = o]
<1>1. /\ t.idcnt \in Nat \ {0} /\ Sound(t.arr, t.idcnt) /\ o /\ t.cap \in Nat
      /\ t \in YnodeTree /\ Len(t.arr) \in Nat
  BY TreeIsSound, SoundFact DEF YnodeTree
<1>2. y \in Ynode /\ y.desc = d /\ y.id = t.idcnt
  BY <1>1, BlankFact
<1>3. Sound(b, t.idcnt + 1) /\ Len(b) = Len(t.arr) + 1
  <2> HIDE DEF y
  <2> QED
    BY <1>1, <1>2, InsertGapSound
<1>4. InsertGap(t, i, d, S) = u
  BY DEF InsertGap
<1> HIDE DEF b, y
<1>5. o \in BOOLEAN /\ Len(b) <= t.cap /\ t.idcnt + 1 \in Nat \ {0} /\ b \in Seq(Ynode)
  BY <1>1, <1>3 DEF Sound
<1> HIDE DEF o
<1>6. u \in YnodeTree
  BY <1>1, <1>5, Zenon DEF YnodeTree
<1>7. u.arr = b /\ u.cap = t.cap /\ u.idcnt = t.idcnt + 1
  BY <1>1 DEF YnodeTree
<1>8. u.ok
  BY <1>1, <1>5, Zenon DEF YnodeTree
<1> HIDE DEF u
<1>9. TreeOK(u)
  BY <1>3, <1>5, <1>6, <1>7, <1>8, TreeIsSound
<1> QED
  BY <1>4, <1>9

\* Nodes cut out of a sound array leave a sound one (ay_ynode_delete_gap).
LEMMA CutSound ==
  ASSUME NEW a, NEW c, Sound(a, c), NEW i \in Int, NEW m \in Int, NEW S,
         Covers(Desc(a), Len(a), i, m, S)
  PROVE  /\ Sound(DeleteGap(Grow(a, S, -m), i, m), c)
         /\ Len(DeleteGap(Grow(a, S, -m), i, m)) = Len(a) - m
<1> DEFINE n == Len(a)
           D == Desc(a)
           g == Grow(a, S, -m)
           b == DeleteGap(g, i, m)
<1>0. /\ i \in 2..n /\ m \in 1..(n - i + 1)
      /\ \A j \in S : j \in 1..(i - 1) /\ i + m <= j + D[j] + 1
  BY DEF Covers
<1>1. /\ a \in Seq(Ynode) /\ n \in Nat \ {0}
      /\ Preorder(D, n) /\ D \in [1..n -> Nat]
      /\ \A j \in 1..n : a[j] \in Ynode /\ a[j].desc \in Nat /\ D[j] = a[j].desc
      /\ \A j \in 2..n : a[j].id \in 1..(c - 1)
  BY SoundFact
<1>2. /\ g \in Seq(Ynode) /\ Len(g) = n
      /\ \A j \in 1..n : /\ g[j].desc = IF j \in S THEN D[j] - m ELSE D[j]
                         /\ g[j].id = a[j].id
  <2>1. -m \in Int
    OBVIOUS
  <2>2. ASSUME NEW j \in 1..Len(a), j \in S PROVE a[j].desc + (-m) \in Nat /\ a[j].desc + (-m) = D[j] - m
    <3>1. i + m <= j + D[j] + 1 /\ D[j] \in Nat /\ a[j].desc = D[j] /\ j < i
      BY <1>0, <1>1, <2>2
    <3>2. j \in Nat /\ i \in Nat /\ m \in Nat
      BY <1>0, <1>1
    <3> HIDE DEF D, n
    <3>3. D[j] + (-m) \in Nat /\ D[j] + (-m) = D[j] - m
      BY ONLY <3>1, <3>2
    <3> QED
      BY ONLY <3>1, <3>3
  <2>3. /\ g \in Seq(Ynode) /\ Len(g) = n
        /\ \A j \in 1..n : /\ g[j].desc = IF j \in S THEN a[j].desc + (-m) ELSE a[j].desc
                           /\ g[j].id = a[j].id
    <3>1. a \in Seq(Ynode) /\ \A j \in 1..Len(a) : j \in S => a[j].desc + (-m) \in Nat
      BY <1>1, <2>2
    <3> QED
      BY ONLY <2>1, <3>1, GrowFact
  <2> HIDE DEF g
  <2> QED
    BY <1>1, <2>2, <2>3
<1> HIDE DEF g
<1>5. /\ b \in Seq(Ynode) /\ Len(b) = n - m
      /\ \A j \in 1..(i - 1) : b[j] = g[j]
      /\ \A j \in i..(n - m) : b[j] = g[j + m]
  <2>1. g \in Seq(Ynode) /\ i \in 1..(Len(g) + 1) /\ m \in 0..(Len(g) - i + 1)
    BY <1>0, <1>1, <1>2
  <2>2. /\ b \in Seq(Ynode) /\ Len(b) = Len(g) - m
        /\ \A j \in 1..(i - 1) : b[j] = g[j]
        /\ \A j \in i..(Len(g) - m) : b[j] = g[j + m]
    BY ONLY <2>1, DeleteGapFact
  <2> HIDE DEF b
  <2> QED
    BY <2>2, <1>2
<1> HIDE DEF b, n, D
<1>7. /\ Desc(b) \in [1..(n - m) -> Nat]
      /\ \A j \in 1..(n - m) : Desc(b)[j] = b[j].desc
  BY <1>5, DescFact
<1>8. Cuts(Desc(b), D, n, i, m, S)
  <2>1. ASSUME NEW j \in 1..(i - 1)
        PROVE  Desc(b)[j] = IF j \in S THEN D[j] - m ELSE D[j]
    <3>1. j \in 1..n /\ j \in 1..(n - m)
      BY <1>0, <1>1
    <3> QED
      BY <3>1, <1>2, <1>5, <1>7
  <2>2. ASSUME NEW j \in i..(n - m) PROVE Desc(b)[j] = D[j + m]
    <3>1. j + m \in 1..n /\ j \in 1..(n - m) /\ j + m >= i
      BY <1>0, <1>1
    <3>2. j + m \notin S
      BY <3>1, <1>0
    <3>3. Desc(b)[j] = g[j + m].desc
      BY <3>1, <1>5, <1>7
    <3> QED
      BY <3>1, <3>2, <3>3, <1>2
  <2>3. Covers(D, n, i, m, S)
    BY DEF D, n
  <2> QED
    BY <1>7, <2>1, <2>2, <2>3 DEF Cuts
<1>9. Preorder(Desc(b), n - m)
  BY <1>1, <1>8, PreorderCut
<1>10. ASSUME NEW j \in 2..(n - m) PROVE b[j].id \in 1..(c - 1)
  <2>1. CASE j < i
    <3>1. j \in 2..n /\ j \in 1..(i - 1)
      BY <2>1, <1>0, <1>1
    <3>2. b[j].id = a[j].id
      BY <3>1, <1>2, <1>5
    <3> QED
      BY <3>1, <3>2, <1>1
  <2>2. CASE j >= i
    <3>1. j + m \in 2..n /\ j \in i..(n - m)
      BY <2>2, <1>0, <1>1
    <3>2. b[j].id = a[j + m].id
      BY <3>1, <1>2, <1>5
    <3> QED
      BY <3>1, <3>2, <1>1
  <2> QED
    BY <1>0, <2>1, <2>2
<1>11. Sound(b, c)
  BY <1>5, <1>9, <1>10 DEF Sound
<1> QED
  BY <1>5, <1>11 DEF b, g, n

\* Nodes deleted below their ancestors leave a sound tree.
LEMMA DeleteRangeOK ==
  ASSUME NEW t, TreeOK(t), NEW i \in Int, NEW m \in Int,
         Covers(Desc(t.arr), Len(t.arr), i, m, Anc(Desc(t.arr), i))
  PROVE  TreeOK(DeleteRange(t, i, m))
<1> DEFINE b == DeleteGap(Grow(t.arr, Anc(Desc(t.arr), i), -m), i, m)
           u == [t EXCEPT !.arr = b]
<1>1. /\ Sound(t.arr, t.idcnt) /\ t.ok /\ t.cap \in Nat /\ Len(t.arr) <= t.cap
      /\ t \in YnodeTree /\ Len(t.arr) \in Nat /\ t.arr \in Seq(Ynode)
  BY TreeIsSound, SoundFact DEF YnodeTree
<1>2. i \in 1..(Len(t.arr) + 1) /\ m \in Nat
  BY <1>1 DEF Covers
<1>3. Sound(b, t.idcnt) /\ Len(b) = Len(t.arr) - m
  BY <1>1, CutSound
<1>4. DeleteRange(t, i, m) = u
  BY <1>1, <1>2, AncestorsAreAnc DEF DeleteRange
<1> HIDE DEF b
<1>5. Len(b) <= t.cap /\ b \in Seq(Ynode)
  BY <1>1, <1>2, <1>3 DEF Sound
<1>6. u \in YnodeTree
  BY <1>1, <1>5, Zenon DEF YnodeTree
<1>7. u.arr = b /\ u.cap = t.cap /\ u.idcnt = t.idcnt
  BY <1>1 DEF YnodeTree
<1>8. u.ok
  BY <1>1, <1>5, Zenon DEF YnodeTree
<1> HIDE DEF u
<1>9. TreeOK(u)
  BY <1>3, <1>5, <1>6, <1>7, <1>8, TreeIsSound
<1> QED
  BY <1>4, <1>9

\* The number of nodes of the subtree at i.
Size(a, i) == a[i].desc + 1

\* b is a with a copy of the subtree at src in the gap at g below T, before
\* the 'when' references of the copy are corrected.
Copies(a, src, m, g, T, b) ==
  /\ m = Size(a, src)
  /\ Fits(Desc(a), Len(a), g, 0, T) /\ src \notin T
  /\ b = InsertRange(Grow(a, T, m), g, Slice(a, src, m))

\* A copied subtree leaves a sound array; it says where the old nodes are and
\* that src, in front of the gap, has kept its count (ay_ynode_copy_subtree).
LEMMA CopySound ==
  ASSUME NEW a, NEW c, Sound(a, c), NEW src \in 2..Len(a), NEW m \in Int,
         NEW g \in Int, NEW T, NEW b, Copies(a, src, m, g, T, b)
  PROVE  /\ Sound(b, c) /\ Len(b) = Len(a) + m
         /\ \A j \in 1..(g - 1) : b[j].id = a[j].id
         /\ \A j \in (g + m)..(Len(a) + m) : b[j].id = a[j - m].id
         /\ src < g => b[src].desc = m - 1
         /\ m \in Nat /\ m >= 1 /\ src + m <= Len(a) + 1 /\ Len(a) \in Nat
         /\ g \in 2..(Len(a) + 1)
<1> DEFINE n == Len(a)
           D == Desc(a)
           x == Grow(a, T, m)
           s == Slice(a, src, m)
<1>15. b = InsertRange(x, g, s)
  BY DEF Copies
<1>1. /\ a \in Seq(Ynode) /\ n \in Nat \ {0}
      /\ Preorder(D, n) /\ D \in [1..n -> Nat]
      /\ \A j \in 1..n : a[j] \in Ynode /\ a[j].desc \in Nat /\ D[j] = a[j].desc
      /\ \A j \in 2..n : a[j].id \in 1..(c - 1)
      /\ src + D[src] <= n
  BY SoundFact
<1>0. /\ g \in 2..(n + 1) /\ Above(D, T, g, g) /\ m \in 1..(n - src + 1) /\ m = D[src] + 1
      /\ \A j \in T : j \in 1..(g - 1)
  <2>1. g + 0 = g /\ Above(D, T, g, g + 0)
    BY DEF Fits, Copies
  <2> QED
    BY <1>1, <2>1 DEF Fits, Above, Size, Copies
<1>6. /\ n \in Nat /\ m \in Nat /\ m >= 1 /\ src \in 2..n /\ src + m <= n + 1
      /\ g \in 2..(n + 1) /\ src + D[src] = src + m - 1 /\ D[src] = m - 1
  <2>1. src \in 2..n /\ n \in Nat /\ g \in 2..(n + 1) /\ m \in 1..(n - src + 1)
    BY <1>0, <1>1
  <2>2. m = D[src] + 1 /\ D[src] \in Nat
    BY <1>0, <1>1
  <2> HIDE DEF n, D
  <2> QED
    BY <2>1, <2>2
<1>2. /\ x \in Seq(Ynode) /\ Len(x) = n
      /\ \A j \in 1..n : /\ x[j].desc = IF j \in T THEN D[j] + m ELSE D[j]
                         /\ x[j].id = a[j].id
  <2>1. \A j \in 1..Len(a) : j \in T => a[j].desc + m \in Nat
    BY <1>6, <1>1
  <2> QED
    <3>1. /\ x \in Seq(Ynode) /\ Len(x) = n
          /\ \A j \in 1..n : /\ x[j].desc = IF j \in T THEN a[j].desc + m ELSE a[j].desc
                             /\ x[j].id = a[j].id
      <4>1. m \in Int /\ a \in Seq(Ynode)
        BY <1>1
      <4> QED
        BY <2>1, <4>1, GrowFact
    <3> HIDE DEF x
    <3> QED
      BY <1>1, <3>1
<1> HIDE DEF x
<1>3. /\ s \in Seq(Ynode) /\ Len(s) = m
      /\ \A j \in 1..m : s[j] = a[src + j - 1]
  <2>1. src \in 1..Len(a) /\ m \in 1..(Len(a) - src + 1) /\ a \in Seq(Ynode)
    BY <1>0, <1>1
  <2> QED
    BY ONLY <2>1, SliceFact
<1> HIDE DEF s
<1>5. /\ b \in Seq(Ynode) /\ Len(b) = n + m
      /\ \A j \in 1..(g - 1) : b[j] = x[j]
      /\ \A j \in g..(g + m - 1) : b[j] = a[src + (j - g)]
      /\ \A j \in (g + m)..(n + m) : b[j] = x[j - m]
  <2>1. x \in Seq(Ynode) /\ s \in Seq(Ynode) /\ g \in 1..(Len(x) + 1)
    BY <1>0, <1>1, <1>2, <1>3
  <2>2. /\ b \in Seq(Ynode) /\ Len(b) = Len(x) + Len(s)
        /\ \A j \in 1..(g - 1) : b[j] = x[j]
        /\ \A j \in g..(g + Len(s) - 1) : b[j] = s[j - g + 1]
        /\ \A j \in (g + Len(s))..(Len(x) + Len(s)) : b[j] = x[j - Len(s)]
    BY ONLY <2>1, <1>15, InsertRangeFact
  <2>3. ASSUME NEW j \in g..(g + m - 1) PROVE b[j] = a[src + (j - g)]
    <3>1. j - g + 1 \in 1..m /\ src + (j - g + 1) - 1 = src + (j - g)
      BY <1>6
    <3>2. b[j] = s[j - g + 1]
      BY <2>2, <1>3
    <3>3. s[j - g + 1] = a[src + (j - g + 1) - 1]
      BY <3>1, <1>3
    <3> QED
      BY <3>1, <3>2, <3>3
  <2> QED
    BY <2>2, <2>3, <1>2, <1>3
<1> HIDE DEF n, D
<1>7. /\ Desc(b) \in [1..(n + m) -> Nat]
      /\ \A j \in 1..(n + m) : Desc(b)[j] = b[j].desc
  BY <1>0, <1>5, DescFact
<1>8. AddsBlock(Desc(b), D, n, g, m, T)
  <2>1. ASSUME NEW j \in 1..(g - 1)
        PROVE  Desc(b)[j] = IF j \in T THEN D[j] + m ELSE D[j]
    <3>1. j \in 1..n /\ j \in 1..(n + m)
      BY <1>6
    <3> QED
      BY <3>1, <1>2, <1>5, <1>7
  <2>2. ASSUME NEW j \in (g + m)..(n + m) PROVE Desc(b)[j] = D[j - m]
    <3>1. j - m \in 1..n /\ j \in 1..(n + m) /\ j - m >= g
      BY <1>6
    <3>2. j - m \notin T
      BY <3>1, <1>0
    <3>3. Desc(b)[j] = x[j - m].desc
      BY <3>1, <1>5, <1>7
    <3> QED
      BY <3>1, <3>2, <3>3, <1>2
  <2>3. ASSUME NEW j \in g..(g + m - 1)
        PROVE  /\ src + (j - g) \in 1..n
               /\ Desc(b)[j] = D[src + (j - g)] /\ D[src + (j - g)] \in Nat
               /\ src + (j - g) + D[src + (j - g)] <= src + D[src]
    <3> DEFINE q == src + (j - g)
    <3>1. q \in 1..n /\ q >= src /\ q <= src + D[src] /\ j \in 1..(n + m) /\ src \in 1..n
      BY <1>6
    <3>2. b[j] = a[q]
      BY <1>5
    <3>3. Desc(b)[j] = b[j].desc
      BY <3>1, <1>7
    <3> HIDE DEF q
    <3>4. Desc(b)[j] = D[q] /\ D[q] \in Nat
      BY <3>1, <3>2, <3>3, <1>1
    <3>5. q + D[q] <= src + D[src]
      BY <3>1 , <1>1 DEF Preorder
    <3> QED
      BY <3>1, <3>4, <3>5 DEF q
  <2>4. \A j \in g..(g + m - 1) : j + Desc(b)[j] < g + m
    <3> SUFFICES ASSUME NEW j \in g..(g + m - 1) PROVE j + Desc(b)[j] < g + m
      OBVIOUS
    <3>1. /\ Desc(b)[j] = D[src + (j - g)] /\ D[src + (j - g)] \in Nat
          /\ src + (j - g) + D[src + (j - g)] <= src + D[src]
      BY <2>3
    <3> QED
      BY <3>1, <1>6
  <2>5. ASSUME NEW j \in g..(g + m - 1), NEW k \in g..(g + m - 1), j < k, k <= j + Desc(b)[j]
        PROVE  k + Desc(b)[k] <= j + Desc(b)[j]
    <3> DEFINE q == src + (j - g)
               r == src + (k - g)
    <3>1. /\ q \in 1..n /\ Desc(b)[j] = D[q] /\ D[q] \in Nat
          /\ r \in 1..n /\ Desc(b)[k] = D[r] /\ D[r] \in Nat
      BY <2>3
    <3>2. q < r /\ r <= q + D[q]
      BY <3>1, <2>5, <1>6
    <3>0. q = src + (j - g) /\ r = src + (k - g)
      OBVIOUS
    <3> HIDE DEF q, r
    <3>3. r + D[r] <= q + D[q]
      BY <3>1, <3>2, <1>1 DEF Preorder
    <3>4. r - q = k - j /\ q \in Int /\ r \in Int /\ j \in Int /\ k \in Int
      BY <3>0, <1>6
    <3>5. k + D[r] <= j + D[q]
      BY <3>1, <3>3, <3>4
    <3> QED
      BY <3>1, <3>5
  <2> QED
    BY <1>0, <1>7, <2>1, <2>2, <2>4, <2>5 DEF AddsBlock
<1>9. Preorder(Desc(b), n + m)
  <2>1. m \in Nat /\ n \in Nat
    BY <1>0, <1>1
  <2> QED
    BY <1>1, <1>8, <2>1, PreorderBlock
<1>10. /\ \A j \in g..(g + m - 1) : b[j].id = a[src + (j - g)].id
       /\ \A j \in 1..(g - 1) : b[j].id = a[j].id
       /\ \A j \in (g + m)..(n + m) : b[j].id = a[j - m].id
  <2>1. ASSUME NEW j \in 1..(g - 1) PROVE b[j].id = a[j].id
    <3>1. j \in 1..n
      BY <1>6
    <3> QED
      BY <3>1, <1>2, <1>5
  <2>2. ASSUME NEW j \in (g + m)..(n + m) PROVE b[j].id = a[j - m].id
    <3>1. j - m \in 1..n
      BY <1>6
    <3> QED
      BY <3>1, <1>2, <1>5
  <2> QED
    BY <2>1, <2>2, <1>5
<1>11. ASSUME NEW j \in 2..(n + m) PROVE b[j].id \in 1..(c - 1)
  <2>1. PICK k \in 2..n : b[j].id = a[k].id
    <3>1. CASE j < g
      <4>1. j \in 1..(g - 1) /\ j \in 2..n
        BY <3>1, <1>6
      <4> QED
        BY <4>1, <1>10
    <3>2. CASE j \in g..(g + m - 1)
      <4>1. src + (j - g) \in 2..n
        BY <3>2, <1>6
      <4> QED
        BY <3>2, <4>1, <1>10
    <3>3. CASE j >= g + m
      <4>1. j - m \in 2..n /\ j \in (g + m)..(n + m)
        BY <3>3, <1>6
      <4> QED
        BY <4>1, <1>10
    <3> QED
      BY <3>1, <3>2, <3>3, <1>0, <1>1
  <2> QED
    BY <2>1, <1>1
<1>12. Sound(b, c)
  BY <1>5, <1>9, <1>11 DEF Sound
<1>14. src < g => b[src].desc = m - 1
  <2> SUFFICES ASSUME src < g PROVE b[src].desc = m - 1
    OBVIOUS
  <2>1. src \in 1..(g - 1) /\ src \in 1..n /\ src \notin T
    BY <1>0, <1>6 DEF Copies
  <2> QED
    BY <2>1, <1>6, <1>2, <1>5
<1> QED
  BY <1>5, <1>6, <1>10, <1>12, <1>14 DEF n

(***************************************************************************)
(* Moves.                                                                  *)
(***************************************************************************)

\* The index of the destination once the m nodes at src are out.
MoveTo(g, src, m) == IF g <= src THEN g ELSE g - m

\* The gap at g and the nodes T above it are outside of the m nodes at src.
Outside(g, T, src, m) ==
  /\ g <= src \/ g >= src + m
  /\ T \cap (src..(src + m - 1)) = {}

\* The array after both corrections of a move and before its nodes are taken
\* to their place.
Resized(a, src, m, T) == Grow(Grow(a, Anc(Desc(a), src), -m), T, m)

\* Both corrections of a move, together: the counts are those of Moved and
\* the moved nodes have not changed.
LEMMA GrowTwice ==
  ASSUME NEW a, NEW c, Sound(a, c), NEW src \in 2..Len(a), NEW m \in Int, m = Size(a, src),
         NEW g, NEW T, Outside(g, T, src, m)
  PROVE  LET x == Resized(a, src, m, T)
         IN  /\ x \in Seq(Ynode) /\ Len(x) = Len(a)
             /\ \A j \in 1..Len(a) : /\ x[j].desc = Moved(Desc(a), src, m, T, j)
                                     /\ x[j].id = a[j].id
             /\ \A j \in src..(src + m - 1) : x[j] = a[j]
             /\ Covers(Desc(a), Len(a), src, m, Anc(Desc(a), src))
<1> DEFINE n == Len(a)
           D == Desc(a)
           up == Anc(D, src)
           w == Grow(a, up, -m)
           x == Grow(w, T, m)
<1>1. /\ a \in Seq(Ynode) /\ n \in Nat \ {0}
      /\ Preorder(D, n) /\ D \in [1..n -> Nat]
      /\ \A j \in 1..n : a[j] \in Ynode /\ a[j].desc \in Nat /\ D[j] = a[j].desc
  BY SoundFact
<1>2. m = D[src] + 1 /\ D[src] \in Nat /\ m \in Nat
  BY <1>1 DEF Size
<1>3. Covers(D, n, src, m, up)
  BY <1>1, <1>2, SubtreeCut
<1>4. /\ m \in 1..(n - src + 1)
      /\ \A j \in up : j \in 1..(src - 1) /\ src + m <= j + D[j] + 1
  BY <1>3 DEF Covers
<1> HIDE DEF up
<1>5. /\ w \in Seq(Ynode) /\ Len(w) = n
      /\ \A j \in 1..n : /\ w[j].desc = IF j \in up THEN D[j] - m ELSE D[j]
                         /\ w[j].desc \in Nat
                         /\ w[j].id = a[j].id
                         /\ j \notin up => w[j] = a[j]
  <2>1. -m \in Int
    BY <1>2
  <2>2. ASSUME NEW j \in 1..Len(a), j \in up
        PROVE  a[j].desc + (-m) \in Nat /\ a[j].desc + (-m) = D[j] - m
    <3>1. src + m <= j + D[j] + 1 /\ D[j] \in Nat /\ a[j].desc = D[j] /\ j < src
      BY <1>1, <1>4, <2>2
    <3>2. j \in Nat /\ src \in Nat /\ m \in Nat
      BY <1>1, <1>2
    <3> HIDE DEF D, n
    <3>3. D[j] + (-m) \in Nat /\ D[j] + (-m) = D[j] - m
      BY ONLY <3>1, <3>2
    <3> QED
      BY ONLY <3>1, <3>3
  <2>3. /\ w \in Seq(Ynode) /\ Len(w) = n
        /\ \A j \in 1..n : /\ w[j].desc = IF j \in up THEN a[j].desc + (-m) ELSE a[j].desc
                           /\ w[j].id = a[j].id
                           /\ j \notin up => w[j] = a[j]
    <3>1. a \in Seq(Ynode) /\ \A j \in 1..Len(a) : j \in up => a[j].desc + (-m) \in Nat
      BY <1>1, <2>2
    <3> QED
      BY ONLY <2>1, <3>1, GrowFact
  <2> HIDE DEF w
  <2>4. ASSUME NEW j \in 1..n
        PROVE  /\ w[j].desc = IF j \in up THEN D[j] - m ELSE D[j]
               /\ w[j].desc \in Nat
    <3>1. CASE j \in up
      BY <3>1, <2>2, <2>3
    <3>2. CASE j \notin up
      BY <3>2, <1>1, <2>3
    <3> QED
      BY <3>1, <3>2
  <2> HIDE DEF n, D
  <2> QED
    BY <2>3, <2>4
<1> HIDE DEF w
<1>6. /\ x \in Seq(Ynode) /\ Len(x) = n
      /\ \A j \in 1..n : /\ x[j].desc = IF j \in T THEN w[j].desc + m ELSE w[j].desc
                         /\ x[j].id = w[j].id
                         /\ j \notin T => x[j] = w[j]
  <2>1. \A j \in 1..Len(w) : j \in T => w[j].desc + m \in Nat
    BY <1>2, <1>5
  <2>2. w \in Seq(Ynode) /\ m \in Int
    BY <1>5
  <2>3. /\ x \in Seq(Ynode) /\ Len(x) = Len(w)
        /\ \A j \in 1..Len(w) : /\ x[j].desc = IF j \in T THEN w[j].desc + m ELSE w[j].desc
                                /\ x[j].id = w[j].id
                                /\ j \notin T => x[j] = w[j]
    BY ONLY <2>1, <2>2, GrowFact
  <2> HIDE DEF x
  <2> QED
    BY <2>3, <1>5
<1> HIDE DEF x, n, D
<1>7. ASSUME NEW j \in 1..n
      PROVE  x[j].desc = Moved(D, src, m, T, j) /\ x[j].id = a[j].id
  BY <1>5, <1>6 DEF Moved, up
<1>8. ASSUME NEW j \in src..(src + m - 1) PROVE x[j] = a[j]
  <2>1. j \in 1..n
    BY <1>1, <1>4 DEF n
  <2>2. j \notin up /\ j \notin T
    BY <1>4 DEF Outside
  <2> QED
    BY <2>1, <2>2, <1>5, <1>6
<1> QED
  BY <1>3, <1>6, <1>7, <1>8 DEF x, w, up, n, D, Resized

\* The parts of a move of the subtree at src to the gap at g.
MovesTo(a, src, m, g, h, T, x) ==
  /\ m = Size(a, src)
  /\ Fits(Desc(a), Len(a), g, 0, T)
  /\ Outside(g, T, src, m)
  /\ h = MoveTo(g, src, m)
  /\ x = Resized(a, src, m, T)

\* A moved subtree leaves a sound array, whether it comes to lie in front of
\* its old place, behind it or on it (ay_ynode_move_subtree).
LEMMA MoveSound ==
  ASSUME NEW a, NEW c, Sound(a, c), NEW src \in 2..Len(a), NEW m \in Int,
         NEW g \in Int, NEW h \in Int, NEW T, NEW x, MovesTo(a, src, m, g, h, T, x)
  PROVE  /\ Sound(InsertRange(DeleteGap(x, src, m), h, Slice(x, src, m)), c)
         /\ Len(InsertRange(DeleteGap(x, src, m), h, Slice(x, src, m))) = Len(a)
         /\ g = src => Sound(x, c) /\ Len(x) = Len(a)
<1> DEFINE n == Len(a)
           D == Desc(a)
           w == DeleteGap(x, src, m)
           s == Slice(x, src, m)
           b == InsertRange(w, h, s)
<1>1. /\ a \in Seq(Ynode) /\ n \in Nat \ {0}
      /\ Preorder(D, n) /\ D \in [1..n -> Nat]
      /\ \A j \in 2..n : a[j].id \in 1..(c - 1)
      /\ \A j \in 1..n : D[j] = a[j].desc /\ D[j] \in Nat
  BY SoundFact
<1>2. /\ x \in Seq(Ynode) /\ Len(x) = n
      /\ \A j \in 1..n : x[j].desc = Moved(D, src, m, T, j) /\ x[j].id = a[j].id
      /\ \A j \in src..(src + m - 1) : x[j] = a[j]
      /\ Covers(D, n, src, m, Anc(D, src))
  <2>1. /\ m = Size(a, src) /\ Outside(g, T, src, m)
        /\ Sound(a, c) /\ src \in 2..Len(a) /\ m \in Int
    BY DEF MovesTo
  <2>2. x = Resized(a, src, m, T)
    BY DEF MovesTo
  <2> DEFINE r == Resized(a, src, m, T)
  <2>3. /\ r \in Seq(Ynode) /\ Len(r) = n
        /\ \A j \in 1..n : r[j].desc = Moved(D, src, m, T, j) /\ r[j].id = a[j].id
        /\ \A j \in src..(src + m - 1) : r[j] = a[j]
        /\ Covers(D, n, src, m, Anc(D, src))
    BY ONLY <2>1, GrowTwice
  <2>4. x = r
    BY <2>2
  <2> HIDE DEF r, n, D
  <2> QED
    BY ONLY <2>3, <2>4
<1>3. m = D[src] + 1 /\ m \in 1..(n - src + 1)
  <2>1. m \in 1..(n - src + 1)
    BY <1>2 DEF Covers
  <2> QED
    BY <2>1, <1>1 DEF Size, MovesTo
<1>4. g \in 2..(n + 1) /\ Above(D, T, g, g)
  <2>1. g + 0 = g /\ g \in 2..(n + 1) /\ Above(D, T, g, g + 0)
    BY DEF Fits, MovesTo
  <2> QED
    BY <2>1
<1>40. src \in 2..n
  OBVIOUS
<1> HIDE DEF n, D
<1>5. /\ n \in Nat /\ m \in Nat /\ m >= 1 /\ src \in 2..n /\ src + m <= n + 1
      /\ h \in 2..(n - m + 1) /\ (g <= src \/ g >= src + m)
      /\ h = (IF g <= src THEN g ELSE g - m)
  <2>1. n \in Nat /\ m \in 1..(n - src + 1) /\ g \in 2..(n + 1)
    BY <1>1, <1>3, <1>4
  <2> QED
    BY <2>1, <1>40 DEF Outside, MoveTo, MovesTo
<1>50. n \in Nat /\ m \in Nat /\ m >= 1 /\ src \in 2..n /\ src + m <= n + 1
       /\ h \in 2..(n - m + 1)
  BY <1>5
<1>6. /\ w \in Seq(Ynode) /\ Len(w) = n - m
      /\ \A j \in 1..(n - m) : w[j] = x[Origin(j, src, m)]
  <2>1. x \in Seq(Ynode) /\ src \in 1..(Len(x) + 1) /\ m \in 0..(Len(x) - src + 1)
    BY <1>2, <1>50
  <2>2. /\ w \in Seq(Ynode) /\ Len(w) = Len(x) - m
        /\ \A j \in 1..(src - 1) : w[j] = x[j]
        /\ \A j \in src..(Len(x) - m) : w[j] = x[j + m]
    BY ONLY <2>1, DeleteGapFact
  <2> HIDE DEF w
  <2>3. ASSUME NEW j \in 1..(n - m) PROVE w[j] = x[Origin(j, src, m)]
    <3>1. CASE j < src
      <4>1. Origin(j, src, m) = j /\ j \in 1..(src - 1)
        BY <3>1, <1>50 DEF Origin
      <4> QED
        BY <4>1, <2>2
    <3>2. CASE j >= src
      <4>1. j \in src..(Len(x) - m)
        BY <3>2, <1>2
      <4>2. Origin(j, src, m) = j + m
        BY <3>2, <1>50 DEF Origin
      <4> QED
        BY <4>1, <4>2, <2>2
    <3> QED
      BY <3>1, <3>2, <1>50
  <2> QED
    BY <2>2, <2>3, <1>2
<1>7. /\ s \in Seq(Ynode) /\ Len(s) = m
      /\ \A j \in 1..m : s[j] = a[src + j - 1]
  <2>1. x \in Seq(Ynode) /\ src \in 1..Len(x) /\ m \in 1..(Len(x) - src + 1)
    BY <1>2, <1>50
  <2>2. /\ s \in Seq(Ynode) /\ Len(s) = m
        /\ \A j \in 1..m : s[j] = x[src + j - 1]
    BY ONLY <2>1, SliceFact
  <2>3. ASSUME NEW j \in 1..m PROVE s[j] = a[src + j - 1]
    <3>1. src + j - 1 \in src..(src + m - 1)
      BY <1>50
    <3> HIDE DEF s
    <3> QED
      BY <3>1, <2>2, <1>2
  <2> QED
    BY <2>2, <2>3
<1> HIDE DEF w, s
<1>8. /\ b \in Seq(Ynode) /\ Len(b) = n
      /\ \A j \in 1..(h - 1) : b[j] = w[j]
      /\ \A j \in h..(h + m - 1) : b[j] = a[src + (j - h)]
      /\ \A j \in (h + m)..n : b[j] = w[j - m]
  <2>1. w \in Seq(Ynode) /\ s \in Seq(Ynode) /\ h \in 1..(Len(w) + 1)
    BY <1>50, <1>6, <1>7
  <2>2. /\ b \in Seq(Ynode) /\ Len(b) = Len(w) + Len(s)
        /\ \A j \in 1..(h - 1) : b[j] = w[j]
        /\ \A j \in h..(h + Len(s) - 1) : b[j] = s[j - h + 1]
        /\ \A j \in (h + Len(s))..(Len(w) + Len(s)) : b[j] = w[j - Len(s)]
    BY ONLY <2>1, InsertRangeFact
  <2> HIDE DEF b
  <2>3. ASSUME NEW j \in h..(h + m - 1) PROVE b[j] = a[src + (j - h)]
    <3>0. j - h \in 0..(m - 1)
      BY <1>50
    <3>1. j - h + 1 \in 1..m /\ src + (j - h + 1) - 1 = src + (j - h)
      BY <3>0, <1>50
    <3>2. b[j] = s[j - h + 1]
      BY <2>2, <1>7
    <3>3. s[j - h + 1] = a[src + (j - h + 1) - 1]
      BY <3>1, <1>7
    <3> QED
      BY <3>1, <3>2, <3>3
  <2>4. Len(w) + Len(s) = n
    BY <1>50, <1>6, <1>7
  <2> QED
    BY <2>2, <2>3, <2>4, <1>7
<1> HIDE DEF b
<1>9. /\ Desc(b) \in [1..n -> Nat]
      /\ \A j \in 1..n : Desc(b)[j] = b[j].desc
  BY <1>8, DescFact
<1>10. ASSUME NEW j \in 1..(n - m)
       PROVE  /\ Origin(j, src, m) \in 1..n
              /\ w[j].desc = Moved(D, src, m, T, Origin(j, src, m))
              /\ w[j].id = a[Origin(j, src, m)].id
              /\ j > 1 => Origin(j, src, m) \in 2..n
  <2>1. Origin(j, src, m) \in 1..n /\ (j > 1 => Origin(j, src, m) \in 2..n)
    BY <1>50 DEF Origin
  <2> QED
    BY <2>1, <1>2, <1>6
<1>11. Moves(Desc(b), D, n, src, m, g, h, T)
  <2>1. ASSUME NEW k \in 1..(h - 1)
        PROVE  Desc(b)[k] = Moved(D, src, m, T, Origin(k, src, m))
    <3>1. k \in 1..n /\ k \in 1..(n - m)
      BY <1>50
    <3>2. b[k] = w[k]
      BY <1>8
    <3> QED
      BY <3>1, <3>2, <1>9, <1>10
  <2>2. ASSUME NEW k \in h..(h + m - 1) PROVE Desc(b)[k] = D[src + (k - h)]
    <3>0. k - h \in 0..(m - 1) /\ k \in 1..n
      BY <1>50
    <3>1. k \in 1..n /\ src + (k - h) \in 1..n
      BY <3>0, <1>50
    <3>2. b[k] = a[src + (k - h)]
      BY <1>8
    <3> QED
      BY <3>1, <3>2, <1>1, <1>9
  <2>3. ASSUME NEW k \in (h + m)..n
        PROVE  Desc(b)[k] = Moved(D, src, m, T, Origin(k - m, src, m))
    <3>1. k \in 1..n /\ k - m \in 1..(n - m)
      BY <1>50
    <3>2. b[k] = w[k - m]
      BY <1>8
    <3> QED
      BY <3>1, <3>2, <1>9, <1>10
  <2> QED
    BY <1>9, <2>1, <2>2, <2>3 DEF Moves
<1>12. Preorder(Desc(b), n)
  BY <1>1, <1>3, <1>4, <1>5, <1>11, PreorderMove DEF Outside, MovesTo
<1>13. ASSUME NEW j \in 2..n PROVE b[j].id \in 1..(c - 1)
  <2>1. PICK k \in 2..n : b[j].id = a[k].id
    <3>1. CASE j < h
      <4>1. j \in 1..(h - 1) /\ j \in 1..(n - m) /\ j > 1
        BY <3>1, <1>50
      <4>2. b[j].id = a[Origin(j, src, m)].id /\ Origin(j, src, m) \in 2..n
        BY <4>1, <1>8, <1>10
      <4> QED
        BY <4>2
    <3>2. CASE j \in h..(h + m - 1)
      <4>0. j - h \in 0..(m - 1)
        BY <3>2, <1>50
      <4>1. src + (j - h) \in 2..n
        BY <4>0, <1>50
      <4> QED
        BY <3>2, <4>1, <1>8
    <3>3. CASE j >= h + m
      <4>1. j - m \in 1..(n - m) /\ j \in (h + m)..n /\ j - m > 1
        BY <3>3, <1>50
      <4>2. b[j] = w[j - m]
        BY <4>1, <1>8
      <4>3. b[j].id = a[Origin(j - m, src, m)].id /\ Origin(j - m, src, m) \in 2..n
        BY <4>1, <4>2, <1>10
      <4> QED
        BY <4>3
    <3> QED
      BY <3>1, <3>2, <3>3, <1>50
  <2> QED
    BY <2>1, <1>1
<1>14. Sound(b, c)
  BY <1>8, <1>12, <1>13 DEF Sound
<1>15. ASSUME g = src PROVE Sound(x, c)
  <2>1. /\ Desc(x) \in [1..n -> Nat]
        /\ \A j \in 1..n : Desc(x)[j] = x[j].desc
    BY <1>2, DescFact
  <2>2. h = src
    BY <1>15, <1>5
  <2>3. ASSUME NEW k \in 1..(src - 1)
        PROVE  Desc(x)[k] = Moved(D, src, m, T, Origin(k, src, m))
    <3>1. k \in 1..n /\ Origin(k, src, m) = k
      BY <1>50 DEF Origin
    <3> QED
      BY <3>1, <2>1, <1>2
  <2>4. ASSUME NEW k \in src..(src + m - 1) PROVE Desc(x)[k] = D[src + (k - src)]
    <3>1. k \in 1..n /\ src + (k - src) = k
      BY <1>50
    <3>2. x[k] = a[k]
      BY <1>2
    <3> QED
      BY <3>1, <3>2, <2>1, <1>1
  <2>5. ASSUME NEW k \in (src + m)..n
        PROVE  Desc(x)[k] = Moved(D, src, m, T, Origin(k - m, src, m))
    <3>1. k \in 1..n /\ Origin(k - m, src, m) = k
      BY <1>50 DEF Origin
    <3> QED
      BY <3>1, <2>1, <1>2
  <2>6. Moves(Desc(x), D, n, src, m, g, h, T)
    BY <2>1, <2>2, <2>3, <2>4, <2>5 DEF Moves
  <2>7. Preorder(Desc(x), n)
    BY <1>1, <1>3, <1>4, <1>5, <2>6, PreorderMove DEF Outside, MovesTo
  <2>8. ASSUME NEW j \in 2..n PROVE x[j].id \in 1..(c - 1)
    <3>1. j \in 1..n /\ a[j].id \in 1..(c - 1)
      BY <1>1, <1>50
    <3> QED
      BY <3>1, <1>2
  <2> QED
    BY <2>7, <2>8, <1>2 DEF Sound
<1> QED
  BY <1>2, <1>8, <1>14, <1>15 DEF b, w, s, n

(***************************************************************************)
(* The pointers.                                                           *)
(***************************************************************************)

\* Parent is the nearest ancestor, and every node but the root has one.
LEMMA ParentFact ==
  ASSUME NEW a, NEW c, Sound(a, c), NEW i \in 2..Len(a)
  PROVE  /\ Nearest(Desc(a), i, Parent(a, i))
         /\ Parent(a, i) \in 1..Len(a) /\ Parent(a, i) < i
         /\ Ancestors(a, i) = Anc(Desc(a), Parent(a, i)) \cup {Parent(a, i)}
<1> DEFINE D == Desc(a)
           n == Len(a)
           S == Anc(D, i)
<1>1. a \in Seq(Ynode) /\ n \in Nat /\ Preorder(D, n)
  BY SoundFact
<1>2. Ancestors(a, i) = S
  BY <1>1, AncestorsAreAnc
<1>3. S \in SUBSET (1..n) /\ 1 \in S
  <2>1. i \in 1..n /\ i > 1
    BY <1>1
  <2>2. 1 \in S
    BY <1>1, <2>1, PreorderFacts
  <2> QED
    BY <2>1, <2>2 DEF Anc
<1>4. Nearest(D, i, LastOf(S))
  <2> HIDE DEF S
  <2>1. LastOf(S) \in S /\ \A y \in S : y <= LastOf(S)
    BY <1>1, <1>3, LastOfFact
  <2> QED
    BY <2>1 DEF Nearest, S
<1>5. Parent(a, i) = LastOf(S)
  BY <1>2 DEF Parent
<1> HIDE DEF S, D, n
<1>6. Nearest(D, i, Parent(a, i))
  BY <1>4, <1>5
<1>7. /\ Parent(a, i) \in 1..n /\ Parent(a, i) < i
      /\ Anc(D, i) = Anc(D, Parent(a, i)) \cup {Parent(a, i)}
  <2>1. i \in 2..n
    BY DEF n
  <2> QED
    BY <1>1, <1>6, <2>1, AncOfParent
<1> QED
  BY <1>2, <1>6, <1>7 DEF S, D, n

\* Next is the node behind the subtree, with the same ancestors.
LEMMA NextFact ==
  ASSUME NEW a, NEW c, Sound(a, c), NEW i \in 2..Len(a), Next(a, i) # Null
  PROVE  /\ Next(a, i) = i + Desc(a)[i] + 1
         /\ Next(a, i) \in 2..Len(a)
         /\ Anc(Desc(a), Next(a, i)) = Anc(Desc(a), i)
<1> DEFINE D == Desc(a)
           n == Len(a)
           p == Parent(a, i)
<1>1. /\ a \in Seq(Ynode) /\ n \in Nat /\ Preorder(D, n)
      /\ \A j \in 1..n : a[j].desc = D[j] /\ D[j] \in Nat
  BY SoundFact
<1>2. Nearest(D, i, p) /\ p \in 1..n /\ i \in 1..n /\ i \in 2..n
  BY ParentFact
<1>3. Next(a, i) = Past(a, i) /\ Past(a, i) < Past(a, p)
  BY DEF Next
<1> HIDE DEF D, n, p
<1>4. Past(a, i) = i + D[i] + 1 /\ Past(a, p) = p + D[p] + 1
  BY <1>1, <1>2 DEF Past
<1>5. i + D[i] < p + D[p]
  BY <1>1, <1>2, <1>3, <1>4
<1>6. i + D[i] + 1 \in 2..n /\ Anc(D, i + D[i] + 1) = Anc(D, i)
  BY <1>1, <1>2, <1>5, AncOfNext
<1> QED
  BY <1>3, <1>4, <1>6 DEF D, n

\* A node with descendants has a last child, inside of its subtree.
LEMMA LastChildFact ==
  ASSUME NEW a, NEW c, Sound(a, c), NEW p \in 1..Len(a), a[p].desc > 0
  PROVE  /\ LastChild(a, p) \in (p + 1)..(p + Desc(a)[p])
         /\ LastChild(a, p) \in 2..Len(a)
         /\ Nearest(Desc(a), LastChild(a, p), p)
<1> DEFINE D == Desc(a)
           n == Len(a)
           K == Children(a, p)
<1>1. /\ a \in Seq(Ynode) /\ n \in Nat /\ Preorder(D, n)
      /\ \A j \in 1..n : a[j].desc = D[j] /\ D[j] \in Nat
      /\ p + D[p] <= n /\ a[p].desc = D[p] /\ D[p] \in Nat
  BY SoundFact
<1>2. p + 1 \in 2..n /\ Nearest(D, p + 1, p)
  BY <1>1, AncOfFirst
<1>3. Parent(a, p + 1) = p
  <2>1. Nearest(D, p + 1, Parent(a, p + 1))
    BY <1>2, ParentFact
  <2>2. Anc(D, p + 1) \in SUBSET Int
    BY <1>2 DEF Anc
  <2> HIDE DEF D
  <2> QED
    BY <1>2, <2>1, <2>2 DEF Nearest
<1>4. p + 1 \in K
  BY <1>1, <1>3 DEF Children, Subtree
<1>5. K \in SUBSET (1..n) /\ \A j \in K : j \in (p + 1)..(p + D[p]) /\ Parent(a, j) = p
  BY <1>1 DEF Children, Subtree
<1> HIDE DEF K
<1>6. LastOf(K) \in K
  BY <1>1, <1>4, <1>5, LastOfFact
<1>7. LastChild(a, p) = LastOf(K)
  BY DEF LastChild, K
<1>8. /\ LastChild(a, p) \in (p + 1)..(p + D[p]) /\ Parent(a, LastChild(a, p)) = p
  BY <1>5, <1>6, <1>7
<1>9. LastChild(a, p) \in 2..n
  BY <1>1, <1>8
<1>10. Nearest(D, LastChild(a, p), Parent(a, LastChild(a, p)))
  BY <1>9, ParentFact
<1> QED
  BY <1>8, <1>9, <1>10

\* The first inner node, behind the key and the value, is a child
\* (ay_ynode_inner_nodes).
LEMMA InnerFact ==
  ASSUME NEW a, NEW c, Sound(a, c), NEW r \in 1..Len(a), InnerNodes(a, r) # Null
  PROVE  /\ InnerNodes(a, r) \in (r + 1)..(r + Desc(a)[r])
         /\ Anc(Desc(a), InnerNodes(a, r)) = Anc(Desc(a), r) \cup {r}
<1> DEFINE D == Desc(a)
           n == Len(a)
           Good(k) == k \in 2..n /\ Anc(D, k) = Anc(D, r) \cup {r}
           k1 == Child(a, r)
           k2 == IF k1 # Null /\ a[k1].type = "key" THEN Next(a, k1) ELSE k1
           k3 == IF k2 # Null /\ a[k2].type = "value" THEN Next(a, k2) ELSE k2
<1>1. /\ a \in Seq(Ynode) /\ n \in Nat /\ Preorder(D, n)
      /\ a[r].desc = D[r] /\ D[r] \in Nat
  BY SoundFact
<1>2. InnerNodes(a, r) = k3
  BY DEF InnerNodes
<1>3. k1 # Null => Good(k1)
  <2>1. k1 # Null => D[r] > 0 /\ k1 = r + 1
    BY <1>1 DEF Child, Null
  <2> QED
    BY <1>1, <2>1, AncOfFirst
<1>4. \A k : Good(k) /\ Next(a, k) # Null => Good(Next(a, k))
  BY NextFact
<1> HIDE DEF Good, k1
<1>5. k2 # Null => Good(k2)
  BY <1>3, <1>4
<1> HIDE DEF k2
<1>6. k3 # Null => Good(k3)
  BY <1>4, <1>5
<1> HIDE DEF k3
<1>7. k3 \in 2..n /\ Anc(D, k3) = Anc(D, r) \cup {r}
  BY <1>2, <1>6 DEF Good
<1>8. k3 \in (r + 1)..(r + D[r])
  <2>1. r \in Anc(D, k3)
    BY <1>7
  <2> QED
    BY <2>1, <1>7, <1>1 DEF Anc
<1> QED
  BY <1>2, <1>7, <1>8

(***************************************************************************)
(* Copies and their 'when' references.                                     *)
(***************************************************************************)

\* Identifiers below the counter stay below when it moves on.
LEMMA SoundMono ==
  ASSUME NEW a, NEW c \in Int, Sound(a, c), NEW d \in Int, c <= d
  PROVE  Sound(a, d)
<1>1. ASSUME NEW i \in 2..Len(a) PROVE a[i].id \in 1..(d - 1)
  <2>1. a[i].id \in 1..(c - 1)
    BY DEF Sound
  <2> QED
    BY <2>1
<1> QED
  BY <1>1 DEF Sound

\* An array with the same counts and identifiers that have been handed out is
\* sound.
LEMMA SameShape ==
  ASSUME NEW a, NEW c, Sound(a, c), NEW b \in [1..Len(a) -> Ynode],
         \A j \in 1..Len(a) : b[j].desc = a[j].desc,
         \A j \in 2..Len(a) : b[j].id \in 1..(c - 1)
  PROVE  Sound(b, c) /\ Len(b) = Len(a)
<1>1. Len(a) \in Nat /\ Preorder(Desc(a), Len(a))
  BY SoundFact
<1>2. b \in Seq(Ynode) /\ Len(b) = Len(a)
  BY <1>1, SeqDef
<1>3. Desc(b) = Desc(a)
  BY <1>2 DEF Desc
<1> QED
  BY <1>1, <1>2, <1>3 DEF Sound

\* A node with another 'when' reference is a node.
LEMMA YnodeWref ==
  ASSUME NEW y \in Ynode, NEW d \in Nat
  PROVE  /\ [y EXCEPT !.wref = d] \in Ynode
         /\ [y EXCEPT !.wref = d].desc = y.desc
         /\ [y EXCEPT !.wref = d].id = y.id
  BY DEF Ynode

\* The correction of the 'when' references stays inside of the array and
\* changes nothing else: whatever the search for a target ends with, the
\* corresponding node of the copy exists (ay_ynode_copy_subtree).
LEMMA WhenRefSound ==
  ASSUME NEW b, NEW c, Sound(b, c), NEW cop \in 1..Len(b), NEW orig \in 1..Len(b),
         orig >= cop \/ cop + b[orig].desc <= Len(b)
  PROVE  /\ Sound(WhenRefCorrection(b, cop, orig), c)
         /\ Len(WhenRefCorrection(b, cop, orig)) = Len(b)
<1> DEFINE n == Len(b)
           d == b[orig].desc
           sub == Subtree(b, orig)
           Hit(r, j) == b[j].id = r /\ "when_target" \in b[j].flags
           Found(r) == IF \E j \in sub : Hit(r, j)
                       THEN FirstOf({j \in sub : Hit(r, j)}) ELSE Past(b, orig) - 1
           e == [k \in 1..n |->
                   IF k > cop /\ k <= cop + d /\ b[orig + k - cop].wref # 0
                   THEN [b[k] EXCEPT !.wref = b[cop + Found(b[orig + k - cop].wref) - orig].id]
                   ELSE b[k]]
<1>1. /\ b \in Seq(Ynode) /\ n \in Nat
      /\ \A j \in 1..n : b[j] \in Ynode
      /\ d \in Nat /\ orig + d <= n
      /\ \A j \in 2..n : b[j].id \in 1..(c - 1)
  BY SoundFact
<1>2. WhenRefCorrection(b, cop, orig) = e
  BY DEF WhenRefCorrection
<1>3. sub = orig..(orig + d) /\ sub \in SUBSET Nat
  BY <1>1 DEF Subtree
<1> HIDE DEF sub
<1>4. ASSUME NEW r PROVE Found(r) \in orig..(orig + d)
  <2>1. CASE \E j \in sub : Hit(r, j)
    <3> DEFINE H == {j \in sub : Hit(r, j)}
    <3>1. H \in SUBSET Nat /\ H # {}
      BY <2>1, <1>3
    <3>2. FirstOf(H) \in H
      <4> HIDE DEF H
      <4> QED
        BY <3>1, FirstOfFact
    <3>3. Found(r) = FirstOf(H)
      BY <2>1
    <3> QED
      BY <3>2, <3>3, <1>3
  <2>2. CASE ~ \E j \in sub : Hit(r, j)
    <3>1. Found(r) = orig + d
      BY <2>2, <1>1 DEF Past
    <3> QED
      BY <3>1, <1>1
  <2> QED
    BY <2>1, <2>2
<1> HIDE DEF Found
<1>5. ASSUME NEW r PROVE b[cop + Found(r) - orig].id \in Nat
  <2>1. Found(r) \in orig..(orig + d)
    BY <1>4
  <2>2. cop + Found(r) - orig \in 1..n
    <3> HIDE DEF d, n
    <3>1. orig >= cop \/ cop + d <= n
      BY DEF d, n
    <3>2. cop \in 1..n /\ orig \in 1..n
      BY DEF n
    <3> QED
      BY <2>1, <1>1, <3>1, <3>2
  <2>3. b[cop + Found(r) - orig] \in Ynode
    BY <2>2, <1>1
  <2> QED
    BY <2>3 DEF Ynode
<1>6. ASSUME NEW k \in 1..n
      PROVE  e[k] \in Ynode /\ e[k].desc = b[k].desc /\ e[k].id = b[k].id
  <2>0. b[k] \in Ynode
    BY <1>1
  <2>1. CASE k > cop /\ k <= cop + d /\ b[orig + k - cop].wref # 0
    <3> DEFINE v == b[cop + Found(b[orig + k - cop].wref) - orig].id
    <3>1. v \in Nat
      BY <1>5
    <3>2. e[k] = [b[k] EXCEPT !.wref = v]
      BY <2>1
    <3> HIDE DEF v, e
    <3> QED
      BY <2>0, <3>1, <3>2, YnodeWref
  <2>2. CASE ~(k > cop /\ k <= cop + d /\ b[orig + k - cop].wref # 0)
    BY <2>0, <2>2
  <2> QED
    BY <2>1, <2>2
<1>7. e \in [1..n -> Ynode]
  <2>1. e = [k \in 1..n |-> e[k]]
    OBVIOUS
  <2> HIDE DEF e
  <2> QED
    BY <1>6, <2>1
<1> HIDE DEF e
<1>8. \A j \in 2..n : e[j].id \in 1..(c - 1)
  <2> SUFFICES ASSUME NEW j \in 2..n PROVE e[j].id \in 1..(c - 1)
    OBVIOUS
  <2>1. j \in 1..n
    BY <1>1
  <2> QED
    BY <2>1, <1>1, <1>6
<1>9. Sound(e, c) /\ Len(e) = Len(b)
  BY <1>6, <1>7, <1>8, SameShape
<1> QED
  BY <1>2, <1>9

\* The original, looked up by its identifier behind its old index, is found:
\* it, or its copy in front of it. The nodes that correspond to it in the
\* copy are inside of the array.
LEMMA CopyOrig ==
  ASSUME NEW a, NEW c, Sound(a, c), NEW src \in 2..Len(a), NEW m \in Int,
         NEW g \in Int, NEW T, NEW b, Copies(a, src, m, g, T, b)
  PROVE  LET orig == GetNode(b, src, a[src].id)
         IN  /\ orig \in 1..Len(b) /\ g \in 1..Len(b)
             /\ orig >= g \/ g + b[orig].desc <= Len(b)
<1> DEFINE id == a[src].id
           hits == {j \in src..Len(b) : b[j].id = id}
           orig == GetNode(b, src, id)
           n == Len(a)
<1>0. /\ Sound(a, c) /\ src \in 2..Len(a) /\ m \in Int /\ g \in Int
      /\ Copies(a, src, m, g, T, b)
  OBVIOUS
<1>1. /\ Len(b) = n + m
      /\ \A j \in 1..(g - 1) : b[j].id = a[j].id
      /\ \A j \in (g + m)..(n + m) : b[j].id = a[j - m].id
      /\ src < g => b[src].desc = m - 1
  BY ONLY <1>0, CopySound
<1>2. m \in Nat /\ m >= 1 /\ src + m <= n + 1 /\ n \in Nat /\ g \in 2..(n + 1) /\ src \in 2..n
  BY ONLY <1>0, CopySound
<1> HIDE DEF n
<1>3. orig = FirstOf(hits)
  BY DEF GetNode
<1>4. hits \in SUBSET Nat /\ \A j \in hits : j \in src..(n + m)
  BY <1>1, <1>2
<1>5. g \in 1..(n + m)
  BY <1>2
<1>6. CASE g <= src
  <2>1. src + m \in (g + m)..(n + m) /\ (src + m) - m = src /\ src + m \in src..(n + m)
    BY <1>2, <1>6
  <2>2. \A j \in (g + m)..(n + m) : b[j].id = a[j - m].id
    BY <1>1
  <2>3. b[src + m].id = a[(src + m) - m].id
    BY ONLY <2>1, <2>2
  <2>4. src + m \in hits
    BY <2>1, <2>3, <1>1
  <2> HIDE DEF hits, orig
  <2>5. FirstOf(hits) \in hits
    BY <1>4, <2>4, FirstOfFact
  <2>6. orig \in src..(n + m)
    BY <2>5, <1>3, <1>4
  <2>7. orig \in 1..(n + m) /\ orig >= g
    BY <2>6, <1>2, <1>6
  <2> QED
    BY <2>7, <1>1, <1>5 DEF orig
<1>7. CASE g > src
  <2>1. src \in 1..(g - 1) /\ src \in src..(n + m)
    BY <1>2, <1>7
  <2>2. src \in hits
    BY <2>1, <1>1
  <2> HIDE DEF hits, orig
  <2>3. FirstOf(hits) \in hits /\ FirstOf(hits) <= src
    BY <1>4, <2>2, FirstOfFact
  <2>4. orig \in src..(n + m) /\ orig <= src
    BY <2>3, <1>3, <1>4
  <2>5. orig = src
    BY <2>4, <1>2
  <2>6. b[src].desc = m - 1
    BY <1>1, <1>7
  <2>7. g + (m - 1) <= n + m /\ src \in 1..(n + m)
    BY <1>2
  <2> QED
    BY <2>5, <2>6, <2>7, <1>1, <1>5 DEF orig
<1> QED
  BY <1>2, <1>6, <1>7

\* Every copy to a gap outside of the copied subtree, into memory that is
\* left, leaves a sound tree (ay_ynode_copy_subtree).
LEMMA CopyOK ==
  ASSUME NEW t, TreeOK(t), NEW src \in 2..Len(t.arr), NEW g \in Int, NEW T,
         Fits(Desc(t.arr), Len(t.arr), g, 0, T), src \notin T,
         Len(t.arr) + Size(t.arr, src) <= t.cap
  PROVE  TreeOK(CopySubtree(t, g, src, T))
<1> DEFINE a == t.arr
           c == t.idcnt
           m == Size(a, src)
           b == InsertRange(Grow(a, T, m), g, Slice(a, src, m))
           orig == GetNode(b, src, a[src].id)
           e == WhenRefCorrection(b, g, orig)
           o == (t.ok /\ Len(t.arr) + m <= t.cap)
           u == [t EXCEPT !.arr = e, !.idcnt = c + m, !.ok = o]
<1>1. /\ Sound(a, c) /\ o /\ t.cap \in Nat /\ c \in Nat \ {0}
      /\ t \in YnodeTree
  BY TreeIsSound DEF YnodeTree
<1>2. Len(a) \in Nat /\ a[src].desc \in Nat
  BY <1>1, SoundFact
<1>3. m = a[src].desc + 1 /\ m \in Int /\ src \in 2..Len(a)
  BY <1>2 DEF Size
<1>4. CopySubtree(t, g, src, T) = u
  BY <1>3 DEF CopySubtree
<1>5. Copies(a, src, m, g, T, b)
  BY DEF Copies
<1>50. Len(a) + m <= t.cap /\ g \in Int
  OBVIOUS
<1> HIDE DEF a, c, m, b, o
<1>6. Sound(b, c) /\ Len(b) = Len(a) + m /\ m \in Nat
  BY ONLY <1>1, <1>3, <1>5, <1>50, CopySound
<1>7. orig \in 1..Len(b) /\ g \in 1..Len(b) /\ (orig >= g \/ g + b[orig].desc <= Len(b))
  BY ONLY <1>1, <1>3, <1>5, <1>50, CopyOrig
<1> HIDE DEF orig
<1>8. Sound(e, c) /\ Len(e) = Len(b)
  BY ONLY <1>6, <1>7, WhenRefSound
<1> HIDE DEF e
<1>9. c \in Int /\ c + m \in Int /\ c <= c + m /\ c + m \in Nat \ {0}
  BY <1>1, <1>6
<1>10. Sound(e, c + m)
  BY ONLY <1>8, <1>9, SoundMono
<1>11. Len(e) <= t.cap /\ e \in Seq(Ynode) /\ o \in BOOLEAN
  <2>1. Len(e) <= t.cap /\ e \in Seq(Ynode)
    BY <1>10, <1>8, <1>6, <1>50 DEF Sound
  <2> QED
    BY <2>1, Zenon DEF o
<1>12. u \in YnodeTree
  BY <1>1, <1>9, <1>11, Zenon DEF YnodeTree
<1>13. u.arr = e /\ u.cap = t.cap /\ u.idcnt = c + m
  BY <1>1 DEF YnodeTree
<1>14. u.ok
  BY <1>1, <1>11, Zenon DEF YnodeTree
<1> HIDE DEF u
<1>15. TreeOK(u)
  BY <1>10, <1>11, <1>12, <1>13, <1>14, TreeIsSound
<1> QED
  BY <1>4, <1>15

(***************************************************************************)
(* The operations, one by one.                                             *)
(***************************************************************************)

\* Every move to a gap outside of the moved subtree leaves a sound tree
\* (ay_ynode_move_subtree).
LEMMA MoveOK ==
  ASSUME NEW t, TreeOK(t), NEW src \in 2..Len(t.arr), NEW g \in Int, NEW T,
         Fits(Desc(t.arr), Len(t.arr), g, 0, T),
         Outside(g, T, src, Size(t.arr, src))
  PROVE  TreeOK(MoveSubtree(t, g, src, Ancestors(t.arr, src), T))
<1> DEFINE a == t.arr
           c == t.idcnt
           m == Size(a, src)
           x == Resized(a, src, m, T)
           h == MoveTo(g, src, m)
           b == InsertRange(DeleteGap(x, src, m), h, Slice(x, src, m))
           u == [t EXCEPT !.arr = x]
           v == [t EXCEPT !.arr = b, !.idcnt = c + m]
<1>1. /\ Sound(a, c) /\ t.ok /\ t.cap \in Nat /\ c \in Nat \ {0} /\ Len(a) <= t.cap
      /\ t \in YnodeTree
  BY TreeIsSound DEF YnodeTree
<1>2. Len(a) \in Nat /\ a[src].desc \in Nat /\ a \in Seq(Ynode)
  BY <1>1, SoundFact
<1>3. m = a[src].desc + 1 /\ m \in Nat /\ m \in Int /\ src \in 2..Len(a) /\ g \in Int
  BY <1>2 DEF Size
<1>4. Ancestors(a, src) = Anc(Desc(a), src)
  <2>1. src \in 1..(Len(a) + 1)
    BY <1>2, <1>3
  <2> QED
    BY ONLY <1>2, <2>1, AncestorsAreAnc
<1>5. h = IF g > src THEN g - m ELSE g
  BY <1>3 DEF MoveTo
<1>50. h \in Int
  BY <1>3, <1>5
<1>6. MoveSubtree(t, g, src, Ancestors(t.arr, src), T) = IF g = src THEN u ELSE v
  <2>1. x = Grow(Grow(a, Ancestors(a, src), -m), T, m)
    BY <1>4 DEF Resized
  <2> HIDE DEF x, h
  <2> QED
    BY <2>1, <1>3, <1>5 DEF MoveSubtree
<1>7. MovesTo(a, src, m, g, h, T, x)
  BY DEF MovesTo
<1> HIDE DEF a, c, m, x, h
<1>8. Sound(b, c) /\ Len(b) = Len(a) /\ (g = src => Sound(x, c) /\ Len(x) = Len(a))
  BY ONLY <1>1, <1>3, <1>50, <1>7, MoveSound
<1> HIDE DEF b
<1>9. CASE g = src
  <2>1. Sound(x, c) /\ Len(x) = Len(a)
    BY <1>8, <1>9
  <2>2. x \in Seq(Ynode) /\ Len(x) <= t.cap
    BY <2>1, <1>1 DEF Sound
  <2>3. u \in YnodeTree
    BY <1>1, <2>2, Zenon DEF YnodeTree
  <2>4. u.arr = x /\ u.cap = t.cap /\ u.idcnt = c
    BY <1>1 DEF YnodeTree, c
  <2>5. u.ok
    BY <1>1, Zenon DEF YnodeTree
  <2> HIDE DEF u
  <2>6. TreeOK(u)
    BY <2>1, <2>2, <2>3, <2>4, <2>5, TreeIsSound
  <2> QED
    BY <1>6, <1>9, <2>6
<1>10. CASE g # src
  <2>1. c \in Int /\ c + m \in Int /\ c <= c + m /\ c + m \in Nat \ {0}
    BY <1>1, <1>3
  <2>2. Sound(b, c + m)
    BY ONLY <1>8, <2>1, SoundMono
  <2>3. b \in Seq(Ynode) /\ Len(b) <= t.cap
    BY <2>2, <1>8, <1>1 DEF Sound
  <2>4. v \in YnodeTree
    BY <1>1, <2>1, <2>3, Zenon DEF YnodeTree
  <2>5. v.arr = b /\ v.cap = t.cap /\ v.idcnt = c + m
    BY <1>1 DEF YnodeTree
  <2>6. v.ok
    BY <1>1, Zenon DEF YnodeTree
  <2> HIDE DEF v
  <2>7. TreeOK(v)
    BY <2>2, <2>3, <2>4, <2>5, <2>6, TreeIsSound
  <2> QED
    BY <1>6, <1>10, <2>7
<1> QED
  BY <1>9, <1>10

\* What the operations use of a sound tree.
LEMMA TreeFacts ==
  ASSUME NEW t, TreeOK(t)
  PROVE  /\ Sound(t.arr, t.idcnt) /\ t.arr \in Seq(Ynode)
         /\ Len(t.arr) \in Nat \ {0} /\ t.cap \in Nat
         /\ Preorder(Desc(t.arr), Len(t.arr))
         /\ \A j \in 1..Len(t.arr) : /\ t.arr[j].desc = Desc(t.arr)[j]
                                     /\ Desc(t.arr)[j] \in Nat
                                     /\ Ancestors(t.arr, j) = Anc(Desc(t.arr), j)
<1>1. /\ Sound(t.arr, t.idcnt) /\ t.cap \in Nat
  BY TreeIsSound DEF YnodeTree
<1>2. /\ t.arr \in Seq(Ynode) /\ Len(t.arr) \in Nat \ {0}
      /\ Preorder(Desc(t.arr), Len(t.arr))
      /\ \A j \in 1..Len(t.arr) : t.arr[j].desc = Desc(t.arr)[j] /\ Desc(t.arr)[j] \in Nat
  BY <1>1, SoundFact
<1>3. ASSUME NEW j \in 1..Len(t.arr) PROVE Ancestors(t.arr, j) = Anc(Desc(t.arr), j)
  <2>1. j \in 1..(Len(t.arr) + 1)
    BY <1>2
  <2> QED
    BY ONLY <1>2, <2>1, AncestorsAreAnc
<1> QED
  BY <1>1, <1>2, <1>3

\* The insertions of one node beside or above another leave a sound tree
\* (ay_ynode_insert_wrapper, ay_ynode_insert_sibling, ay_ynode_insert_parent,
\* ay_ynode_insert_parent_for_rest).
LEMMA InsertsOK ==
  ASSUME NEW t, TreeOK(t), Len(t.arr) < t.cap, NEW i \in 2..Len(t.arr)
  PROVE  /\ TreeOK(InsertWrapper(t, i))
         /\ TreeOK(InsertSibling(t, i))
         /\ TreeOK(InsertParent(t, i))
         /\ TreeOK(InsertParentForRest(t, i))
<1> DEFINE a == t.arr
           D == Desc(a)
           n == Len(a)
           p == Parent(a, i)
<1>1. /\ Sound(a, t.idcnt) /\ n \in Nat /\ Preorder(D, n) /\ i \in 1..n /\ i \in 2..n
      /\ a[i].desc = D[i] /\ D[i] \in Nat /\ Ancestors(a, i) = Anc(D, i)
      /\ \A j \in 1..n : a[j].desc = D[j] /\ D[j] \in Nat
  BY TreeFacts
<1>2. /\ Nearest(D, i, p) /\ p \in 1..n /\ p < i
      /\ Ancestors(a, i) = Anc(D, p) \cup {p}
  BY <1>1, ParentFact
<1>3. /\ Fits(D, n, i, D[i] + 1, Anc(D, i))
      /\ Fits(D, n, i + D[i] + 1, 0, Anc(D, i))
  BY ONLY <1>1, FitsAround
<1>4. Fits(D, n, p + 1, D[p], Anc(D, p) \cup {p})
  BY ONLY <1>1, <1>2, FitsInside
<1>5. Fits(D, n, i, p + D[p] + 1 - i, Anc(D, i))
  BY ONLY <1>1, <1>2, FitsRest
<1>6. a[p].desc = D[p] /\ D[p] \in Nat
  BY <1>1, <1>2
<1>7. p + D[p] + 1 - i \in Nat
  BY <1>5, <1>1, <1>2 DEF Fits
<1>8. TreeOK(t) /\ Len(t.arr) < t.cap
  OBVIOUS
<1> HIDE DEF p
<1>9. TreeOK(InsertGap(t, i, D[i] + 1, Anc(D, i)))
  <2>1. i \in Int /\ D[i] + 1 \in Nat
    BY <1>1
  <2> QED
    BY ONLY <1>3, <1>8, <2>1, InsertGapOK
<1>10. TreeOK(InsertGap(t, i + D[i] + 1, 0, Anc(D, i)))
  <2>1. i + D[i] + 1 \in Int /\ 0 \in Nat
    BY <1>1
  <2> QED
    BY ONLY <1>3, <1>8, <2>1, InsertGapOK
<1>11. TreeOK(InsertGap(t, p + 1, D[p], Anc(D, p) \cup {p}))
  <2>1. p + 1 \in Int /\ D[p] \in Nat
    BY <1>2, <1>6
  <2> QED
    BY ONLY <1>4, <1>8, <2>1, InsertGapOK
<1>12. TreeOK(InsertGap(t, i, p + D[p] + 1 - i, Anc(D, i)))
  <2>1. i \in Int
    BY <1>1
  <2> QED
    BY ONLY <1>5, <1>7, <1>8, <2>1, InsertGapOK
<1>13. TreeOK(InsertWrapper(t, i))
  BY <1>9, <1>1 DEF InsertWrapper
<1>14. TreeOK(InsertSibling(t, i))
  BY <1>10, <1>1 DEF InsertSibling, Past
<1>15. TreeOK(InsertParent(t, i))
  BY <1>11, <1>2, <1>6 DEF InsertParent, p
<1>16. TreeOK(InsertParentForRest(t, i))
  <2>1. Past(a, p) = p + D[p] + 1
    BY <1>6 DEF Past
  <2>2. InsertParentForRest(t, i) = InsertGap(t, i, Past(a, p) - i, Ancestors(a, i))
    BY DEF InsertParentForRest, p
  <2>3. Ancestors(a, i) = Anc(D, i)
    BY <1>1
  <2>4. Past(a, p) - i = p + D[p] + 1 - i
    BY <1>1, <1>2, <1>6, <2>1
  <2> QED
    BY <1>12, <2>2, <2>3, <2>4
<1> QED
  BY <1>13, <1>14, <1>15, <1>16

\* The insertions of a child leave a sound tree, for an inner node and for a
\* leaf (ay_ynode_insert_child, ay_ynode_insert_child_last).
LEMMA InsertChildrenOK ==
  ASSUME NEW t, TreeOK(t), Len(t.arr) < t.cap, NEW i \in 1..Len(t.arr)
  PROVE  /\ TreeOK(InsertChild(t, i))
         /\ TreeOK(InsertChildLast(t, i))
<1> DEFINE a == t.arr
           D == Desc(a)
           n == Len(a)
<1>1. /\ Sound(a, t.idcnt) /\ n \in Nat /\ Preorder(D, n) /\ i \in 1..n
      /\ a[i].desc = D[i] /\ D[i] \in Nat /\ Ancestors(a, i) = Anc(D, i)
  BY TreeFacts
<1>2. Fits(D, n, i + 1, 0, Anc(D, i) \cup {i})
  BY ONLY <1>1, FitsInside
<1>3. TreeOK(t) /\ Len(t.arr) < t.cap
  OBVIOUS
<1>4. TreeOK(InsertGap(t, i + 1, 0, Anc(D, i) \cup {i}))
  <2>1. i + 1 \in Int /\ 0 \in Nat
    BY <1>1
  <2> QED
    BY ONLY <1>2, <1>3, <2>1, InsertGapOK
<1>5. TreeOK(InsertChild(t, i))
  BY <1>1, <1>4 DEF InsertChild
<1>6. ASSUME a[i].desc > 0 PROVE TreeOK(InsertSibling(t, LastChild(a, i)))
  <2>1. LastChild(a, i) \in 2..n
    BY <1>1, <1>6, LastChildFact
  <2> QED
    BY ONLY <1>3, <2>1, InsertsOK
<1> QED
  BY <1>5, <1>6 DEF InsertChildLast

\* A deleted subtree leaves a sound tree (ay_ynode_delete_subtree).
LEMMA DeleteSubtreeOK ==
  ASSUME NEW t, TreeOK(t), NEW i \in 2..Len(t.arr)
  PROVE  TreeOK(DeleteSubtree(t, i))
<1> DEFINE a == t.arr
           D == Desc(a)
           n == Len(a)
           m == D[i] + 1
<1>1. /\ n \in Nat /\ Preorder(D, n) /\ i \in 2..n /\ i \in Int
      /\ a[i].desc = D[i] /\ D[i] \in Nat
  BY TreeFacts
<1>2. m \in Int /\ m \in {1, D[i] + 1}
  BY <1>1
<1> HIDE DEF m
<1>3. Covers(D, n, i, m, Anc(D, i))
  BY ONLY <1>1, <1>2, SubtreeCut
<1>4. TreeOK(t)
  OBVIOUS
<1>5. TreeOK(DeleteRange(t, i, m))
  BY ONLY <1>1, <1>2, <1>3, <1>4, DeleteRangeOK
<1> QED
  BY <1>1, <1>5 DEF DeleteSubtree, m

\* The deleted children, all or all behind the key and the value, leave a
\* sound tree (ay_ynode_delete_children).
LEMMA DeleteChildrenOK ==
  ASSUME NEW t, TreeOK(t), NEW i \in 2..Len(t.arr), NEW keep \in BOOLEAN
  PROVE  TreeOK(DeleteChildren(t, i, keep))
<1> DEFINE a == t.arr
           D == Desc(a)
           n == Len(a)
<1>1. /\ Sound(a, t.idcnt) /\ n \in Nat /\ Preorder(D, n) /\ i \in 1..n
      /\ a[i].desc = D[i] /\ D[i] \in Nat
  BY TreeFacts
<1>2. TreeOK(t)
  OBVIOUS
<1>3. ASSUME NEW f \in (i + 1)..(i + D[i]), Anc(D, f) = Anc(D, i) \cup {i}
      PROVE  TreeOK(DeleteRange(t, f, i + D[i] + 1 - f))
  <2>1. f \in (i + 1)..(i + D[i]) /\ Anc(D, f) = Anc(D, i) \cup {i}
    BY <1>3
  <2>2. Covers(D, n, f, i + D[i] + 1 - f, Anc(D, f))
    BY ONLY <1>1, <2>1, CoversRest
  <2>3. f \in Int /\ i + D[i] + 1 - f \in Int
    BY <1>1
  <2> QED
    BY ONLY <1>2, <2>2, <2>3, DeleteRangeOK
<1>4. CASE keep
  <2>1. CASE InnerNodes(a, i) = Null
    BY <1>4, <2>1 DEF DeleteChildren, InnerDescendants
  <2>2. CASE InnerNodes(a, i) # Null
    <3> DEFINE f == InnerNodes(a, i)
    <3>1. f \in (i + 1)..(i + D[i]) /\ Anc(D, f) = Anc(D, i) \cup {i}
      BY <1>1, <2>2, InnerFact
    <3>2. InnerDescendants(a, i) = i + D[i] + 1 - f
      <4>1. InnerDescendants(a, i) = Past(a, i) - f
        BY <2>2 DEF InnerDescendants
      <4>2. Past(a, i) = i + D[i] + 1
        BY <1>1 DEF Past
      <4>3. i \in Int /\ D[i] \in Int /\ f \in Int
        BY <1>1, <3>1
      <4> HIDE DEF f, a, D
      <4> QED
        BY <4>1, <4>2, <4>3
    <3>3. DeleteChildren(t, i, keep)
            = IF InnerDescendants(a, i) = 0 THEN t ELSE DeleteRange(t, f, InnerDescendants(a, i))
      BY <1>4 DEF DeleteChildren
    <3> HIDE DEF f
    <3>4. TreeOK(DeleteRange(t, f, i + D[i] + 1 - f))
      BY <1>3, <3>1
    <3> QED
      BY <1>2, <3>2, <3>3, <3>4
  <2> QED
    BY <2>1, <2>2
<1>5. CASE ~keep
  <2>1. DeleteChildren(t, i, keep) = IF D[i] = 0 THEN t ELSE DeleteRange(t, i + 1, D[i])
    BY <1>1, <1>5 DEF DeleteChildren
  <2>2. CASE D[i] = 0
    BY <1>2, <2>1, <2>2
  <2>3. CASE D[i] # 0
    <3>1. D[i] > 0
      BY <1>1, <2>3
    <3>2. Anc(D, i + 1) = Anc(D, i) \cup {i}
      BY ONLY <1>1, <3>1, AncOfFirst
    <3>3. i + 1 \in (i + 1)..(i + D[i]) /\ i + D[i] + 1 - (i + 1) = D[i]
      BY <1>1, <3>1
    <3>4. TreeOK(DeleteRange(t, i + 1, i + D[i] + 1 - (i + 1)))
      BY <1>3, <3>2, <3>3
    <3> QED
      BY <2>1, <2>3, <3>3, <3>4
  <2> QED
    BY <2>2, <2>3
<1> QED
  BY <1>4, <1>5

\* A subtree moved behind a node outside of it, or behind itself, leaves a
\* sound tree (ay_ynode_move_subtree_as_sibling).
LEMMA MoveAsSiblingOK ==
  ASSUME NEW t, TreeOK(t), NEW src \in 2..Len(t.arr), NEW x \in 2..Len(t.arr),
         x \notin (src + 1)..(src + Desc(t.arr)[src])
  PROVE  TreeOK(MoveAsSibling(t, x, src))
<1> DEFINE a == t.arr
           D == Desc(a)
           n == Len(a)
           g == x + D[x] + 1
<1>1. /\ n \in Nat /\ Preorder(D, n) /\ src \in 2..n /\ x \in 2..n
      /\ a[x].desc = D[x] /\ D[x] \in Nat /\ Ancestors(a, x) = Anc(D, x)
      /\ a[src].desc = D[src] /\ D[src] \in Nat
  BY TreeFacts
<1>2. x \notin (src + 1)..(src + D[src])
  OBVIOUS
<1>3. Fits(D, n, g, 0, Anc(D, x))
  BY ONLY <1>1, FitsAround
<1>4. /\ g <= src \/ g >= src + D[src] + 1
      /\ Anc(D, x) \cap (src..(src + D[src])) = {}
  BY ONLY <1>1, <1>2, OutsideBeside
<1>5. g \in Int /\ src \in Int
  BY <1>1
<1>6. Past(a, x) = g
  BY <1>1 DEF Past
<1> HIDE DEF g
<1>7. Outside(g, Anc(D, x), src, Size(a, src))
  <2>1. Size(a, src) = D[src] + 1
    BY <1>1 DEF Size
  <2>2. src + (D[src] + 1) - 1 = src + D[src] /\ src + (D[src] + 1) = src + D[src] + 1
    BY <1>1
  <2> HIDE DEF D, a
  <2> QED
    BY <1>4, <2>1, <2>2 DEF Outside
<1>8. TreeOK(t)
  OBVIOUS
<1>9. TreeOK(MoveSubtree(t, g, src, Ancestors(a, src), Anc(D, x)))
  BY ONLY <1>1, <1>3, <1>5, <1>7, <1>8, MoveOK
<1> QED
  BY <1>1, <1>6, <1>8, <1>9 DEF MoveAsSibling

\* A subtree moved in front of the children of a node outside of it leaves a
\* sound tree (ay_ynode_move_subtree_as_child).
LEMMA MoveAsChildOK ==
  ASSUME NEW t, TreeOK(t), NEW src \in 2..Len(t.arr),
         NEW x \in 1..Len(t.arr) \ Subtree(t.arr, src)
  PROVE  TreeOK(MoveAsChild(t, x, src))
<1> DEFINE a == t.arr
           D == Desc(a)
           n == Len(a)
           g == x + 1
           T == Anc(D, x) \cup {x}
<1>1. /\ n \in Nat /\ Preorder(D, n) /\ src \in 2..n /\ x \in 1..n
      /\ Ancestors(a, x) = Anc(D, x)
      /\ a[src].desc = D[src] /\ D[src] \in Nat
  BY TreeFacts
<1>2. x \notin src..(src + D[src])
  BY <1>1 DEF Subtree
<1>3. Fits(D, n, g, 0, T)
  BY ONLY <1>1, FitsInside
<1>4. /\ g <= src \/ g >= src + D[src] + 1
      /\ T \cap (src..(src + D[src])) = {}
  BY ONLY <1>1, <1>2, OutsideInside
<1>5. g \in Int /\ src \in Int
  BY <1>1
<1>6. T = Ancestors(a, x) \cup {x}
  BY <1>1
<1> HIDE DEF T
<1>7. Outside(g, T, src, Size(a, src))
  <2>1. Size(a, src) = D[src] + 1
    BY <1>1 DEF Size
  <2>2. src + (D[src] + 1) - 1 = src + D[src] /\ src + (D[src] + 1) = src + D[src] + 1
    BY <1>1
  <2> HIDE DEF D, a, g
  <2> QED
    BY <1>4, <2>1, <2>2 DEF Outside
<1>8. TreeOK(t)
  OBVIOUS
<1>9. TreeOK(MoveSubtree(t, g, src, Ancestors(a, src), T))
  BY ONLY <1>1, <1>3, <1>5, <1>7, <1>8, MoveOK
<1> QED
  BY <1>6, <1>8, <1>9 DEF MoveAsChild

\* A subtree moved behind the children of a node outside of it leaves a sound
\* tree: the last child is outside of the subtree as well, or is its root
\* (ay_ynode_move_subtree_as_last_child).
LEMMA MoveAsLastChildOK ==
  ASSUME NEW t, TreeOK(t), NEW src \in 2..Len(t.arr),
         NEW x \in 1..Len(t.arr) \ Subtree(t.arr, src)
  PROVE  TreeOK(MoveAsLastChild(t, x, src))
<1> DEFINE a == t.arr
           D == Desc(a)
           n == Len(a)
           k == LastChild(a, x)
<1>1. /\ Sound(a, t.idcnt) /\ n \in Nat /\ Preorder(D, n) /\ src \in 2..n /\ x \in 1..n
      /\ a[src].desc = D[src] /\ D[src] \in Nat
  BY TreeFacts
<1>2. TreeOK(t) /\ TreeOK(MoveAsChild(t, x, src))
  BY MoveAsChildOK
<1>3. ASSUME a[x].desc > 0 PROVE TreeOK(MoveAsSibling(t, k, src))
  <2>1. k \in 2..n /\ Nearest(D, k, x)
    BY <1>1, <1>3, LastChildFact
  <2> HIDE DEF k
  <2>2. k \notin (src + 1)..(src + D[src])
    <3> SUFFICES ASSUME k \in (src + 1)..(src + D[src]) PROVE FALSE
      OBVIOUS
    <3>1. src \in Anc(D, k)
      BY <1>1, <2>1 DEF Anc
    <3>2. src <= x /\ x \in Anc(D, k)
      BY <2>1, <3>1 DEF Nearest
    <3>3. x \in src..(src + D[src])
      BY <1>1, <3>2 DEF Anc
    <3> QED
      BY <1>1, <3>3 DEF Subtree
  <2> QED
    BY <1>1, <1>2, <2>1, <2>2, MoveAsSiblingOK
<1> QED
  BY <1>2, <1>3 DEF MoveAsLastChild

\* A copy behind the children of a node outside of the subtree leaves a sound
\* tree (ay_ynode_copy_subtree_as_last_child).
LEMMA CopyAsLastChildOK ==
  ASSUME NEW t, TreeOK(t), NEW src \in 2..Len(t.arr),
         NEW x \in 1..Len(t.arr) \ Subtree(t.arr, src),
         Len(t.arr) + (t.arr[src].desc + 1) <= t.cap
  PROVE  TreeOK(CopyAsLastChild(t, x, src))
<1> DEFINE a == t.arr
           D == Desc(a)
           n == Len(a)
           g == x + D[x] + 1
           T == Anc(D, x) \cup {x}
<1>1. /\ n \in Nat /\ Preorder(D, n) /\ src \in 2..n /\ x \in 1..n
      /\ Ancestors(a, x) = Anc(D, x) /\ a[x].desc = D[x] /\ D[x] \in Nat
      /\ a[src].desc = D[src] /\ D[src] \in Nat
  BY TreeFacts
<1>2. x \notin src..(src + D[src])
  BY <1>1 DEF Subtree
<1>3. Fits(D, n, g, 0, T)
  BY ONLY <1>1, FitsInside
<1>4. T \cap (src..(src + D[src])) = {}
  BY ONLY <1>1, <1>2, OutsideInside
<1>5. g \in Int /\ Past(a, x) = g /\ T = Ancestors(a, x) \cup {x}
  BY <1>1 DEF Past
<1> HIDE DEF T
<1>6. src \notin T
  <2>1. src \in src..(src + D[src])
    BY <1>1
  <2> QED
    BY <2>1, <1>4
<1>7. TreeOK(t) /\ n + Size(a, src) <= t.cap
  BY DEF Size
<1> HIDE DEF g
<1>8. TreeOK(CopySubtree(t, g, src, T))
  BY ONLY <1>1, <1>3, <1>5, <1>6, <1>7, CopyOK
<1> QED
  BY <1>5, <1>7, <1>8 DEF CopyAsLastChild

\* A copy behind a node outside of the subtree, or behind the original,
\* leaves a sound tree (ay_ynode_copy_subtree_as_sibling).
LEMMA CopyAsSiblingOK ==
  ASSUME NEW t, TreeOK(t), NEW src \in 2..Len(t.arr),
         NEW x \in ((2..Len(t.arr)) \ Subtree(t.arr, src)) \cup {src},
         Len(t.arr) + (t.arr[src].desc + 1) <= t.cap
  PROVE  TreeOK(CopyAsSibling(t, x, src))
<1> DEFINE a == t.arr
           D == Desc(a)
           n == Len(a)
           g == x + D[x] + 1
           T == Anc(D, x)
<1>0. x \in 2..n /\ x \in 1..n
  BY TreeFacts
<1>1. /\ n \in Nat /\ Preorder(D, n) /\ src \in 2..n /\ x \in 2..n
      /\ Ancestors(a, x) = Anc(D, x) /\ a[x].desc = D[x] /\ D[x] \in Nat
      /\ a[src].desc = D[src] /\ D[src] \in Nat
  BY <1>0, TreeFacts
<1>2. x \notin (src + 1)..(src + D[src])
  BY <1>1 DEF Subtree
<1>3. Fits(D, n, g, 0, T)
  BY ONLY <1>1, FitsAround
<1>4. T \cap (src..(src + D[src])) = {}
  BY ONLY <1>1, <1>2, OutsideBeside
<1>5. g \in Int /\ Past(a, x) = g /\ T = Ancestors(a, x)
  BY <1>1 DEF Past
<1> HIDE DEF T
<1>6. src \notin T
  <2>1. src \in src..(src + D[src])
    BY <1>1
  <2> QED
    BY <2>1, <1>4
<1>7. TreeOK(t) /\ n + Size(a, src) <= t.cap
  BY DEF Size
<1> HIDE DEF g
<1>8. TreeOK(CopySubtree(t, g, src, T))
  BY ONLY <1>1, <1>3, <1>5, <1>6, <1>7, CopyOK
<1> QED
  BY <1>5, <1>7, <1>8 DEF CopyAsSibling

\* A tree with another sound array is sound.
LEMMA ArrayOK ==
  ASSUME NEW t, TreeOK(t), NEW b, Sound(b, t.idcnt), Len(b) <= t.cap
  PROVE  TreeOK([t EXCEPT !.arr = b])
<1> DEFINE u == [t EXCEPT !.arr = b]
<1>1. t \in YnodeTree /\ t.ok /\ b \in Seq(Ynode)
  BY TreeIsSound DEF Sound
<1>2. u \in YnodeTree
  BY <1>1, Zenon DEF YnodeTree
<1>3. u.arr = b /\ u.cap = t.cap /\ u.idcnt = t.idcnt
  BY <1>1 DEF YnodeTree
<1>4. u.ok
  BY <1>1, Zenon DEF YnodeTree
<1> HIDE DEF u
<1>5. TreeOK(u)
  BY <1>2, <1>3, <1>4, TreeIsSound
<1> QED
  BY <1>5 DEF u

\* y is node x with other data.
Renews(y, x) == y \in Ynode /\ y.desc = x.desc /\ y.id = x.id

\* One node with other data leaves a sound array.
LEMMA RenewSound ==
  ASSUME NEW a, NEW c, Sound(a, c), NEW k \in 1..Len(a), NEW y, Renews(y, a[k])
  PROVE  Sound([a EXCEPT ![k] = y], c) /\ Len([a EXCEPT ![k] = y]) = Len(a)
<1> DEFINE b == [a EXCEPT ![k] = y]
<1>1. /\ a \in Seq(Ynode) /\ Len(a) \in Nat
      /\ \A j \in 1..Len(a) : a[j] \in Ynode
      /\ \A j \in 2..Len(a) : a[j].id \in 1..(c - 1)
  BY SoundFact
<1>2. /\ b \in [1..Len(a) -> Ynode]
      /\ \A j \in 1..Len(a) : b[j] = IF j = k THEN y ELSE a[j]
  BY <1>1 DEF Renews
<1> HIDE DEF b
<1>3. ASSUME NEW j \in 1..Len(a) PROVE b[j].desc = a[j].desc /\ b[j].id = a[j].id
  BY <1>2 DEF Renews
<1>4. ASSUME NEW j \in 2..Len(a) PROVE b[j].id \in 1..(c - 1)
  <2>1. j \in 1..Len(a)
    BY <1>1
  <2>2. b[j].id = a[j].id
    BY <2>1, <1>3
  <2> QED
    BY <2>2, <1>1
<1>5. Sound(b, c) /\ Len(b) = Len(a)
  BY <1>2, <1>3, <1>4, SameShape
<1> QED
  BY <1>5 DEF b

\* Two nodes that exchange their data, identifiers included, leave a sound
\* tree (ay_ynode_swap).
LEMMA SwapOK ==
  ASSUME NEW t, TreeOK(t), NEW i \in 2..Len(t.arr), NEW p \in 2..Len(t.arr), i # p
  PROVE  TreeOK(Swap(t, i, p))
<1> DEFINE a == t.arr
           c == t.idcnt
           n == Len(a)
           Put(x, y) == [y EXCEPT !.desc = x.desc, !.choice = x.choice]
           b == [a EXCEPT ![i] = Put(a[i], a[p]), ![p] = Put(a[p], a[i])]
<1>1. /\ Sound(a, c) /\ a \in Seq(Ynode) /\ n \in Nat /\ i \in 2..n /\ p \in 2..n
      /\ i \in 1..n /\ p \in 1..n /\ n <= t.cap
  BY TreeFacts, TreeIsSound
<1>2. /\ \A j \in 1..n : a[j] \in Ynode
      /\ \A j \in 2..n : a[j].id \in 1..(c - 1)
  BY <1>1, SoundFact
<1>3. ASSUME NEW x \in Ynode, NEW y \in Ynode
      PROVE  Put(x, y) \in Ynode /\ Put(x, y).desc = x.desc /\ Put(x, y).id = y.id
  BY DEF Ynode
<1>4. /\ a[i] \in Ynode /\ a[p] \in Ynode
      /\ a[i].id \in 1..(c - 1) /\ a[p].id \in 1..(c - 1)
  BY <1>1, <1>2
<1> DEFINE y == Put(a[i], a[p])
           z == Put(a[p], a[i])
<1>5. /\ y \in Ynode /\ y.desc = a[i].desc /\ y.id = a[p].id
      /\ z \in Ynode /\ z.desc = a[p].desc /\ z.id = a[i].id
  BY <1>3, <1>4
<1>6. b = [a EXCEPT ![i] = y, ![p] = z]
  OBVIOUS
<1>7. Swap(t, i, p) = [t EXCEPT !.arr = b]
  BY DEF Swap
<1> HIDE DEF y, z, b, Put, a, c, n
<1>8. /\ b \in [1..n -> Ynode]
      /\ \A j \in 1..n : b[j] = IF j = p THEN z ELSE IF j = i THEN y ELSE a[j]
  <2>1. a \in [1..n -> Ynode]
    BY <1>1 DEF n
  <2> DEFINE x == [a EXCEPT ![i] = y]
  <2>2. x \in [1..n -> Ynode] /\ \A j \in 1..n : x[j] = IF j = i THEN y ELSE a[j]
    BY <2>1, <1>1, <1>5
  <2>3. b = [x EXCEPT ![p] = z]
    BY <1>6
  <2> HIDE DEF x
  <2>4. b \in [1..n -> Ynode] /\ \A j \in 1..n : b[j] = IF j = p THEN z ELSE x[j]
    BY <2>2, <2>3, <1>1, <1>5
  <2> QED
    BY <2>2, <2>4
<1>9. ASSUME NEW j \in 1..n PROVE b[j].desc = a[j].desc
  BY <1>5, <1>8
<1>10. ASSUME NEW j \in 2..n PROVE b[j].id \in 1..(c - 1)
  <2>1. j \in 1..n
    BY <1>1
  <2>2. CASE j = p
    <3>1. b[j].id = a[i].id
      BY <2>1, <2>2, <1>5, <1>8
    <3> QED
      BY <3>1, <1>4
  <2>3. CASE j = i
    <3>1. b[j].id = a[p].id
      BY <2>1, <2>3, <1>5, <1>8
    <3> QED
      BY <3>1, <1>4
  <2>4. CASE j # i /\ j # p
    <3>1. b[j].id = a[j].id
      BY <2>1, <2>4, <1>8
    <3> QED
      BY <3>1, <1>2
  <2> QED
    BY <2>2, <2>3, <2>4
<1>11. Sound(b, c) /\ Len(b) = n
  BY <1>1, <1>8, <1>9, <1>10, SameShape DEF n
<1>12. TreeOK([t EXCEPT !.arr = b])
  BY <1>1, <1>11, ArrayOK DEF c
<1> QED
  BY <1>7, <1>12

\* A node cast to a case statement is a node in its place.
LEMMA YnodeAsCase ==
  ASSUME NEW y \in Ynode
  PROVE  Renews([y EXCEPT !.type = "case", !.snode = Null, !.label = Null,
                          !.value = Null, !.ref = 0, !.flags = {}], y)
  BY DEF Ynode, Renews, YangType, Null

\* A node with another choice is a node in its place.
LEMMA YnodeChoice ==
  ASSUME NEW y \in Ynode, NEW ch \in Nat
  PROVE  Renews([y EXCEPT !.choice = ch], y)
  BY DEF Ynode, Renews

\* A node with the choice and flags of its deleted parent is a node in its
\* place.
LEMMA YnodeHeir ==
  ASSUME NEW y \in Ynode, NEW ch \in Nat, NEW fl \in SUBSET YnodeFlag
  PROVE  Renews([y EXCEPT !.choice = ch, !.flags = fl], y)
  BY DEF Ynode, Renews

\* A deleted node leaves a sound tree, whether it becomes a case statement,
\* its children take its place, or the one that is left is taken out of its
\* choice (ay_ynode_delete_node).
LEMMA DeleteNodeOK ==
  ASSUME NEW t, TreeOK(t), NEW i \in 2..Len(t.arr)
  PROVE  TreeOK(DeleteNode(t, i))
<1> DEFINE a == t.arr
           c == t.idcnt
           n == Len(a)
           p == Parent(a, i)
           kids == Children(a, i)
           Ch(k) == IF a[i].type # "case" /\ a[i].choice # Null
                    THEN a[i].choice ELSE a[k].choice
           Fl(k) == IF "children_mand_false" \in a[i].flags
                    THEN a[k].flags \cup {"hint_mand_false"} ELSE a[k].flags
           Heir(k) == [a[k] EXCEPT !.choice = Ch(k), !.flags = Fl(k)]
           heirs == [j \in 1..Len(a) |-> IF j \in kids THEN Heir(j) ELSE a[j]]
           b == DeleteGap(Grow(heirs, Ancestors(a, i), -1), i, 1)
           only == b[p].desc > 0 /\ Next(b, p + 1) = Null
           asCase == [a[i] EXCEPT !.type = "case", !.snode = Null, !.label = Null,
                                  !.value = Null, !.ref = 0, !.flags = {}]
           e == [a EXCEPT ![i] = asCase]
           d == [b EXCEPT ![p + 1].choice = Null]
<1>1. /\ Sound(a, c) /\ a \in Seq(Ynode) /\ n \in Nat /\ i \in 2..n
      /\ i \in 1..n /\ n <= t.cap /\ Preorder(Desc(a), n)
      /\ Ancestors(a, i) = Anc(Desc(a), i) /\ t.cap \in Nat /\ t \in YnodeTree
  BY TreeFacts, TreeIsSound
<1>2. /\ \A j \in 1..n : a[j] \in Ynode
      /\ \A j \in 2..n : a[j].id \in 1..(c - 1)
      /\ a[i] \in Ynode
  BY <1>1, SoundFact
<1>3. DeleteNode(t, i) = IF CastsToCase(a, i) THEN [t EXCEPT !.arr = e]
                         ELSE [t EXCEPT !.arr = IF only THEN d ELSE b]
  BY DEF DeleteNode
<1>4. TreeOK([t EXCEPT !.arr = e])
  <2>1. Renews(asCase, a[i])
    BY <1>2, YnodeAsCase
  <2> HIDE DEF asCase
  <2>2. Sound(e, c) /\ Len(e) = n
    BY ONLY <1>1, <2>1, RenewSound
  <2> HIDE DEF e
  <2> QED
    BY <1>1, <2>2, ArrayOK
<1> HIDE DEF only, e
<1>5. Sound(heirs, c) /\ Len(heirs) = n /\ Desc(heirs) = Desc(a)
  <2>1. ASSUME NEW j \in 1..n PROVE Renews(heirs[j], a[j])
    <3>1. a[j] \in Ynode
      BY <1>2
    <3>2. CASE j \in kids
      <4>1. Ch(j) \in Nat /\ Fl(j) \in SUBSET YnodeFlag
        BY <3>1, <1>2 DEF Ynode, YnodeFlag
      <4>2. heirs[j] = [a[j] EXCEPT !.choice = Ch(j), !.flags = Fl(j)]
        BY <3>2
      <4> DEFINE ch == Ch(j)
                 fl == Fl(j)
                 z == a[j]
      <4>3. z \in Ynode /\ ch \in Nat /\ fl \in SUBSET YnodeFlag
        BY <3>1, <4>1
      <4>4. heirs[j] = [z EXCEPT !.choice = ch, !.flags = fl]
        BY <4>2
      <4> HIDE DEF ch, fl, heirs, z
      <4>5. Renews([z EXCEPT !.choice = ch, !.flags = fl], z)
        BY ONLY <4>3, YnodeHeir
      <4> QED
        BY <4>4, <4>5 DEF z
    <3>3. CASE j \notin kids
      BY <3>1, <3>3 DEF Renews
    <3> QED
      BY <3>2, <3>3
  <2>2. heirs \in [1..n -> Ynode]
    <3>1. heirs = [j \in 1..n |-> heirs[j]]
      OBVIOUS
    <3> HIDE DEF heirs
    <3> QED
      BY <2>1, <3>1 DEF Renews
  <2> HIDE DEF heirs
  <2>3. \A j \in 1..Len(a) : heirs[j].desc = a[j].desc /\ heirs[j].id = a[j].id
    BY <2>1 DEF Renews
  <2>4. \A j \in 2..Len(a) : heirs[j].id \in 1..(c - 1)
    <3> SUFFICES ASSUME NEW j \in 2..Len(a) PROVE heirs[j].id \in 1..(c - 1)
      OBVIOUS
    <3>1. j \in 1..Len(a)
      BY <1>1
    <3> QED
      BY <3>1, <2>3, <1>2
  <2>5. Sound(heirs, c) /\ Len(heirs) = n
    BY <1>1, <2>2, <2>3, <2>4, SameShape
  <2>6. Desc(heirs) = Desc(a)
    BY <2>3, <2>5 DEF Desc
  <2> QED
    BY <2>5, <2>6
<1> HIDE DEF heirs
<1>6. Sound(b, c) /\ Len(b) = n - 1
  <2>1. Covers(Desc(a), n, i, 1, Anc(Desc(a), i))
    BY <1>1, SubtreeCut
  <2>2. Covers(Desc(heirs), Len(heirs), i, 1, Ancestors(a, i))
    BY <1>1, <1>5, <2>1
  <2>3. i \in Int /\ 1 \in Int /\ Sound(heirs, c)
    BY <1>1, <1>5
  <2>4. Sound(b, c) /\ Len(b) = Len(heirs) - 1
    BY ONLY <2>2, <2>3, CutSound
  <2> QED
    BY <2>4, <1>5
<1> HIDE DEF b
<1>7. Len(b) <= t.cap /\ Len(b) \in Nat /\ b \in Seq(Ynode)
  <2>1. Len(b) \in Nat /\ b \in Seq(Ynode)
    BY <1>6, SoundFact
  <2> QED
    BY <2>1, <1>1, <1>6
<1>8. TreeOK([t EXCEPT !.arr = b])
  BY <1>6, <1>7, ArrayOK
<1>9. TreeOK([t EXCEPT !.arr = d])
  <2> DEFINE q == p + 1
             y == [b[q] EXCEPT !.choice = Null]
  <2>1. d = [b EXCEPT ![q] = y]
    OBVIOUS
  <2>2. CASE q \in 1..Len(b)
    <3>1. b[q] \in Ynode
      BY <1>7, <2>2
    <3>2. Renews(y, b[q])
      BY <3>1, YnodeChoice DEF Null
    <3> HIDE DEF y, q, d
    <3>3. Sound(d, c) /\ Len(d) = Len(b)
      BY <1>6, <2>1, <2>2, <3>2, RenewSound
    <3> QED
      BY <1>7, <3>3, ArrayOK
  <2>3. CASE q \notin 1..Len(b)
    <3> HIDE DEF y, q, d
    <3>1. d = b
      BY <1>7, <2>1, <2>3
    <3> QED
      BY <3>1, <1>8
  <2> QED
    BY <2>2, <2>3
<1> HIDE DEF d
<1> QED
  BY <1>3, <1>4, <1>8, <1>9

(***************************************************************************)
(* The theorem.                                                            *)
(***************************************************************************)

\* Any number of the editing operations of augyang, in any order, from any
\* sound tree, leaves a sound tree: the counts make the array the preorder of
\* a tree, no operation writes behind the allocated memory, and every
\* identifier in use is below the next one to be handed out.
THEOREM TreeTypeCorrect == Spec => []TypeOK
<1>1. Init => TypeOK
  BY TreeAssumption DEF Init, TypeOK
<1>2. TypeOK /\ [NextStep]_vars => TypeOK'
  <2> SUFFICES ASSUME TypeOK, [NextStep]_vars PROVE TypeOK'
    OBVIOUS
  <2>1. TreeOK(tree) /\ MaxOps \in Nat /\ ops \in 0..MaxOps
    BY TreeAssumption DEF TypeOK
  <2>2. Len(tree.arr) \in Nat /\ tree.cap \in Nat
    BY <2>1, TreeFacts
  <2>3. CASE NextStep
    <3>1. ops' \in 0..MaxOps
      BY <2>1, <2>3 DEF NextStep
    <3>2. ASSUME Insert PROVE TreeOK(tree')
      <4>1. Len(tree.arr) < tree.cap
        BY <2>2, <3>2 DEF Insert, Reserved
      <4>2. ASSUME NEW i \in Nodes
            PROVE  /\ TreeOK(InsertWrapper(tree, i)) /\ TreeOK(InsertParent(tree, i))
                   /\ TreeOK(InsertParentForRest(tree, i)) /\ TreeOK(InsertSibling(tree, i))
        BY <2>1, <4>1, InsertsOK DEF Nodes
      <4>3. ASSUME NEW i \in 1..Len(tree.arr)
            PROVE  TreeOK(InsertChild(tree, i)) /\ TreeOK(InsertChildLast(tree, i))
        BY <2>1, <4>1, InsertChildrenOK
      <4> QED
        BY <3>2, <4>2, <4>3 DEF Insert
    <3>3. ASSUME Delete PROVE TreeOK(tree')
      <4>1. ASSUME NEW i \in Nodes
            PROVE  /\ TreeOK(DeleteNode(tree, i)) /\ TreeOK(DeleteSubtree(tree, i))
                   /\ \A keep \in BOOLEAN : TreeOK(DeleteChildren(tree, i, keep))
        BY <2>1, DeleteNodeOK, DeleteSubtreeOK, DeleteChildrenOK DEF Nodes
      <4> QED
        BY <3>3, <4>1 DEF Delete
    <3>4. ASSUME MoveNodes PROVE TreeOK(tree')
      <4>0. PICK src \in Nodes : \E dst \in 1..Len(tree.arr) \ Subtree(tree.arr, src) :
              \/ dst # 1 /\ tree' = MoveAsSibling(tree, dst, src)
              \/ tree' = MoveAsChild(tree, dst, src)
              \/ tree' = MoveAsLastChild(tree, dst, src)
        BY <3>4 DEF MoveNodes
      <4>1. PICK dst \in 1..Len(tree.arr) \ Subtree(tree.arr, src) :
              \/ dst # 1 /\ tree' = MoveAsSibling(tree, dst, src)
              \/ tree' = MoveAsChild(tree, dst, src)
              \/ tree' = MoveAsLastChild(tree, dst, src)
        BY <4>0
      <4>2. src \in 2..Len(tree.arr)
        BY DEF Nodes
      <4>3. TreeOK(MoveAsChild(tree, dst, src)) /\ TreeOK(MoveAsLastChild(tree, dst, src))
        BY <2>1, <4>2, MoveAsChildOK, MoveAsLastChildOK
      <4>4. ASSUME dst # 1 PROVE TreeOK(MoveAsSibling(tree, dst, src))
        <5>1. /\ src \in 1..Len(tree.arr) /\ dst \in 2..Len(tree.arr)
          BY <2>2, <4>2, <4>4
        <5>2. tree.arr[src].desc = Desc(tree.arr)[src] /\ Desc(tree.arr)[src] \in Nat
          BY <2>1, <5>1, TreeFacts
        <5>3. dst \notin (src + 1)..(src + Desc(tree.arr)[src])
          BY <4>2, <5>1, <5>2 DEF Subtree
        <5> QED
          BY ONLY <2>1, <4>2, <5>1, <5>3, MoveAsSiblingOK
      <4> QED
        BY <4>1, <4>3, <4>4
    <3>5. ASSUME CopyNodes PROVE TreeOK(tree')
      <4>1. PICK src \in Nodes :
              /\ Reserved(tree.arr[src].desc + 1)
              /\ \/ \E dst \in 1..Len(tree.arr) \ Subtree(tree.arr, src) :
                      tree' = CopyAsLastChild(tree, dst, src)
                 \/ \E dst \in (Nodes \ Subtree(tree.arr, src)) \cup {src} :
                      tree' = CopyAsSibling(tree, dst, src)
        BY <3>5 DEF CopyNodes
      <4>2. src \in 2..Len(tree.arr) /\ Len(tree.arr) + (tree.arr[src].desc + 1) <= tree.cap
        BY <4>1 DEF Nodes, Reserved
      <4>3. ASSUME NEW dst \in 1..Len(tree.arr) \ Subtree(tree.arr, src)
            PROVE  TreeOK(CopyAsLastChild(tree, dst, src))
        BY <2>1, <4>2, CopyAsLastChildOK
      <4>4. ASSUME NEW dst \in (Nodes \ Subtree(tree.arr, src)) \cup {src}
            PROVE  TreeOK(CopyAsSibling(tree, dst, src))
        BY <2>1, <4>2, CopyAsSiblingOK DEF Nodes
      <4> QED
        BY <4>1, <4>3, <4>4
    <3>6. ASSUME SwapNodes PROVE TreeOK(tree')
      <4>1. PICK i \in Nodes : /\ Parent(tree.arr, i) # 1
                               /\ tree' = Swap(tree, i, Parent(tree.arr, i))
        BY <3>6 DEF SwapNodes
      <4>2. i \in 2..Len(tree.arr)
        BY DEF Nodes
      <4>3. Parent(tree.arr, i) \in 1..Len(tree.arr) /\ Parent(tree.arr, i) < i
        BY <2>1, <4>2, TreeFacts, ParentFact
      <4>4. Parent(tree.arr, i) \in 2..Len(tree.arr) /\ Parent(tree.arr, i) # i
        BY <2>2, <4>1, <4>2, <4>3
      <4> QED
        BY <2>1, <4>1, <4>2, <4>4, SwapOK
    <3> QED
      BY <2>3, <3>1, <3>2, <3>3, <3>4, <3>5, <3>6 DEF NextStep, TypeOK
  <2>4. CASE UNCHANGED vars
    BY <2>4 DEF vars, TypeOK
  <2> QED
    BY <2>3, <2>4
<1> QED
  BY <1>1, <1>2, PTL DEF Spec
=============================================================================
