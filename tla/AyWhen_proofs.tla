---------------------------- MODULE AyWhen_proofs ----------------------------
(***************************************************************************)
(* The 'when' references of a copied subtree, for trees of any size.       *)
(*                                                                         *)
(* The argument: the copy holds the nodes of the original, and whichever   *)
(* node the lookup by identifier ends with, its subtree holds them too, as *)
(* all nodes with that identifier are true copies. So the search for a     *)
(* flagged target finds a node with the identifier that the reference      *)
(* has, and the correction leaves the reference as it was. The nearest     *)
(* ancestor that has the target below is in the subtree, hence also in the *)
(* copy, on the same place.                                                *)
(***************************************************************************)
EXTENDS AyTree_proofs

\* The nodes of b after the copy of the subtree of src, of m nodes, to g: the
\* copy, and the nodes behind it, are as they were (ay_ynode_copy_subtree).
LEMMA CopyNodesAre ==
  ASSUME NEW a, NEW c, Sound(a, c), NEW src \in 2..Len(a), NEW m \in Int,
         NEW g \in Int, NEW T, NEW b, Copies(a, src, m, g, T, b)
  PROVE  /\ b \in Seq(Ynode) /\ Len(b) = Len(a) + m /\ Len(a) \in Nat
         /\ m \in Nat /\ m = a[src].desc + 1 /\ src + m <= Len(a) + 1
         /\ g \in 2..(Len(a) + 1)
         /\ \A j \in 1..(g - 1) : j \notin T => b[j] = a[j]
         /\ \A j \in g..(g + m - 1) : b[j] = a[src + (j - g)]
         /\ \A j \in (g + m)..(Len(a) + m) : b[j] = a[j - m]
<1> DEFINE n == Len(a)
           x == Grow(a, T, m)
           s == Slice(a, src, m)
<1>0. /\ Sound(a, c) /\ src \in 2..Len(a) /\ m \in Int /\ g \in Int
      /\ Copies(a, src, m, g, T, b)
  OBVIOUS
<1>1. /\ m \in Nat /\ m >= 1 /\ src + m <= n + 1 /\ n \in Nat /\ g \in 2..(n + 1) /\ src \in 2..n
  BY ONLY <1>0, CopySound
<1>2. a \in Seq(Ynode) /\ \A j \in 1..n : a[j].desc \in Nat
  BY ONLY <1>0, SoundFact
<1>3. b = InsertRange(x, g, s) /\ m = a[src].desc + 1
  BY DEF Copies, Size
<1>4. \A j \in T : j \in 1..(g - 1)
  BY DEF Copies, Fits, Above
<1> HIDE DEF n
<1>5. \A j \in 1..Len(a) : j \in T => a[j].desc + m \in Nat
  BY <1>1, <1>2 DEF n
<1>6. x \in Seq(Ynode) /\ Len(x) = n /\ \A j \in 1..n : j \notin T => x[j] = a[j]
  BY ONLY <1>1, <1>2, <1>5, GrowFact DEF n
<1>7. s \in Seq(Ynode) /\ Len(s) = m /\ \A j \in 1..m : s[j] = a[src + j - 1]
  <2>1. src \in 1..Len(a) /\ m \in 1..(Len(a) - src + 1)
    BY <1>1 DEF n
  <2> QED
    BY ONLY <2>1, <1>2, SliceFact
<1> HIDE DEF x, s
<1>8. /\ b \in Seq(Ynode) /\ Len(b) = n + m
      /\ \A j \in 1..(g - 1) : b[j] = x[j]
      /\ \A j \in g..(g + m - 1) : b[j] = s[j - g + 1]
      /\ \A j \in (g + m)..(n + m) : b[j] = x[j - m]
  <2>1. g \in 1..(Len(x) + 1)
    BY <1>1, <1>6
  <2>2. x \in Seq(Ynode) /\ s \in Seq(Ynode) /\ Len(x) = n /\ Len(s) = m
    BY ONLY <1>6, <1>7
  <2>3. /\ InsertRange(x, g, s) \in Seq(Ynode)
        /\ Len(InsertRange(x, g, s)) = Len(x) + Len(s)
        /\ \A j \in 1..(g - 1) : InsertRange(x, g, s)[j] = x[j]
        /\ \A j \in g..(g + Len(s) - 1) : InsertRange(x, g, s)[j] = s[j - g + 1]
        /\ \A j \in (g + Len(s))..(Len(x) + Len(s)) : InsertRange(x, g, s)[j] = x[j - Len(s)]
    BY ONLY <2>1, <2>2, InsertRangeFact
  <2> QED
    BY ONLY <2>2, <2>3, <1>3
<1>9. ASSUME NEW j \in 1..(g - 1), j \notin T PROVE b[j] = a[j]
  <2>1. j \in 1..n
    BY <1>1
  <2> QED
    BY <2>1, <1>6, <1>8, <1>9
<1>10. ASSUME NEW j \in g..(g + m - 1) PROVE b[j] = a[src + (j - g)]
  <2>1. j - g + 1 \in 1..m /\ src + (j - g + 1) - 1 = src + (j - g)
    BY <1>1
  <2> QED
    BY <2>1, <1>7, <1>8
<1>11. ASSUME NEW j \in (g + m)..(n + m) PROVE b[j] = a[j - m]
  <2>1. j - m \in 1..n /\ j - m \notin 1..(g - 1)
    BY <1>1
  <2> QED
    BY <2>1, <1>4, <1>6, <1>8
<1> QED
  BY <1>1, <1>3, <1>8, <1>9, <1>10, <1>11 DEF n

\* Whichever node ay_ynode_get_node finds for the original, the nodes of its
\* subtree are those of the original.
LEMMA OriginalFound ==
  ASSUME NEW a, NEW c, Sound(a, c), NEW src \in 2..Len(a), NEW m \in Int,
         NEW g \in Int, NEW T, NEW b, Copies(a, src, m, g, T, b),
         TrueCopies(a, src), T \cap (src..(src + m - 1)) = {},
         g <= src \/ g >= src + m
  PROVE  LET orig == GetNode(b, src, a[src].id)
         IN  /\ orig \in Nat
             /\ \A k \in 0..(m - 1) : b[orig + k] = a[src + k]
<1> DEFINE id == a[src].id
           hits == {j \in src..Len(b) : b[j].id = id}
           orig == GetNode(b, src, id)
           n == Len(a)
<1>0. /\ Sound(a, c) /\ src \in 2..Len(a) /\ m \in Int /\ g \in Int
      /\ Copies(a, src, m, g, T, b)
  OBVIOUS
<1>1. /\ Len(b) = n + m /\ n \in Nat
      /\ m \in Nat /\ m = a[src].desc + 1 /\ src + m <= n + 1
      /\ g \in 2..(n + 1)
  BY ONLY <1>0, CopyNodesAre
<1>2. /\ \A j \in 1..(g - 1) : j \notin T => b[j] = a[j]
      /\ \A j \in g..(g + m - 1) : b[j] = a[src + (j - g)]
      /\ \A j \in (g + m)..(n + m) : b[j] = a[j - m]
  BY ONLY <1>0, CopyNodesAre
<1>3. /\ Preorder(Desc(a), n)
      /\ \A j \in 1..n : a[j].desc \in Nat /\ Desc(a)[j] = a[j].desc
      /\ \A j \in 1..n : j + a[j].desc <= n
  BY ONLY <1>0, SoundFact
<1>4. \A j \in 2..n : a[j].id = id =>
         /\ a[j].desc = a[src].desc
         /\ \A k \in 0..a[src].desc : a[j + k] = a[src + k]
  BY DEF TrueCopies
<1>40. src \in 2..n
  OBVIOUS
<1> HIDE DEF n
<1>41. src \in Nat /\ m >= 1
  BY <1>1, <1>3, <1>40
<1>42. /\ n \in Int /\ m \in Int /\ g \in Int /\ src \in Int
       /\ 2 <= g /\ g <= n + 1 /\ 2 <= src /\ src <= n /\ src + m <= n + 1 /\ 1 <= m
  BY ONLY <1>1, <1>40, <1>41
<1>5. orig = FirstOf(hits)
  BY DEF GetNode
<1>6. hits \in SUBSET Nat /\ \A j \in hits : j \in src..(n + m) /\ b[j].id = id
  BY <1>1, <1>40
<1>7. CASE g >= src + m
  <2>1. ASSUME NEW k \in 0..(m - 1) PROVE b[src + k] = a[src + k]
    <3>1. src + k \in 1..(g - 1) /\ src + k \in src..(src + m - 1)
      BY <1>1, <1>40, <1>7
    <3> QED
      BY <3>1, <1>2
  <2>2. b[src] = a[src]
    <3>1. 0 \in 0..(m - 1) /\ src + 0 = src
      BY <1>1, <1>3, <1>40
    <3>2. b[src + 0] = a[src + 0]
      BY ONLY <3>1, <2>1
    <3> QED
      BY ONLY <3>1, <3>2
  <2>3. src \in hits
    <3>1. src \in src..Len(b)
      BY <1>1, <1>40
    <3> QED
      BY <3>1, <2>2
  <2> HIDE DEF hits, orig
  <2>4. FirstOf(hits) \in hits /\ FirstOf(hits) <= src
    BY <1>6, <2>3, FirstOfFact
  <2>5. orig = src
    <3>1. orig \in src..(n + m) /\ orig <= src
      BY <2>4, <1>5, <1>6
    <3> QED
      BY <3>1, <1>1, <1>40
  <2> QED
    BY <2>1, <2>5, <1>40 DEF orig
<1>8. CASE g <= src
  <2>1. src + m \in hits
    <3>1. src + m \in (g + m)..(n + m) /\ (src + m) - m = src /\ src + m \in src..(n + m)
      BY <1>1, <1>40, <1>8
    <3>2. b[src + m] = a[(src + m) - m]
      BY ONLY <3>1, <1>2
    <3> QED
      BY <3>1, <3>2, <1>1
  <2> HIDE DEF hits, orig
  <2>2. FirstOf(hits) \in hits
    BY <1>6, <2>1, FirstOfFact
  <2>3. orig \in src..(n + m) /\ b[orig].id = id
    BY <2>2, <1>5, <1>6
  <2>30. orig \in Int /\ src <= orig /\ orig <= n + m
    BY ONLY <2>3, <1>42
  <2>4. CASE orig < g + m
    <3> DEFINE q == orig - g
               j == src + q
    <3>1. q \in 0..(m - 1) /\ orig \in g..(g + m - 1)
      BY ONLY <2>30, <2>4, <1>8, <1>42
    <3>2. b[orig] = a[j]
      BY <3>1, <1>2
    <3>3. j \in 2..n /\ j \in 1..n /\ src \in 1..n
      BY <3>1, <1>1, <1>40
    <3>4. a[j].desc = a[src].desc
      BY <3>2, <3>3, <2>3, <1>4
    <3> HIDE DEF j
    <3>5. src < j /\ j <= src + Desc(a)[src] => j + Desc(a)[j] <= src + Desc(a)[src]
      BY <1>1, <1>3, <3>3, PreorderFacts
    <3>6. Desc(a)[j] = m - 1 /\ Desc(a)[src] = m - 1
      <4>1. /\ Desc(a)[j] = a[j].desc /\ Desc(a)[src] = a[src].desc
            /\ a[src].desc \in Nat
        BY ONLY <3>3, <1>3
      <4> QED
        BY ONLY <4>1, <3>4, <1>1
    <3>7. j = src + q /\ q \in Nat /\ m \in Nat /\ q <= m - 1
      BY <3>1, <1>1 DEF j
    <3>8. q = 0
      <4> HIDE DEF q
      <4> QED
        BY <3>5, <3>6, <3>7, <1>41
    <3>9. orig = g
      BY <3>8, <2>3, <1>1
    <3>10. ASSUME NEW k \in 0..(m - 1) PROVE b[g + k] = a[src + k]
      <4>1. g + k \in g..(g + m - 1) /\ src + ((g + k) - g) = src + k
        BY <1>1, <1>40
      <4> QED
        BY <4>1, <1>2
    <3> QED
      BY <3>9, <3>10, <1>1 DEF orig
  <2>5. CASE orig >= g + m
    <3> DEFINE j == orig - m
    <3>1. j \in 2..n /\ orig \in (g + m)..(n + m) /\ j >= g /\ j \in 1..n
      BY ONLY <2>30, <2>5, <1>42
    <3>2. b[orig] = a[j]
      BY <3>1, <1>2
    <3>3. a[j].desc = a[src].desc /\ \A k \in 0..a[src].desc : a[j + k] = a[src + k]
      BY <3>1, <3>2, <2>3, <1>4
    <3>4. j + (m - 1) <= n
      <4>1. j + a[j].desc <= n
        BY ONLY <3>1, <1>3
      <4>2. src \in 1..n
        BY ONLY <1>42
      <4>3. a[src].desc \in Nat
        BY ONLY <4>2, <1>3
      <4>4. a[src].desc = m - 1
        BY ONLY <4>3, <1>1
      <4> QED
        BY ONLY <4>1, <4>4, <3>3
    <3>5. ASSUME NEW k \in 0..(m - 1) PROVE b[orig + k] = a[src + k]
      <4>1. orig + k \in (g + m)..(n + m) /\ (orig + k) - m = j + k
        BY ONLY <3>1, <3>4, <1>42, <2>30, <2>5
      <4>2. b[orig + k] = a[(orig + k) - m]
        BY <4>1, <1>2
      <4>3. k \in 0..a[src].desc
        <5>1. src \in 1..n
          BY ONLY <1>42
        <5>2. a[src].desc \in Nat /\ m = a[src].desc + 1
          BY ONLY <5>1, <1>1, <1>3
        <5> QED
          BY ONLY <5>2, k \in 0..(m - 1)
      <4> QED
        BY <4>1, <4>2, <4>3, <3>3
    <3>6. orig \in Nat
      BY <2>3, <1>1, <1>40
    <3> QED
      BY <3>5, <3>6 DEF orig
  <2> QED
    BY <2>3, <2>4, <2>5, <1>1
<1> QED
  BY <1>7, <1>8

\* In b the m nodes of the subtree of src in a stand at orig, and a copy at g.
CopyOf(b, g, orig, a, src, m) ==
  /\ b \in Seq(Ynode) /\ src \in Nat /\ m \in Nat /\ g \in Nat /\ orig \in Nat
  /\ 1 <= g /\ g + m - 1 <= Len(b) /\ m = a[src].desc + 1 /\ a[src].desc \in Nat
  /\ \A k \in 0..(m - 1) : b[orig + k] = a[src + k] /\ b[g + k] = a[src + k]

\* Node i of the subtree of src, of m nodes, has a reference to the flagged
\* node w of it.
Refers(a, src, m, i, w) ==
  /\ i \in (src + 1)..(src + m - 1) /\ w \in src..(src + m - 1)
  /\ a[w].id = a[i].wref /\ "when_target" \in a[w].flags

\* A reference to a flagged node of the subtree is the same in the copy, after
\* the correction (ay_ynode_copy_subtree_when_ref_correction): the search finds
\* a node with the identifier. The correction changes nothing but references.
LEMMA ReferenceKept ==
  ASSUME NEW b, NEW a, NEW src, NEW m, NEW g, NEW orig, CopyOf(b, g, orig, a, src, m),
         NEW i, NEW w, Refers(a, src, m, i, w)
  PROVE  WhenRefCorrection(b, g, orig)[g + i - src].wref = a[i].wref
<1> DEFINE n == Len(b)
           d == b[orig].desc
           sub == Subtree(b, orig)
           Hit(r, j) == b[j].id = r /\ "when_target" \in b[j].flags
           Found(r) == IF \E j \in sub : Hit(r, j)
                       THEN FirstOf({j \in sub : Hit(r, j)}) ELSE Past(b, orig) - 1
           e == [k \in 1..n |->
                   IF k > g /\ k <= g + d /\ b[orig + k - g].wref # 0
                   THEN [b[k] EXCEPT !.wref = b[g + Found(b[orig + k - g].wref) - orig].id]
                   ELSE b[k]]
           k0 == g + i - src
           r0 == a[i].wref
           H == {j \in sub : Hit(r0, j)}
           f == FirstOf(H)
<1>0. /\ b \in Seq(Ynode) /\ src \in Nat /\ m \in Nat /\ g \in Nat /\ orig \in Nat
      /\ 1 <= g /\ g + m - 1 <= Len(b) /\ m = a[src].desc + 1 /\ a[src].desc \in Nat
      /\ i \in (src + 1)..(src + m - 1) /\ w \in src..(src + m - 1)
      /\ a[w].id = a[i].wref /\ "when_target" \in a[w].flags
  BY DEF CopyOf, Refers
<1>1. WhenRefCorrection(b, g, orig) = e
  BY DEF WhenRefCorrection
<1>2. \A k \in 0..(m - 1) : b[orig + k] = a[src + k] /\ b[g + k] = a[src + k]
  BY DEF CopyOf
<1>3. d = m - 1
  <2>1. 0 \in 0..(m - 1) /\ orig + 0 = orig /\ src + 0 = src
    BY <1>0
  <2>2. b[orig + 0] = a[src + 0]
    BY ONLY <2>1, <1>2
  <2>3. b[orig] = a[src]
    BY ONLY <2>1, <2>2
  <2> QED
    BY <2>3, <1>0
<1>4. sub = orig..(orig + (m - 1))
  BY <1>3, <1>0 DEF Subtree
<1>5. /\ i - src \in 0..(m - 1) /\ g + (i - src) = k0 /\ src + (i - src) = i
      /\ orig + (i - src) = orig + k0 - g
      /\ k0 \in 1..n /\ k0 > g /\ k0 <= g + (m - 1)
  <2>1. /\ src \in Int /\ m \in Int /\ g \in Int /\ orig \in Int /\ i \in Int /\ n \in Int
        /\ src < i /\ i < src + m /\ 1 <= g /\ g + m - 1 <= n
    BY <1>0
  <2> HIDE DEF n
  <2> QED
    BY ONLY <2>1
<1>6. b[k0] = a[i] /\ b[orig + k0 - g] = a[i]
  <2>1. b[orig + (i - src)] = a[src + (i - src)] /\ b[g + (i - src)] = a[src + (i - src)]
    BY ONLY <1>2, <1>5
  <2> QED
    BY ONLY <2>1, <1>5
<1>7. orig + (w - src) \in H
  <2>0. /\ src \in Int /\ m \in Int /\ orig \in Int /\ w \in Int
        /\ src <= w /\ w < src + m
    BY <1>0
  <2>1. w - src \in 0..(m - 1) /\ src + (w - src) = w /\ orig + (w - src) \in orig..(orig + (m - 1))
    BY ONLY <2>0
  <2>2. b[orig + (w - src)] = a[src + (w - src)]
    BY ONLY <2>1, <1>2
  <2> QED
    BY <2>1, <2>2, <1>0, <1>4
<1>8. H \in SUBSET Nat
  BY <1>0, <1>4
<1>9. f \in H
  <2> HIDE DEF H
  <2> QED
    BY <1>7, <1>8, FirstOfFact
<1>10. f \in orig..(orig + (m - 1)) /\ b[f].id = r0
  <2> HIDE DEF f
  <2> QED
    BY <1>4, <1>9
<1>11. Found(r0) = f
  BY <1>7
<1> HIDE DEF f, H, sub
<1>12. b[g + f - orig].id = r0
  <2>1. f - orig \in 0..(m - 1) /\ orig + (f - orig) = f /\ g + (f - orig) = g + f - orig
    <3>1. f \in orig..(orig + (m - 1)) /\ m \in Nat /\ orig \in Nat /\ g \in Nat
      BY ONLY <1>10, <1>0
    <3> QED
      BY ONLY <3>1
  <2>2. b[orig + (f - orig)] = a[src + (f - orig)] /\ b[g + (f - orig)] = a[src + (f - orig)]
    BY ONLY <2>1, <1>2
  <2>3. b[f] = b[g + f - orig]
    BY ONLY <2>1, <2>2
  <2> QED
    BY ONLY <2>3, <1>10
<1> HIDE DEF Found
<1>13. e[k0].wref = r0
  <2>1. b[k0] \in Ynode
    BY <1>0, <1>5
  <2>2. CASE r0 # 0
    <3>1. e[k0] = [b[k0] EXCEPT !.wref = b[g + Found(b[orig + k0 - g].wref) - orig].id]
      BY <1>3, <1>5, <1>6, <2>2
    <3>2. Found(b[orig + k0 - g].wref) = f
      BY <1>6, <1>11
    <3>3. e[k0] = [b[k0] EXCEPT !.wref = r0]
      BY <3>1, <3>2, <1>12
    <3> HIDE DEF e, r0
    <3> QED
      BY <2>1, <3>3 DEF Ynode
  <2>3. CASE r0 = 0
    <3>1. e[k0] = b[k0]
      BY <1>5, <1>6, <2>3
    <3> QED
      BY <3>1, <1>6
  <2> QED
    BY <2>2, <2>3
<1> QED
  BY <1>1, <1>13

\* w is the first node below P with the identifier that the 'when' of node i
\* has, and no ancestor of i nearer than P has one.
IsTarget(a, i, P, w) ==
  /\ P \in Ancestors(a, i) /\ w \in Subtree(a, P) /\ a[w].id = a[i].wref
  /\ \A q \in Ancestors(a, i) : \A j \in Subtree(a, q) : a[j].id = a[i].wref => q <= P
  /\ \A j \in Subtree(a, P) : a[j].id = a[i].wref => w <= j

\* That is what WhenNode finds (ay_ynode_when_target): an ancestor that is the
\* target is also the first such node below itself.
LEMMA TargetIs ==
  ASSUME NEW a \in Seq(Ynode), NEW i \in 1..Len(a)
  PROVE  /\ WhenNode(a, i) # Null => \E P : IsTarget(a, i, P, WhenNode(a, i))
         /\ \A P, w : IsTarget(a, i, P, w) => WhenNode(a, i) = w
<1> DEFINE n == Len(a)
           r == a[i].wref
           has == {p \in Ancestors(a, i) : \E j \in Subtree(a, p) : a[j].id = r}
           L == LastOf(has)
           Hits(p) == {j \in Subtree(a, p) : a[j].id = r}
<1>1. n \in Nat /\ \A j \in 1..n : a[j].desc \in Nat
  BY DescFact
<1>2. has \in SUBSET (1..n)
  BY DEF Ancestors
<1>3. WhenNode(a, i) = IF L = Null THEN Null ELSE IF a[L].id = r THEN L ELSE FirstOf(Hits(L))
  BY DEF WhenNode
<1>4. /\ has = {} => L = 0
      /\ has # {} => L \in has /\ \A y \in has : y <= L
  <2> HIDE DEF has
  <2> QED
    BY <1>1, <1>2, LastOfFact
<1>5. ASSUME NEW p \in has
      PROVE  /\ p \in 1..n /\ p # Null
             /\ Subtree(a, p) = p..(p + a[p].desc) /\ a[p].desc \in Nat
             /\ FirstOf(Hits(p)) \in Hits(p) /\ \A y \in Hits(p) : FirstOf(Hits(p)) <= y
             /\ a[p].id = r => FirstOf(Hits(p)) = p
  <2>1. p \in 1..n /\ a[p].desc \in Nat
    BY <1>1, <1>2
  <2>2. Subtree(a, p) = p..(p + a[p].desc)
    BY DEF Subtree
  <2>3. Hits(p) \in SUBSET Nat /\ Hits(p) # {}
    BY <2>1, <2>2
  <2>4. a[p].id = r => p \in Hits(p)
    BY <2>1, <2>2
  <2>5. \A y \in Hits(p) : y \in Nat /\ p <= y
    BY <2>1, <2>2
  <2> DEFINE h == Hits(p)
  <2> HIDE DEF h
  <2>6. FirstOf(h) \in h /\ \A y \in h : FirstOf(h) <= y
    BY <2>3, FirstOfFact DEF h
  <2>7. a[p].id = r => FirstOf(h) = p
    <3>1. FirstOf(h) \in Nat /\ p <= FirstOf(h)
      BY <2>5, <2>6 DEF h
    <3>2. a[p].id = r => FirstOf(h) <= p
      BY <2>4, <2>6 DEF h
    <3> QED
      BY <3>1, <3>2, <2>1
  <2> QED
    BY <2>1, <2>2, <2>6, <2>7 DEF h, Null
<1>6. ASSUME WhenNode(a, i) # Null PROVE IsTarget(a, i, L, WhenNode(a, i))
  <2>1. L # Null /\ has # {}
    BY <1>3, <1>4, <1>6 DEF Null
  <2>2. L \in has /\ \A y \in has : y <= L
    BY <1>4, <2>1
  <2>3. WhenNode(a, i) = FirstOf(Hits(L))
    BY <1>3, <1>5, <2>1, <2>2
  <2>4. /\ FirstOf(Hits(L)) \in Hits(L) /\ \A y \in Hits(L) : FirstOf(Hits(L)) <= y
    BY <1>5, <2>2
  <2> HIDE DEF L
  <2> QED
    BY <2>2, <2>3, <2>4 DEF IsTarget
<1>7. ASSUME NEW P, NEW w, IsTarget(a, i, P, w) PROVE WhenNode(a, i) = w
  <2>1. P \in has /\ w \in Hits(P) /\ \A y \in Hits(P) : w <= y
    BY <1>7 DEF IsTarget
  <2>2. \A y \in has : y <= P
    BY <1>7 DEF IsTarget
  <2>3. L \in has /\ P <= L /\ L <= P
    BY <1>4, <2>1, <2>2
  <2>4. L = P
    <3>1. L \in 1..n /\ P \in 1..n
      BY <1>2, <2>1, <2>3
    <3> QED
      BY <3>1, <2>3
  <2>5. WhenNode(a, i) = FirstOf(Hits(P))
    BY <1>3, <1>5, <2>1, <2>4
  <2>6. FirstOf(Hits(P)) \in Hits(P) /\ FirstOf(Hits(P)) <= w
    BY <1>5, <2>1
  <2>7. w <= FirstOf(Hits(P))
    BY <2>1, <2>6
  <2>8. w \in Int /\ FirstOf(Hits(P)) \in Int
    <3>1. Subtree(a, P) = P..(P + a[P].desc)
      BY <1>5, <2>1
    <3> QED
      BY <3>1, <2>1, <2>6
  <2> QED
    BY <2>5, <2>6, <2>7, <2>8
<1> QED
  BY <1>6, <1>7

\* The array e has, at index g, the identifiers and the counts of the m nodes
\* of the subtree of src in a.
Echoes(e, g, a, src, m) ==
  /\ e \in Seq(Ynode) /\ g \in Nat \ {0} /\ g + m - 1 <= Len(e)
  /\ m = a[src].desc + 1
  /\ \A k \in 0..(m - 1) : /\ e[g + k].id = a[src + k].id
                           /\ e[g + k].desc = a[src + k].desc

\* Indices in the original and in the copy.
LEMMA Shifted ==
  ASSUME NEW g \in Int, NEW src \in Int, NEW p \in Int, NEW d \in Int
  PROVE  /\ \A x \in p..(p + d) : g + x - src \in (g + p - src)..(g + p - src + d)
         /\ \A y \in (g + p - src)..(g + p - src + d) :
              src + (y - g) \in p..(p + d) /\ g + (src + (y - g)) - src = y
         /\ \A i \in Int : p \in 1..(i - 1) /\ i <= p + d =>
              g + p - src < g + i - src /\ g + i - src < g + p - src + d + 1
  OBVIOUS

\* A 'when' from the subtree into it leads, in the copy, to the copy of the
\* target, if the reference is the same.
LEMMA TargetEchoes ==
  ASSUME NEW a, NEW c, Sound(a, c), NEW src \in 2..Len(a), NEW m, NEW e, NEW g,
         Echoes(e, g, a, src, m), NEW i \in Subtree(a, src) \ {src},
         e[g + i - src].wref = a[i].wref, WhenNode(a, i) \in Subtree(a, src)
  PROVE  WhenNode(e, g + i - src) = g + WhenNode(a, i) - src
<1> DEFINE n == Len(a)
           w == WhenNode(a, i)
           D == Desc(a)
           To(x) == g + x - src
           Of(x) == src + (x - g)
           ii == To(i)
           ww == To(w)
<1>0. Sound(a, c) /\ src \in 2..Len(a)
  OBVIOUS
<1>1. /\ a \in Seq(Ynode) /\ n \in Nat /\ Preorder(D, n)
      /\ \A j \in 1..n : a[j].desc \in Nat /\ D[j] = a[j].desc
      /\ \A j \in 1..n : j + a[j].desc <= n
  BY ONLY <1>0, SoundFact
<1>2. /\ e \in Seq(Ynode) /\ g \in Nat /\ 1 <= g /\ g + m - 1 <= Len(e) /\ Len(e) \in Nat
      /\ m = a[src].desc + 1
      /\ \A k \in 0..(m - 1) : /\ e[g + k].id = a[src + k].id
                               /\ e[g + k].desc = a[src + k].desc
  BY DEF Echoes
<1>3. src \in 1..n /\ src \in Int /\ 2 <= src /\ src <= n /\ a[src].desc \in Nat /\ m \in Nat /\ m >= 1
  <2>1. src \in 1..n /\ src \in Int /\ 2 <= src /\ src <= n
    BY ONLY <1>0, <1>1
  <2>2. a[src].desc \in Nat
    BY ONLY <2>1, <1>1
  <2> QED
    BY ONLY <2>1, <2>2, <1>2
<1>30. /\ g \in Int /\ 1 <= g /\ m \in Int /\ 1 <= m /\ src \in Int /\ 2 <= src
       /\ Len(e) \in Int /\ g + m - 1 <= Len(e)
  BY ONLY <1>2, <1>3
<1>4. Subtree(a, src) = src..(src + m - 1) /\ src + m - 1 <= n
  <2>1. src + a[src].desc <= n
    BY ONLY <1>1, <1>3
  <2>2. src + a[src].desc = src + m - 1
    BY ONLY <1>2, <1>3
  <2> QED
    BY ONLY <2>1, <2>2 DEF Subtree
<1>5. /\ i \in Int /\ src < i /\ i <= src + m - 1 /\ i \in 1..n
      /\ w \in Int /\ src <= w /\ w <= src + m - 1
  <2>1. i \in src..(src + m - 1) /\ i # src /\ w \in src..(src + m - 1)
    BY <1>4
  <2> HIDE DEF w
  <2> QED
    BY ONLY <2>1, <1>3, <1>4, <1>1
<1>6. \A x \in src..(src + m - 1) : e[To(x)].id = a[x].id /\ e[To(x)].desc = a[x].desc
  <2> SUFFICES ASSUME NEW x \in src..(src + m - 1)
               PROVE  e[To(x)].id = a[x].id /\ e[To(x)].desc = a[x].desc
    OBVIOUS
  <2>1. x - src \in 0..(m - 1) /\ g + (x - src) = To(x) /\ src + (x - src) = x
    BY ONLY <1>30, x \in src..(src + m - 1)
  <2>2. e[g + (x - src)].id = a[src + (x - src)].id /\ e[g + (x - src)].desc = a[src + (x - src)].desc
    BY ONLY <2>1, <1>2
  <2> QED
    BY ONLY <2>1, <2>2
<1>7. \A x \in src..(src + m - 1) : x \in 1..n /\ a[x].desc \in Nat /\ x + a[x].desc <= src + m - 1
  <2> SUFFICES ASSUME NEW x \in src..(src + m - 1)
               PROVE  x \in 1..n /\ a[x].desc \in Nat /\ x + a[x].desc <= src + m - 1
    OBVIOUS
  <2>1. x \in 1..n
    BY ONLY <1>3, <1>4, <1>1, x \in src..(src + m - 1)
  <2>2. a[x].desc \in Nat /\ D[x] = a[x].desc /\ D[src] = a[src].desc
    BY ONLY <2>1, <1>1, <1>3
  <2>3. src < x /\ x <= src + D[src] => x + D[x] <= src + D[src]
    BY ONLY <1>1, <1>3, <2>1, PreorderFacts
  <2> HIDE DEF D
  <2>4. src + D[src] = src + m - 1
    BY ONLY <2>2, <1>2, <1>3
  <2> QED
    BY ONLY <2>1, <2>2, <2>3, <2>4, <1>30, x \in src..(src + m - 1)
<1>8. PICK P : IsTarget(a, i, P, w)
  <2>1. w # Null
    BY ONLY <1>5, <1>3 DEF Null
  <2> QED
    BY ONLY <2>1, <1>1, <1>5, TargetIs
<1>9. /\ P \in Ancestors(a, i) /\ w \in Subtree(a, P) /\ a[w].id = a[i].wref
      /\ \A q \in Ancestors(a, i) : \A j \in Subtree(a, q) : a[j].id = a[i].wref => q <= P
      /\ \A j \in Subtree(a, P) : a[j].id = a[i].wref => w <= j
  BY ONLY <1>8 DEF IsTarget
<1> HIDE DEF w, D, n
<1>10. P \in Int /\ src <= P /\ P < i /\ P \in src..(src + m - 1) /\ i <= P + a[P].desc
  <2>1. src \in Ancestors(a, i)
    <3>1. src \in 1..(i - 1) /\ i < src + m
      BY ONLY <1>30, <1>5
    <3>2. Past(a, src) = src + m
      BY ONLY <1>2, <1>3 DEF Past
    <3> QED
      BY ONLY <3>1, <3>2 DEF Ancestors
  <2>2. w \in Subtree(a, src)
    BY ONLY <1>3, <1>4, <1>5
  <2>3. src <= P
    BY ONLY <2>1, <2>2, <1>9
  <2>4. P \in 1..(i - 1) /\ i < Past(a, P)
    BY ONLY <1>9 DEF Ancestors
  <2>5. P \in src..(src + m - 1)
    BY ONLY <2>3, <2>4, <1>5, <1>3
  <2>6. a[P].desc \in Nat
    BY ONLY <2>5, <1>7
  <2> QED
    BY ONLY <2>3, <2>4, <2>5, <2>6, <1>5, <1>3 DEF Past
<1>11. Subtree(a, P) = P..(P + a[P].desc) /\ a[P].desc \in Nat /\ P + a[P].desc <= src + m - 1
  BY ONLY <1>7, <1>10 DEF Subtree
<1> DEFINE dP == a[P].desc
<1>110. /\ P \in Int /\ src <= P /\ dP \in Int /\ 0 <= dP
        /\ P + dP <= src + m - 1
  BY ONLY <1>10, <1>11 DEF dP
<1>111. Subtree(a, P) = P..(P + dP) /\ i <= P + dP
  BY ONLY <1>10, <1>11, Zenon DEF dP
<1>112. \A x \in P..(P + dP) : x \in src..(src + m - 1)
  <2> HIDE DEF dP
  <2> QED
    BY ONLY <1>110, <1>30
<1>12. e[To(P)].desc = dP /\ e[To(P)].id = a[P].id /\ e[ww].id = a[w].id
  <2>1. w \in src..(src + m - 1)
    BY ONLY <1>3, <1>5
  <2> QED
    BY ONLY <2>1, <1>6, <1>10 DEF dP
<1> HIDE DEF dP
<1>13. e[ii].wref = a[i].wref
  OBVIOUS
<1>14. To(P) \in Ancestors(e, ii) /\ Subtree(e, To(P)) = To(P)..(To(P) + dP)
  <2>1. To(P) \in 1..(ii - 1) /\ ii < To(P) + dP + 1
    <3>1. /\ P \in 1..(i - 1) /\ i <= P + dP /\ src <= P /\ P \in Int
          /\ i \in Int /\ dP \in Int /\ g \in Int /\ src \in Int /\ 1 <= g
      BY ONLY <1>30, <1>5, <1>10, <1>110, <1>111
    <3>2. ii < To(P) + dP + 1
      BY ONLY <3>1
    <3>3. To(P) \in 1..(ii - 1)
      BY ONLY <3>1
    <3> HIDE DEF To, ii
    <3> QED
      BY ONLY <3>2, <3>3
  <2> QED
    BY ONLY <2>1, <1>12 DEF Ancestors, Past, Subtree
<1>15. ww \in Subtree(e, To(P))
  <2>1. w \in P..(P + dP)
    BY ONLY <1>9, <1>111
  <2>2. ww \in To(P)..(To(P) + dP)
    BY ONLY <2>1, <1>30, <1>110, Shifted
  <2> QED
    BY ONLY <2>2, <1>14
<1>16. ASSUME NEW j \in Subtree(e, To(P)), e[j].id = a[i].wref PROVE ww <= j
  <2>1. j \in To(P)..(To(P) + dP)
    BY ONLY <1>14, j \in Subtree(e, To(P))
  <2>2. Of(j) \in P..(P + dP) /\ Of(j) \in src..(src + m - 1) /\ To(Of(j)) = j
    <3>1. Of(j) \in P..(P + dP) /\ To(Of(j)) = j
      BY ONLY <2>1, <1>30, <1>110, Shifted
    <3>2. Of(j) \in src..(src + m - 1)
      BY ONLY <3>1, <1>112
    <3> QED
      BY ONLY <3>1, <3>2
  <2>3. a[Of(j)].id = a[i].wref
    BY ONLY <2>2, <1>6, <1>16
  <2>4. w <= Of(j)
    BY ONLY <2>2, <2>3, <1>9, <1>111
  <2> QED
    <3>1. j \in Int
      BY ONLY <2>1, <1>30, <1>110
    <3> QED
      BY ONLY <3>1, <2>4, <1>30, <1>5
<1>17. ASSUME NEW q \in Ancestors(e, ii), NEW j \in Subtree(e, q), e[j].id = a[i].wref
       PROVE  q <= To(P)
  <2>0. q \in 1..(ii - 1) /\ ii < q + e[q].desc + 1
    BY ONLY q \in Ancestors(e, ii) DEF Ancestors, Past
  <2>1. SUFFICES ASSUME q > To(P) PROVE FALSE
    BY ONLY <2>0, <2>1, <1>30, <1>10
  <2>2. Of(q) \in src..(src + m - 1) /\ To(Of(q)) = q /\ Of(q) \in 1..(i - 1) /\ Of(q) > P
    BY ONLY <2>0, <2>1, <1>30, <1>5, <1>10
  <2>3. /\ e[q].desc = a[Of(q)].desc /\ a[Of(q)].desc \in Nat
        /\ Of(q) + a[Of(q)].desc <= src + m - 1
    BY ONLY <2>2, <1>6, <1>7
  <2>4. Of(q) \in Ancestors(a, i)
    <3>1. i < Of(q) + a[Of(q)].desc + 1
      <4> DEFINE d == a[Of(q)].desc
      <4>1. d \in Int /\ g + i - src < q + d + 1 /\ q \in Int
        BY ONLY <2>0, <2>3
      <4> HIDE DEF d
      <4>2. i < src + (q - g) + d + 1
        BY ONLY <4>1, <1>30, <1>5
      <4> QED
        BY ONLY <4>2 DEF d
    <3> QED
      BY ONLY <2>2, <3>1 DEF Ancestors, Past
  <2>5. j \in q..(q + a[Of(q)].desc)
    BY ONLY <2>3, j \in Subtree(e, q) DEF Subtree
  <2>6. Of(j) \in Of(q)..(Of(q) + a[Of(q)].desc) /\ Of(j) \in src..(src + m - 1) /\ To(Of(j)) = j
    <3> DEFINE p == Of(q)
               d == a[p].desc
    <3>1. p \in Int /\ d \in Int /\ g + p - src = q /\ p >= src /\ p + d <= src + m - 1
      BY ONLY <2>2, <2>3, <1>30
    <3>2. j \in q..(q + d)
      BY ONLY <2>5
    <3> HIDE DEF d, p
    <3>3. j \in (g + p - src)..(g + p - src + d)
      BY ONLY <3>1, <3>2
    <3>4. src + (j - g) \in p..(p + d) /\ g + (src + (j - g)) - src = j
      BY ONLY <3>1, <3>3, <1>30, Shifted
    <3>5. src + (j - g) \in src..(src + m - 1)
      BY ONLY <3>1, <3>4, <1>30
    <3> QED
      BY ONLY <3>4, <3>5 DEF d, p
  <2>7. a[Of(j)].id = a[i].wref
    BY ONLY <2>6, <1>6, <1>17
  <2>8. Of(j) \in Subtree(a, Of(q))
    BY ONLY <2>6 DEF Subtree
  <2>9. Of(q) <= P
    BY ONLY <2>4, <2>7, <2>8, <1>9
  <2> QED
    BY ONLY <2>2, <2>9, <1>10
<1>18. IsTarget(e, ii, To(P), ww)
  <2>1. e[ww].id = e[ii].wref
    BY ONLY <1>9, <1>12, <1>13
  <2> HIDE DEF ii, ww, To
  <2> QED
    BY ONLY <2>1, <1>13, <1>14, <1>15, <1>16, <1>17 DEF IsTarget
<1>19. ii \in 1..Len(e)
  BY ONLY <1>30, <1>5
<1>20. WhenNode(e, ii) = ww
  <2> HIDE DEF ii, ww, To
  <2> QED
    BY ONLY <1>2, <1>18, <1>19, TargetIs
<1> QED
  BY <1>20 DEF w

\* The correction changes references alone.
LEMMA CorrectionKeeps ==
  ASSUME NEW b \in Seq(Ynode), NEW g, NEW orig, NEW k \in 1..Len(b)
  PROVE  /\ WhenRefCorrection(b, g, orig)[k].id = b[k].id
         /\ WhenRefCorrection(b, g, orig)[k].desc = b[k].desc
<1>1. b[k] \in Ynode
  OBVIOUS
<1>2. \E v : WhenRefCorrection(b, g, orig)[k] \in {b[k], [b[k] EXCEPT !.wref = v]}
  BY DEF WhenRefCorrection
<1>3. PICK v : WhenRefCorrection(b, g, orig)[k] \in {b[k], [b[k] EXCEPT !.wref = v]}
  BY <1>2
<1>4. [b[k] EXCEPT !.wref = v].id = b[k].id /\ [b[k] EXCEPT !.wref = v].desc = b[k].desc
  BY <1>1 DEF Ynode
<1> QED
  BY <1>3, <1>4

\* A copy to a gap outside of the copied subtree: the references follow.
LEMMA CopyFollows ==
  ASSUME NEW t, TreeOK(t), NEW src \in 2..Len(t.arr), NEW g \in Int, NEW T,
         Fits(Desc(t.arr), Len(t.arr), g, 0, T),
         T \cap (src..(src + Desc(t.arr)[src])) = {},
         g <= src \/ g >= src + Desc(t.arr)[src] + 1,
         TrueCopies(t.arr, src), NEW i \in Subtree(t.arr, src) \ {src},
         WhenNode(t.arr, i) \in Subtree(t.arr, src),
         "when_target" \in t.arr[WhenNode(t.arr, i)].flags
  PROVE  WhenNode(CopySubtree(t, g, src, T).arr, g + i - src) = g + WhenNode(t.arr, i) - src
<1> DEFINE a == t.arr
           c == t.idcnt
           n == Len(a)
           m == Size(a, src)
           b == InsertRange(Grow(a, T, m), g, Slice(a, src, m))
           orig == GetNode(b, src, a[src].id)
           e == WhenRefCorrection(b, g, orig)
           w == WhenNode(a, i)
<1>1. /\ Sound(a, c) /\ a \in Seq(Ynode) /\ n \in Nat /\ src \in 1..n
      /\ a[src].desc = Desc(a)[src] /\ Desc(a)[src] \in Nat
  <2>1. Sound(a, c) /\ a \in Seq(Ynode) /\ n \in Nat
    BY TreeFacts
  <2>2. src \in 1..n
    BY <2>1
  <2> QED
    BY <2>1, <2>2, TreeFacts
<1>2. m = a[src].desc + 1 /\ m \in Int /\ src \in 2..Len(a) /\ g \in Int
  BY <1>1 DEF Size
<1>3. CopySubtree(t, g, src, T).arr = e
  <2>1. t \in YnodeTree
    BY DEF TreeOK
  <2>2. CopySubtree(t, g, src, T)
          = [t EXCEPT !.arr = e, !.idcnt = t.idcnt + m, !.ok = t.ok /\ Len(t.arr) + m <= t.cap]
    BY <1>2, Zenon DEF CopySubtree
  <2> HIDE DEF e
  <2> QED
    BY ONLY <2>1, <2>2 DEF YnodeTree
<1>4. T \cap (src..(src + m - 1)) = {} /\ src \notin T /\ (g <= src \/ g >= src + m)
  <2>1. src + Desc(a)[src] = src + m - 1 /\ src + Desc(a)[src] + 1 = src + m
    <3> HIDE DEF a, m
    <3>1. Desc(a)[src] \in Nat /\ m = Desc(a)[src] + 1 /\ src \in Int
      BY ONLY <1>1, <1>2
    <3> QED
      BY ONLY <3>1
  <2>2. src \in src..(src + m - 1)
    BY ONLY <1>1, <1>2
  <2> QED
    BY <2>1, <2>2
<1>5. Copies(a, src, m, g, T, b)
  BY <1>4 DEF Copies
<1>6. TrueCopies(a, src)
  OBVIOUS
<1>7. /\ i \in Subtree(a, src) \ {src} /\ w \in Subtree(a, src)
      /\ "when_target" \in a[w].flags
  OBVIOUS
<1> HIDE DEF a, c, m, b, w
<1>70. /\ Sound(a, c) /\ src \in 2..Len(a) /\ m \in Int /\ g \in Int
       /\ Copies(a, src, m, g, T, b)
  BY ONLY <1>1, <1>2, <1>5
<1>8. /\ b \in Seq(Ynode) /\ Len(b) = n + m /\ m \in Nat /\ src + m <= n + 1
      /\ g \in 2..(n + 1)
      /\ \A j \in g..(g + m - 1) : b[j] = a[src + (j - g)]
  BY ONLY <1>70, CopyNodesAre
<1>9. orig \in Nat /\ \A k \in 0..(m - 1) : b[orig + k] = a[src + k]
  BY ONLY <1>1, <1>2, <1>4, <1>5, <1>6, OriginalFound
<1>10. orig \in 1..Len(b) /\ g \in 1..Len(b) /\ (orig >= g \/ g + b[orig].desc <= Len(b))
  BY ONLY <1>1, <1>2, <1>5, CopyOrig
<1>11. Sound(b, c)
  BY ONLY <1>1, <1>2, <1>5, CopySound
<1> HIDE DEF orig
<1>12. Sound(e, c) /\ Len(e) = Len(b)
  BY ONLY <1>10, <1>11, WhenRefSound
<1>13. e \in Seq(Ynode)
  BY ONLY <1>12 DEF Sound
<1>80. /\ n \in Int /\ m \in Int /\ 1 <= m /\ g \in Int /\ 2 <= g /\ g <= n + 1 /\ src \in Int /\ 2 <= src
       /\ Len(b) = n + m
  <2> HIDE DEF n
  <2>1. a[src].desc \in Nat /\ m = a[src].desc + 1 /\ n \in Nat
    BY ONLY <1>1, <1>2
  <2>2. src \in 2..n /\ g \in 2..(n + 1)
    BY ONLY <1>2, <1>8 DEF n
  <2>3. Len(b) = n + m
    BY ONLY <1>8
  <2> QED
    BY ONLY <2>1, <2>2, <2>3
<1>14. ASSUME NEW k \in 0..(m - 1)
       PROVE  b[g + k] = a[src + k] /\ e[g + k].id = a[src + k].id /\ e[g + k].desc = a[src + k].desc
  <2>1. g + k \in g..(g + m - 1) /\ src + ((g + k) - g) = src + k /\ g + k \in 1..Len(b)
    <3> HIDE DEF n
    <3> QED
      BY ONLY <1>80, k \in 0..(m - 1)
  <2>2. b[g + k] = a[src + ((g + k) - g)]
    BY ONLY <2>1, <1>8
  <2>3. e[g + k].id = b[g + k].id /\ e[g + k].desc = b[g + k].desc
    BY ONLY <2>1, <1>8, CorrectionKeeps
  <2> QED
    BY ONLY <2>1, <2>2, <2>3
<1>15. g \in Nat \ {0} /\ g \in Nat /\ 1 <= g /\ g + m - 1 <= Len(b) /\ src \in Nat
  BY ONLY <1>1, <1>2, <1>8
<1>16. Subtree(a, src) = src..(src + m - 1)
  <2>1. src + a[src].desc = src + m - 1
    BY ONLY <1>1, <1>2
  <2> QED
    BY ONLY <2>1 DEF Subtree
<1>17. i \in (src + 1)..(src + m - 1) /\ w \in src..(src + m - 1) /\ i \in 1..Len(a)
  BY ONLY <1>7, <1>8, <1>15, <1>16 DEF n
<1>18. a[w].id = a[i].wref
  <2>1. WhenNode(a, i) # Null
    BY ONLY <1>17, <1>1, <1>2 DEF w, Null
  <2>2. PICK P : IsTarget(a, i, P, WhenNode(a, i))
    BY ONLY <2>1, <1>1, <1>17, TargetIs
  <2> QED
    BY ONLY <2>2 DEF IsTarget, w
<1>19. e[g + i - src].wref = a[i].wref
  <2>1. CopyOf(b, g, orig, a, src, m)
    <3>1. /\ b \in Seq(Ynode) /\ src \in Nat /\ m \in Nat /\ g \in Nat /\ orig \in Nat
          /\ 1 <= g /\ g + m - 1 <= Len(b) /\ m = a[src].desc + 1 /\ a[src].desc \in Nat
      BY ONLY <1>1, <1>2, <1>8, <1>9, <1>15
    <3>2. \A k \in 0..(m - 1) : b[orig + k] = a[src + k] /\ b[g + k] = a[src + k]
      BY ONLY <1>9, <1>14
    <3> QED
      BY ONLY <3>1, <3>2 DEF CopyOf
  <2>2. Refers(a, src, m, i, w)
    BY ONLY <1>7, <1>17, <1>18 DEF Refers
  <2> HIDE DEF e
  <2>6. WhenRefCorrection(b, g, orig)[g + i - src].wref = a[i].wref
    BY ONLY <2>1, <2>2, ReferenceKept
  <2> QED
    BY ONLY <2>6 DEF e
<1> HIDE DEF e
<1>20. Echoes(e, g, a, src, m)
  BY ONLY <1>2, <1>12, <1>13, <1>14, <1>15 DEF Echoes
<1>21. WhenNode(e, g + i - src) = g + WhenNode(a, i) - src
  BY ONLY <1>1, <1>2, <1>7, <1>19, <1>20, TargetEchoes DEF w
<1> QED
  BY <1>3, <1>21 DEF a

\* The same for the two operations that copy (ay_ynode_copy_subtree_as_sibling,
\* ay_ynode_copy_subtree_as_last_child).
LEMMA OperationFollows ==
  ASSUME NEW t, TreeOK(t), NEW src \in 2..Len(t.arr),
         NEW x \in ((1..Len(t.arr)) \ Subtree(t.arr, src)) \cup {src},
         TrueCopies(t.arr, src), NEW i \in Subtree(t.arr, src) \ {src},
         WhenNode(t.arr, i) \in Subtree(t.arr, src),
         "when_target" \in t.arr[WhenNode(t.arr, i)].flags,
         NEW u, Len(u.arr) = Len(t.arr) + t.arr[src].desc + 1,
         \/ x # 1 /\ u = CopyAsSibling(t, x, src)
         \/ x # src /\ u = CopyAsLastChild(t, x, src)
  PROVE  WhenNode(u.arr, Past(t.arr, x) + i - src) = Past(t.arr, x) + WhenNode(t.arr, i) - src
<1> DEFINE a == t.arr
           D == Desc(a)
           n == Len(a)
           g == x + D[x] + 1
<1>1. /\ n \in Nat /\ Preorder(D, n) /\ src \in 2..n
      /\ \A j \in 1..n : a[j].desc = D[j] /\ D[j] \in Nat /\ Ancestors(a, j) = Anc(D, j)
  BY TreeFacts
<1>2. x \in 1..n /\ src \in 1..n
  BY <1>1
<1>3. /\ Past(a, x) = g /\ g \in Int /\ D[x] \in Nat /\ D[src] \in Nat
      /\ Ancestors(a, x) = Anc(D, x) /\ a[src].desc = D[src]
  BY ONLY <1>1, <1>2 DEF Past
<1>4. x = src \/ x \notin src..(src + D[src])
  BY <1>3 DEF Subtree
<1>5. /\ TreeOK(t) /\ TrueCopies(a, src) /\ i \in Subtree(a, src) \ {src}
      /\ WhenNode(a, i) \in Subtree(a, src)
      /\ "when_target" \in a[WhenNode(a, i)].flags
  OBVIOUS
<1>6. CASE x # 1 /\ u = CopyAsSibling(t, x, src)
  <2> DEFINE T == Anc(D, x)
  <2>1. x \in 2..n /\ x \notin (src + 1)..(src + D[src])
    BY ONLY <1>1, <1>2, <1>3, <1>4, <1>6
  <2>2. Fits(D, n, g, 0, T)
    BY ONLY <1>1, <2>1, FitsAround
  <2>3. T \cap (src..(src + D[src])) = {} /\ (g <= src \/ g >= src + D[src] + 1)
    BY ONLY <1>1, <2>1, OutsideBeside
  <2> HIDE DEF T
  <2>4. WhenNode(CopySubtree(t, g, src, T).arr, g + i - src) = g + WhenNode(a, i) - src
    <3>1. src \in 2..n /\ g \in Int
      BY ONLY <1>1, <1>3
    <3> HIDE DEF g
    <3> QED
      BY ONLY <3>1, <1>5, <2>2, <2>3, CopyFollows
  <2>5. u = CopySubtree(t, g, src, T)
    BY ONLY <1>3, <1>6 DEF CopyAsSibling, T
  <2> QED
    BY ONLY <1>3, <2>4, <2>5
<1>7. CASE x # src /\ u = CopyAsLastChild(t, x, src)
  <2> DEFINE T == Anc(D, x) \cup {x}
  <2>1. x \notin src..(src + D[src])
    BY ONLY <1>4, <1>7
  <2>2. Fits(D, n, g, 0, T)
    BY ONLY <1>1, <1>2, FitsInside
  <2>3. T \cap (src..(src + D[src])) = {}
    BY ONLY <1>1, <1>2, <2>1, OutsideInside
  <2>4. g <= src \/ g >= src + D[src] + 1
    <3>1. x < src /\ src <= x + D[x] => src + D[src] <= x + D[x]
      BY ONLY <1>1, <1>2, PreorderFacts
    <3> HIDE DEF D
    <3> QED
      BY ONLY <3>1, <2>1, <1>2, <1>3, <1>1
  <2> HIDE DEF T
  <2>5. WhenNode(CopySubtree(t, g, src, T).arr, g + i - src) = g + WhenNode(a, i) - src
    <3>1. src \in 2..n /\ g \in Int
      BY ONLY <1>1, <1>3
    <3> HIDE DEF g
    <3> QED
      BY ONLY <3>1, <1>5, <2>2, <2>3, <2>4, CopyFollows
  <2>6. u # t
    <3>1. Len(u.arr) = n + D[src] + 1
      BY <1>3
    <3>2. n + D[src] + 1 # n
      BY ONLY <1>1, <1>3
    <3> QED
      BY ONLY <3>1, <3>2
  <2>7. u = CopySubtree(t, g, src, T)
    BY ONLY <1>3, <1>7, <2>6 DEF CopyAsLastChild, T
  <2> QED
    BY ONLY <1>3, <2>5, <2>7
<1> QED
  BY <1>6, <1>7

\* For trees of any size and any sequence of edits before: a 'when' inside of a
\* copied subtree refers to the copy of its target, if the target is flagged and
\* the nodes with the identifier of the original are true copies of it.
THEOREM WhenFollows == Spec => InnerWhenFollows
<1> DEFINE A == \A src \in Nodes, at \in 2..(Len(tree.arr) + 1) :
       CopyStep(at, src) /\ TrueCopies(tree.arr, src) =>
         \A i \in Subtree(tree.arr, src) \ {src} :
           LET w == WhenNode(tree.arr, i)
           IN  /\ tree.arr[i].wref # 0 /\ w \in Subtree(tree.arr, src)
               /\ "when_target" \in tree.arr[w].flags
               => WhenNode(tree'.arr, at + i - src) = at + w - src
<1>1. TypeOK => A
  <2> SUFFICES ASSUME TypeOK, NEW src \in Nodes, NEW at \in 2..(Len(tree.arr) + 1),
                      CopyStep(at, src), TrueCopies(tree.arr, src),
                      NEW i \in Subtree(tree.arr, src) \ {src},
                      WhenNode(tree.arr, i) \in Subtree(tree.arr, src),
                      "when_target" \in tree.arr[WhenNode(tree.arr, i)].flags
               PROVE  WhenNode(tree'.arr, at + i - src) = at + WhenNode(tree.arr, i) - src
    OBVIOUS
  <2>1. TreeOK(tree) /\ src \in 2..Len(tree.arr)
    BY DEF TypeOK, Nodes
  <2>2. Len(tree'.arr) = Len(tree.arr) + tree.arr[src].desc + 1
    BY DEF CopyStep
  <2>3. PICK x \in ((1..Len(tree.arr)) \ Subtree(tree.arr, src)) \cup {src} :
          /\ at = Past(tree.arr, x)
          /\ \/ x # 1 /\ tree' = CopyAsSibling(tree, x, src)
             \/ x # src /\ tree' = CopyAsLastChild(tree, x, src)
    BY DEF CopyStep
  <2>4. WhenNode(tree'.arr, Past(tree.arr, x) + i - src)
          = Past(tree.arr, x) + WhenNode(tree.arr, i) - src
    BY <2>1, <2>2, <2>3, OperationFollows
  <2> QED
    BY <2>3, <2>4
<1>2. InnerWhenFollows <=> [][A]_vars
  BY DEF InnerWhenFollows
<1> HIDE DEF A
<1> QED
  BY <1>1, <1>2, TreeTypeCorrect, PTL
=============================================================================
