----------------------------- MODULE AyPreorder -----------------------------
(***************************************************************************)
(* Preorders as profiles. The array of YANG nodes (AyYnode) holds a tree   *)
(* as its preorder, and the only thing a node knows of its place is the    *)
(* number of nodes below it. These lemmas are about that function alone:   *)
(* what inserting, cutting out and moving nodes does to it when the nodes  *)
(* above are counted up or down.                                           *)
(***************************************************************************)
EXTENDS Integers, TLAPS

\* D is the profile of a preorder of n nodes: D[i] is the number of nodes
\* below node i, and the nodes below a node have theirs inside of its own.
Preorder(D, n) ==
  /\ n \in Nat \ {0} /\ D \in [1..n -> Nat]
  /\ D[1] = n - 1
  /\ \A i, j \in 1..n : i < j /\ j <= i + D[i] => j + D[j] <= i + D[i]

\* S are the nodes above what is at the indices i..(e-1): they reach over it,
\* all other nodes in front of i end in front of i, and S is closed under
\* taking the nodes above.
Above(D, S, i, e) ==
  /\ S \in SUBSET (1..(i - 1)) /\ 1 \in S
  /\ \A j \in S : e <= j + D[j] + 1
  /\ \A j \in 1..(i - 1) : j \notin S => j + D[j] < i
  /\ \A j \in S, k \in 1..(i - 1) : k < j /\ j <= k + D[k] => k \in S

\* A node can be put at index i over the d nodes that are there now: S are
\* the nodes above, and none of the d nodes reaches beyond them.
Fits(D, n, i, d, S) ==
  /\ i \in 2..(n + 1) /\ d \in 0..(n + 1 - i)
  /\ Above(D, S, i, i + d)
  /\ \A j \in i..(i + d - 1) : j + D[j] < i + d

\* E is D after that insertion: S gain one, the rest is moved on by one.
Wraps(E, D, n, i, d, S) ==
  /\ Fits(D, n, i, d, S)
  /\ E \in [1..(n + 1) -> Nat]
  /\ \A j \in 1..(i - 1) : E[j] = IF j \in S THEN D[j] + 1 ELSE D[j]
  /\ E[i] = d
  /\ \A j \in (i + 1)..(n + 1) : E[j] = D[j - 1]

\* One node inserted over whole subtrees, its ancestors counted up, leaves a
\* preorder (ay_ynode_insert_gap with the counts the insert operations set).
LEMMA PreorderWrap ==
  ASSUME NEW n \in Nat, NEW D, Preorder(D, n), NEW i \in Int, NEW d \in Int, NEW S, NEW E,
         Wraps(E, D, n, i, d, S)
  PROVE  Preorder(E, n + 1)
<1>0. i \in 2..(n + 1) /\ d \in 0..(n + 1 - i)
  BY DEF Wraps, Fits
<1>1. E[1] = n
  BY <1>0 DEF Preorder, Above, Wraps, Fits
<1>2. ASSUME NEW x \in 1..(n + 1), NEW y \in 1..(n + 1), x < y, y <= x + E[x]
      PROVE  y + E[y] <= x + E[x]
  <2>1. CASE y < i
    <3>1. x \in 1..n /\ y \in 1..n /\ x \in 1..(i - 1) /\ y \in 1..(i - 1)
      BY <1>0, <1>2, <2>1 DEF Wraps, Fits
    <3>2. y <= x + D[x] => y + D[y] <= x + D[x]
      BY <1>0, <1>2, <3>1 DEF Preorder, Wraps, Fits
    <3>3. y \in S /\ y <= x + D[x] => x \in S
      BY <1>0, <1>2, <3>1 DEF Above, Wraps, Fits
    <3>4. /\ x \in S => i + d <= x + D[x] + 1
          /\ D[x] \in Nat /\ D[y] \in Nat
      BY <1>0, <3>1 DEF Above, Preorder, Wraps, Fits
    <3>5. /\ E[x] = IF x \in S THEN D[x] + 1 ELSE D[x]
          /\ E[y] = IF y \in S THEN D[y] + 1 ELSE D[y]
      BY <1>0, <3>1 DEF Wraps, Fits
    <3> QED
      BY <1>0, <1>2, <2>1, <3>2, <3>3, <3>4, <3>5
  <2>2. CASE x < i /\ y = i
    <3>1. /\ x \in 1..n /\ x \in 1..(i - 1)
          /\ D[x] \in Nat
      BY <1>0, <1>2, <2>2 DEF Preorder, Wraps, Fits
    <3>2. /\ x \in S => i + d <= x + D[x] + 1
          /\ x \notin S => x + D[x] < i
      BY <1>0, <3>1 DEF Above, Wraps, Fits
    <3>3. E[x] = IF x \in S THEN D[x] + 1 ELSE D[x]
      BY <1>0, <3>1 DEF Wraps, Fits
    <3> QED
      BY <1>0, <1>2, <2>2, <3>1, <3>2, <3>3 DEF Wraps, Fits
  <2>3. CASE x < i /\ y > i
    <3>0. x \in 1..n /\ x \in 1..(i - 1) /\ y - 1 \in 1..n
      BY <1>0, <1>2, <2>3
    <3>1. D[x] \in Nat /\ D[y - 1] \in Nat
      BY <3>0 DEF Preorder
    <3>2. x \notin S => x + D[x] < i
      BY <1>0, <3>0, <3>1 DEF Above, Wraps, Fits
    <3>3. E[x] = IF x \in S THEN D[x] + 1 ELSE D[x]
      BY <1>0, <3>0, <3>1 DEF Wraps, Fits
    <3>4. E[y] = D[y - 1]
      BY <1>0, <1>2, <2>3 DEF Wraps, Fits
    <3>5. x < y - 1 /\ y - 1 <= x + D[x] => y - 1 + D[y - 1] <= x + D[x]
      BY <1>0, <3>0, <3>1 DEF Preorder, Wraps, Fits
    <3> QED
      BY <1>0, <1>2, <2>3, <3>0, <3>1, <3>2, <3>3, <3>4, <3>5
  <2>4. CASE x = i
    <3>1. y - 1 \in i..(i + d - 1) /\ y - 1 \in 1..n
      BY <1>0, <1>2, <2>4 DEF Wraps, Fits
    <3>2. E[y] = D[y - 1] /\ D[y - 1] \in Nat
      BY <1>0, <1>2, <2>4, <3>1 DEF Preorder, Wraps, Fits
    <3>3. y - 1 + D[y - 1] < i + d
      BY <1>0, <3>1 DEF Wraps, Fits
    <3> QED
      BY <1>0, <2>4, <3>2, <3>3 DEF Wraps, Fits
  <2>5. CASE x > i
    <3>1. /\ x - 1 \in 1..n /\ y - 1 \in 1..n
          /\ D[x - 1] \in Nat /\ D[y - 1] \in Nat
          /\ E[x] = D[x - 1] /\ E[y] = D[y - 1]
      BY <1>0, <1>2, <2>5 DEF Preorder, Wraps, Fits
    <3>2. x - 1 < y - 1 /\ y - 1 <= x - 1 + D[x - 1]
           => y - 1 + D[y - 1] <= x - 1 + D[x - 1]
      BY <1>0, <3>1 DEF Preorder, Wraps, Fits
    <3> QED
      BY <1>0, <1>2, <3>1, <3>2
  <2> QED
    BY <1>0, <2>1, <2>2, <2>3, <2>4, <2>5
<1> QED
  BY <1>0, <1>1, <1>2 DEF Preorder, Wraps, Fits

\* E is D with a block of m nodes, a sequence of whole subtrees, put into a
\* gap at i below the nodes S.
AddsBlock(E, D, n, i, m, S) ==
  /\ i \in 2..(n + 1)
  /\ Above(D, S, i, i)
  /\ E \in [1..(n + m) -> Nat]
  /\ \A j \in 1..(i - 1) : E[j] = IF j \in S THEN D[j] + m ELSE D[j]
  /\ \A j \in i..(i + m - 1) : j + E[j] < i + m
  /\ \A j, k \in i..(i + m - 1) : j < k /\ k <= j + E[j] => k + E[k] <= j + E[j]
  /\ \A j \in (i + m)..(n + m) : E[j] = D[j - m]

\* A block of whole subtrees put into a gap below S leaves a preorder when S
\* are counted up by its length (the copy operations).
LEMMA PreorderBlock ==
  ASSUME NEW n \in Nat, NEW D, Preorder(D, n), NEW i \in Int, NEW m \in Nat, NEW S, NEW E,
         AddsBlock(E, D, n, i, m, S)
  PROVE  Preorder(E, n + m)
<1>0. i \in 2..(n + 1)
  BY DEF AddsBlock
<1>1. E[1] = n + m - 1
  BY <1>0 DEF Preorder, Above, AddsBlock
<1>2. ASSUME NEW x \in 1..(n + m), NEW y \in 1..(n + m), x < y, y <= x + E[x]
      PROVE  y + E[y] <= x + E[x]
  <2>1. CASE y < i
    <3>1. x \in 1..n /\ y \in 1..n /\ x \in 1..(i - 1) /\ y \in 1..(i - 1)
      BY <1>0, <1>2, <2>1 DEF AddsBlock
    <3>2. y <= x + D[x] => y + D[y] <= x + D[x]
      BY <1>0, <1>2, <3>1 DEF Preorder, AddsBlock
    <3>3. y \in S /\ y <= x + D[x] => x \in S
      BY <1>0, <1>2, <3>1 DEF Above, AddsBlock
    <3>4. /\ x \in S => i <= x + D[x] + 1
          /\ D[x] \in Nat /\ D[y] \in Nat
      BY <1>0, <3>1 DEF Above, Preorder, AddsBlock
    <3>5. /\ E[x] = IF x \in S THEN D[x] + m ELSE D[x]
          /\ E[y] = IF y \in S THEN D[y] + m ELSE D[y]
      BY <1>0, <3>1 DEF AddsBlock
    <3> QED
      BY <1>0, <1>2, <2>1, <3>2, <3>3, <3>4, <3>5
  <2>2. CASE x < i /\ y \in i..(i + m - 1)
    <3>1. /\ x \in 1..n /\ x \in 1..(i - 1)
          /\ D[x] \in Nat /\ E[y] \in Nat
      BY <1>0, <1>2, <2>2 DEF Preorder, AddsBlock
    <3>2. /\ x \in S => i <= x + D[x] + 1
          /\ x \notin S => x + D[x] < i
      BY <1>0, <3>1 DEF Above, AddsBlock
    <3>3. E[x] = IF x \in S THEN D[x] + m ELSE D[x]
      BY <1>0, <3>1 DEF AddsBlock
    <3>4. y + E[y] < i + m
      BY <1>0, <2>2 DEF AddsBlock
    <3> QED
      BY <1>0, <1>2, <2>2, <3>1, <3>2, <3>3, <3>4
  <2>3. CASE x < i /\ y >= i + m
    <3>1. /\ x \in 1..n /\ x \in 1..(i - 1) /\ y - m \in 1..n
          /\ D[x] \in Nat /\ D[y - m] \in Nat
      BY <1>0, <1>2, <2>3, SMTT(30) DEF Preorder, AddsBlock
    <3>2. x \notin S => x + D[x] < i
      BY <1>0, <3>1 DEF Above, AddsBlock
    <3>3. E[x] = IF x \in S THEN D[x] + m ELSE D[x]
      BY <1>0, <3>1 DEF AddsBlock
    <3>4. E[y] = D[y - m]
      BY <1>0, <1>2, <2>3 DEF AddsBlock
    <3>5. x < y - m /\ y - m <= x + D[x] => y - m + D[y - m] <= x + D[x]
      BY <1>0, <3>1 DEF Preorder, AddsBlock
    <3> QED
      BY <1>0, <1>2, <2>3, <3>1, <3>2, <3>3, <3>4, <3>5
  <2>4. CASE x \in i..(i + m - 1)
    <3>1. x + E[x] < i + m /\ E[x] \in Nat
      BY <1>0, <2>4 DEF AddsBlock
    <3>2. y \in i..(i + m - 1)
      BY <1>0, <1>2, <2>4, <3>1 DEF AddsBlock
    <3> QED
      BY <1>0, <1>2, <2>4, <3>2 DEF AddsBlock
  <2>5. CASE x >= i + m
    <3>1. /\ x - m \in 1..n /\ y - m \in 1..n
          /\ D[x - m] \in Nat /\ D[y - m] \in Nat
          /\ E[x] = D[x - m] /\ E[y] = D[y - m]
      BY <1>0, <1>2, <2>5 DEF Preorder, AddsBlock
    <3>2. x - m < y - m /\ y - m <= x - m + D[x - m]
           => y - m + D[y - m] <= x - m + D[x - m]
      BY <1>0, <3>1 DEF Preorder, AddsBlock
    <3> QED
      BY <1>0, <1>2, <3>1, <3>2
  <2> QED
    BY <1>0, <2>1, <2>2, <2>3, <2>4, <2>5
<1> QED
  BY <1>0, <1>1, <1>2 DEF Preorder, AddsBlock

\* The m nodes from i on are below S and below no node in front of i that is
\* not in S.
Covers(D, n, i, m, S) ==
  /\ i \in 2..n /\ m \in 1..(n - i + 1)
  /\ S \in SUBSET (1..(i - 1))
  /\ \A j \in S : i + m <= j + D[j] + 1
  /\ \A j \in 1..(i - 1) : j \notin S => j + D[j] < i

\* E is D without those nodes, S counted down by m.
Cuts(E, D, n, i, m, S) ==
  /\ Covers(D, n, i, m, S)
  /\ E \in [1..(n - m) -> Nat]
  /\ \A j \in 1..(i - 1) : E[j] = IF j \in S THEN D[j] - m ELSE D[j]
  /\ \A j \in i..(n - m) : E[j] = D[j + m]

\* Nodes cut out, the nodes above them counted down, leave a preorder
\* (ay_ynode_delete_gap and ay_ynode_delete_gap_range).
LEMMA PreorderCut ==
  ASSUME NEW n \in Nat, NEW D, Preorder(D, n), NEW i \in Int, NEW m \in Int, NEW S, NEW E,
         Cuts(E, D, n, i, m, S)
  PROVE  Preorder(E, n - m)
<1>0. i \in 2..n /\ m \in 1..(n - i + 1)
  BY DEF Cuts, Covers
<1>1. E[1] = n - m - 1
  <2>1. 1 \in 1..(i - 1) /\ D[1] = n - 1
    BY <1>0 DEF Preorder, Cuts, Covers
  <2>2. 1 \in S
    BY <1>0, <2>1 DEF Cuts, Covers
  <2> QED
    BY <1>0, <2>1, <2>2 DEF Cuts, Covers
<1>2. ASSUME NEW x \in 1..(n - m), NEW y \in 1..(n - m), x < y, y <= x + E[x]
      PROVE  y + E[y] <= x + E[x]
  <2>1. CASE y < i
    <3>1. x \in 1..n /\ y \in 1..n /\ x \in 1..(i - 1) /\ y \in 1..(i - 1)
      BY <1>0, <1>2, <2>1 DEF Cuts, Covers
    <3>2. y <= x + D[x] => y + D[y] <= x + D[x]
      BY <1>0, <1>2, <3>1 DEF Preorder, Cuts, Covers
    <3>3. /\ x \notin S => x + D[x] < i
          /\ x \in S => i + m <= x + D[x] + 1
          /\ y \notin S => y + D[y] < i
          /\ y \in S => i + m <= y + D[y] + 1
      BY <1>0, <3>1 DEF Cuts, Covers
    <3>4. D[x] \in Nat /\ D[y] \in Nat
      BY <1>0, <3>1 DEF Preorder, Cuts, Covers
    <3>5. /\ E[x] = IF x \in S THEN D[x] - m ELSE D[x]
          /\ E[y] = IF y \in S THEN D[y] - m ELSE D[y]
      BY <1>0, <3>1 DEF Cuts, Covers
    <3> QED
      BY <1>0, <1>2, <2>1, <3>2, <3>3, <3>4, <3>5
  <2>2. CASE x < i /\ y >= i
    <3>1. /\ x \in 1..n /\ x \in 1..(i - 1) /\ y + m \in 1..n
          /\ D[x] \in Nat /\ D[y + m] \in Nat
      BY <1>0, <1>2, <2>2 DEF Preorder, Cuts, Covers
    <3>2. x \notin S => x + D[x] < i
      BY <1>0, <3>1 DEF Cuts, Covers
    <3>3. E[x] = IF x \in S THEN D[x] - m ELSE D[x]
      BY <1>0, <3>1 DEF Cuts, Covers
    <3>4. E[y] = D[y + m]
      BY <1>0, <1>2, <2>2 DEF Cuts, Covers
    <3>5. x < y + m /\ y + m <= x + D[x] => y + m + D[y + m] <= x + D[x]
      BY <1>0, <3>1 DEF Preorder, Cuts, Covers
    <3> QED
      BY <1>0, <1>2, <2>2, <3>1, <3>2, <3>3, <3>4, <3>5
  <2>3. CASE x >= i
    <3>1. /\ x + m \in 1..n /\ y + m \in 1..n
          /\ D[x + m] \in Nat /\ D[y + m] \in Nat
          /\ E[x] = D[x + m] /\ E[y] = D[y + m]
      BY <1>0, <1>2, <2>3 DEF Preorder, Cuts, Covers
    <3>2. x + m < y + m /\ y + m <= x + m + D[x + m]
           => y + m + D[y + m] <= x + m + D[x + m]
      BY <1>0, <3>1 DEF Preorder, Cuts, Covers
    <3> QED
      BY <1>0, <1>2, <3>1, <3>2
  <2> QED
    BY <1>0, <2>1, <2>2, <2>3
<1>3. n - m \in Nat \ {0}
  BY <1>0
<1> QED
  BY <1>0, <1>1, <1>2, <1>3 DEF Preorder, Cuts, Covers

\* The nodes above x, by the profile alone.
Anc(D, x) == {j \in 1..(x - 1) : x <= j + D[j]}

\* What a preorder says of one node: its subtree is inside of the array, of
\* every subtree it lies in, and holds every subtree that begins in it.
LEMMA PreorderFacts ==
  ASSUME NEW n \in Nat, NEW D, Preorder(D, n), NEW x \in 1..n
  PROVE  /\ D[x] \in Nat /\ x + D[x] <= n
         /\ \A j \in 1..n : j < x /\ x <= j + D[j] => x + D[x] <= j + D[j]
         /\ \A j \in 1..n : x < j /\ j <= x + D[x] => j + D[j] <= x + D[x]
         /\ \A j \in 1..n : D[j] \in Nat
         /\ x > 1 => 1 \in Anc(D, x)
<1>1. D[x] \in Nat /\ D[1] = n - 1 /\ 1 \in 1..n
  BY DEF Preorder
<1>2. x + D[x] <= n
  BY <1>1 DEF Preorder
<1>3. x > 1 => 1 \in Anc(D, x)
  BY <1>1 DEF Anc
<1> QED
  BY <1>1, <1>2, <1>3 DEF Preorder

\* The ancestors of x and x are what is above a gap in front of the first
\* child of x or behind its last (ay_ynode_insert_child).
LEMMA AboveInside ==
  ASSUME NEW n \in Nat, NEW D, Preorder(D, n), NEW x \in 1..n,
         NEW i \in {x + 1, x + D[x] + 1}
  PROVE  /\ i \in 2..(n + 1)
         /\ Above(D, Anc(D, x) \cup {x}, i, x + D[x] + 1)
         /\ Above(D, Anc(D, x) \cup {x}, i, i)
<1> DEFINE S == Anc(D, x) \cup {x}
<1>0. /\ D[x] \in Nat /\ x + D[x] <= n
      /\ x > 1 => 1 \in Anc(D, x)
      /\ \A j \in 1..n : D[j] \in Nat
      /\ \A j \in 1..n : j < x /\ x <= j + D[j] => x + D[x] <= j + D[j]
      /\ \A j \in 1..n : x < j /\ j <= x + D[x] => j + D[j] <= x + D[x]
  BY PreorderFacts
<1>1. i \in 2..(n + 1) /\ i > x /\ i <= x + D[x] + 1
  BY <1>0
<1>2. S \in SUBSET (1..(i - 1)) /\ 1 \in S
  BY <1>0, <1>1 DEF Anc
<1>3. \A j \in S : x + D[x] + 1 <= j + D[j] + 1
  BY <1>0, <1>1 DEF Anc
<1>4. ASSUME NEW j \in 1..(i - 1), j \notin S PROVE j + D[j] < i
  <2>0. j \in 1..n /\ D[j] \in Nat
    BY <1>0, <1>1
  <2>1. CASE j < x
    BY <1>4, <2>0, <2>1, <1>1 DEF Anc
  <2>2. CASE j > x
    <3>1. i = x + D[x] + 1
      BY <1>4, <2>2, <1>0
    <3>2. j <= x + D[x]
      BY <3>1, <2>0, <1>0
    <3>3. j + D[j] <= x + D[x]
      BY <3>2, <2>0, <2>2, <1>0
    <3> QED
      BY <3>1, <3>3, <2>0, <1>0
  <2> QED
    BY <2>1, <2>2, <2>0, <1>4
<1>5. ASSUME NEW j \in S, NEW k \in 1..(i - 1), k < j, j <= k + D[k] PROVE k \in S
  <2>1. j \in 1..n /\ j <= x /\ k \in 1..n /\ k < x /\ D[k] \in Nat /\ D[j] \in Nat
    BY <1>5, <1>0, <1>1 DEF Anc
  <2>2. j + D[j] <= k + D[k]
    BY <1>5, <2>1 DEF Preorder
  <2>3. x <= j + D[j]
    BY <2>1, <1>5 DEF Anc
  <2>4. x <= k + D[k]
    BY <2>1, <2>2, <2>3
  <2> QED
    BY <2>1, <2>4 DEF Anc
<1>6. \A j \in S : D[j] \in Nat /\ j \in Nat
  BY <1>0, <1>1 DEF Anc
<1>7. \A j \in S : i <= j + D[j] + 1
  BY <1>3, <1>1, <1>0, <1>6
<1> HIDE DEF S
<1>8. Above(D, S, i, x + D[x] + 1)
  BY <1>2, <1>3, <1>4, <1>5 DEF Above
<1>9. Above(D, S, i, i)
  BY <1>2, <1>7, <1>4, <1>5 DEF Above
<1> QED
  BY <1>1, <1>8, <1>9 DEF S

\* The ancestors of x are what is above a gap in front of x or behind its
\* subtree (ay_ynode_insert_wrapper, ay_ynode_insert_sibling).
LEMMA AboveBeside ==
  ASSUME NEW n \in Nat, NEW D, Preorder(D, n), NEW x \in 2..n,
         NEW i \in {x, x + D[x] + 1}
  PROVE  /\ i \in 2..(n + 1)
         /\ Above(D, Anc(D, x), i, x + D[x] + 1)
         /\ Above(D, Anc(D, x), i, i)
<1> DEFINE S == Anc(D, x)
<1>0. /\ D[x] \in Nat /\ x + D[x] <= n /\ 1 \in Anc(D, x)
      /\ \A j \in 1..n : D[j] \in Nat
      /\ \A j \in 1..n : j < x /\ x <= j + D[j] => x + D[x] <= j + D[j]
      /\ \A j \in 1..n : x < j /\ j <= x + D[x] => j + D[j] <= x + D[x]
  BY PreorderFacts
<1>1. i \in 2..(n + 1) /\ i >= x /\ i <= x + D[x] + 1
  BY <1>0
<1>2. S \in SUBSET (1..(i - 1)) /\ 1 \in S
  BY <1>0, <1>1 DEF Anc
<1>3. \A j \in S : x + D[x] + 1 <= j + D[j] + 1
  BY <1>0, <1>1 DEF Anc
<1>4. ASSUME NEW j \in 1..(i - 1), j \notin S PROVE j + D[j] < i
  <2>0. j \in 1..n /\ D[j] \in Nat
    BY <1>0, <1>1
  <2>1. CASE j < x
    BY <1>4, <2>0, <2>1, <1>1 DEF Anc
  <2>2. CASE j >= x
    <3>1. i = x + D[x] + 1
      BY <1>4, <2>2, <1>0
    <3>2. j <= x + D[x]
      BY <3>1, <2>0, <1>0
    <3>3. j + D[j] <= x + D[x]
      BY <3>2, <2>0, <2>2, <1>0
    <3> QED
      BY <3>1, <3>3, <2>0, <1>0
  <2> QED
    BY <2>1, <2>2, <2>0, <1>4
<1>5. ASSUME NEW j \in S, NEW k \in 1..(i - 1), k < j, j <= k + D[k] PROVE k \in S
  <2>1. j \in 1..n /\ j < x /\ k \in 1..n /\ k < x /\ D[k] \in Nat /\ D[j] \in Nat
    BY <1>5, <1>0, <1>1 DEF Anc
  <2>2. j + D[j] <= k + D[k]
    BY <1>5, <2>1 DEF Preorder
  <2>3. x <= j + D[j]
    BY <2>1, <1>5 DEF Anc
  <2>4. x <= k + D[k]
    BY <2>1, <2>2, <2>3
  <2> QED
    BY <2>1, <2>4 DEF Anc
<1>6. \A j \in S : D[j] \in Nat /\ j \in Nat
  BY <1>0, <1>1 DEF Anc
<1>7. \A j \in S : i <= j + D[j] + 1
  BY <1>3, <1>1, <1>0, <1>6
<1> HIDE DEF S
<1>8. Above(D, S, i, x + D[x] + 1)
  BY <1>2, <1>3, <1>4, <1>5 DEF Above
<1>9. Above(D, S, i, i)
  BY <1>2, <1>7, <1>4, <1>5 DEF Above
<1> QED
  BY <1>1, <1>8, <1>9 DEF S

\* The index that node k had before m nodes were cut out at i.
Origin(k, i, m) == IF k < i THEN k ELSE k + m

\* A gap outside of the nodes that are cut out stays a gap below the same
\* nodes: the destination of a move is still right after the source has been
\* taken out (ay_ynode_move_subtree).
LEMMA AboveAfterCut ==
  ASSUME NEW n \in Nat, NEW D, Preorder(D, n), NEW i \in Int, NEW m \in Int, NEW S, NEW C,
         Cuts(C, D, n, i, m, S),
         NEW g \in 2..(n + 1), NEW T, Above(D, T, g, g),
         g <= i \/ g >= i + m,
         NEW h \in Int, h = IF g <= i THEN g ELSE g - m
  PROVE  /\ h \in 2..(n - m + 1)
         /\ Above(C, {k \in 1..(h - 1) : Origin(k, i, m) \in T}, h, h)
<1> DEFINE U == {k \in 1..(h - 1) : Origin(k, i, m) \in T}
<1>0. i \in 2..n /\ m \in 1..(n - i + 1)
  BY DEF Cuts, Covers
<1>1. h \in 2..(n - m + 1)
  BY <1>0
<1>2. U \in SUBSET (1..(h - 1)) /\ 1 \in U
  BY <1>0, <1>1 DEF Above, Origin
<1>3. ASSUME NEW k \in 1..(h - 1)
      PROVE  /\ Origin(k, i, m) \in 1..(g - 1) /\ Origin(k, i, m) \in 1..n
             /\ D[Origin(k, i, m)] \in Nat
             /\ k \in 1..(n - m)
  BY <1>0, <1>1 DEF Origin, Preorder
<1>4. ASSUME NEW k \in 1..(h - 1)
      PROVE  \/ /\ k + C[k] = Origin(k, i, m) + D[Origin(k, i, m)] - m
                /\ k < i => i <= k + C[k] + 1
             \/ /\ k < i /\ k + C[k] = k + D[k] /\ k + D[k] < i
                /\ Origin(k, i, m) = k
  <2>0. /\ Origin(k, i, m) \in 1..(g - 1) /\ Origin(k, i, m) \in 1..n
        /\ D[Origin(k, i, m)] \in Nat
        /\ k \in 1..(n - m)
    BY <1>3
  <2>1. CASE k < i
    <3>1. k \in 1..(i - 1) /\ Origin(k, i, m) = k /\ D[k] \in Nat
      BY <2>1, <1>0, <2>0 DEF Origin
    <3>2. /\ C[k] = IF k \in S THEN D[k] - m ELSE D[k]
          /\ k \in S => i + m <= k + D[k] + 1
          /\ k \notin S => k + D[k] < i
      BY <3>1 DEF Cuts, Covers
    <3> QED
      BY <3>1, <3>2, <2>1, <1>0
  <2>2. CASE k >= i
    <3>1. Origin(k, i, m) = k + m
      BY <2>2, <1>0 DEF Origin
    <3>2. C[k] = D[k + m]
      BY <2>0, <2>2, <1>0 DEF Cuts, Covers
    <3> QED
      BY <3>1, <3>2, <2>0, <2>2, <1>0
  <2> QED
    BY <2>1, <2>2, <1>0
<1>5. ASSUME NEW k \in U PROVE h <= k + C[k] + 1
  <2>1. k \in 1..(h - 1) /\ Origin(k, i, m) \in T
    OBVIOUS
  <2>2. g <= Origin(k, i, m) + D[Origin(k, i, m)] + 1
    BY <2>1 DEF Above
  <2>3. D[Origin(k, i, m)] \in Nat /\ Origin(k, i, m) \in Int /\ (k >= i => g > i)
    BY <1>3, <2>1, <1>0, <1>1
  <2> QED
    BY <1>4, <2>1, <2>2, <2>3, <1>0
<1>6. ASSUME NEW k \in 1..(h - 1), k \notin U PROVE k + C[k] < h
  <2>1. Origin(k, i, m) \notin T /\ Origin(k, i, m) \in 1..(g - 1)
        /\ D[Origin(k, i, m)] \in Nat
    BY <1>3, <1>6
  <2>2. Origin(k, i, m) + D[Origin(k, i, m)] < g
    BY <2>1 DEF Above
  <2> QED
    BY <1>4, <2>1, <2>2, <1>0
<1>7. ASSUME NEW j \in U, NEW k \in 1..(h - 1), k < j, j <= k + C[k] PROVE k \in U
  <2> DEFINE oj == Origin(j, i, m)
             ok == Origin(k, i, m)
  <2>1. j \in 1..(h - 1) /\ oj \in T
    OBVIOUS
  <2>2. /\ ok \in 1..(g - 1) /\ oj \in 1..(g - 1)
        /\ D[ok] \in Nat /\ D[oj] \in Nat
    BY <1>3, <2>1
  <2>3. ok < oj
    BY <1>7, <2>1, <1>0 DEF Origin
  <2>4. oj <= j + m /\ (j < i => oj = j) /\ oj \in Int
    BY <2>1, <1>0 DEF Origin
  <2>5. oj <= ok + D[ok]
    <3>1. CASE k + C[k] = ok + D[ok] - m
      BY <3>1, <1>7, <2>1, <2>2, <2>4, <1>0
    <3>2. CASE k < i /\ k + C[k] = k + D[k] /\ k + D[k] < i /\ ok = k
      BY <3>2, <1>7, <2>1, <2>2, <2>4, <1>0
    <3> QED
      BY <1>4, <3>1, <3>2
  <2>6. ok \in T
    <3> HIDE DEF oj, ok
    <3> QED
      BY <2>1, <2>2, <2>3, <2>5 DEF Above
  <2> QED
    BY <2>6
<1> HIDE DEF U
<1>8. Above(C, U, h, h)
  BY <1>2, <1>5, <1>6, <1>7 DEF Above
<1> QED
  BY <1>1, <1>8 DEF U

\* The ancestors of i are above its whole subtree and above i alone: what
\* ay_ynode_delete_subtree and ay_ynode_delete_node count down.
LEMMA SubtreeCut ==
  ASSUME NEW n \in Nat, NEW D, Preorder(D, n), NEW i \in 2..n,
         NEW m \in Int, m \in {1, D[i] + 1}
  PROVE  Covers(D, n, i, m, Anc(D, i))
<1>0. /\ D[i] \in Nat /\ i + D[i] <= n
      /\ \A j \in 1..n : D[j] \in Nat
      /\ \A j \in 1..n : j < i /\ i <= j + D[j] => i + D[i] <= j + D[j]
  BY PreorderFacts
<1> QED
  BY <1>0 DEF Anc, Covers

\* The count of node j after both corrections of a move: the ancestors of src
\* lose m, the nodes T above the destination gain m.
Moved(D, src, m, T, j) ==
  LET up == IF j \in Anc(D, src) THEN D[j] - m ELSE D[j]
  IN  IF j \in T THEN up + m ELSE up

\* E is D after the m nodes at src have been taken to the gap at g, which is
\* index h once they are out.
Moves(E, D, n, src, m, g, h, T) ==
  /\ E \in [1..n -> Nat]
  /\ \A k \in 1..(h - 1) : E[k] = Moved(D, src, m, T, Origin(k, src, m))
  /\ \A k \in h..(h + m - 1) : E[k] = D[src + (k - h)]
  /\ \A k \in (h + m)..n : E[k] = Moved(D, src, m, T, Origin(k - m, src, m))

\* A subtree moved to a gap outside of it leaves a preorder when the counts
\* are corrected on both sides (ay_ynode_move_subtree).
LEMMA PreorderMove ==
  ASSUME NEW n \in Nat, NEW D, Preorder(D, n), NEW src \in 2..n,
         NEW m \in Int, m = D[src] + 1,
         NEW g \in 2..(n + 1), g <= src \/ g >= src + m,
         NEW h \in Int, h = IF g <= src THEN g ELSE g - m,
         NEW T, Above(D, T, g, g), T \cap (src..(src + m - 1)) = {},
         NEW E, Moves(E, D, n, src, m, g, h, T)
  PROVE  Preorder(E, n)
<1> DEFINE C == [k \in 1..(n - m) |->
                   IF k < src THEN (IF k \in Anc(D, src) THEN D[k] - m ELSE D[k])
                   ELSE D[k + m]]
           U == {k \in 1..(h - 1) : Origin(k, src, m) \in T}
<1>0. /\ m \in 1..(n - src + 1)
      /\ Anc(D, src) \in SUBSET (1..(src - 1))
      /\ \A j \in Anc(D, src) : src + m <= j + D[j] + 1
      /\ \A j \in 1..(src - 1) : j \notin Anc(D, src) => j + D[j] < src
  BY SubtreeCut DEF Covers
<1>1. \A j \in 1..n : D[j] \in Nat
  BY DEF Preorder
<1>2. Cuts(C, D, n, src, m, Anc(D, src))
  <2>1. C \in [1..(n - m) -> Nat]
    <3> SUFFICES ASSUME NEW k \in 1..(n - m) PROVE C[k] \in Nat
      OBVIOUS
    <3>1. CASE k < src
      <4>1. k \in 1..n /\ D[k] \in Nat
        BY <1>0, <1>1
      <4>2. CASE k \in Anc(D, src)
        <5>1. src + m <= k + D[k] + 1 /\ src \in Int /\ m \in Int
          BY <4>2, <1>0
        <5>2. D[k] - m \in Nat
          BY ONLY <3>1, <4>1, <5>1
        <5> QED
          BY <3>1, <4>2, <5>2
      <4>3. CASE k \notin Anc(D, src)
        BY <3>1, <4>1, <4>3
      <4> QED
        BY <4>2, <4>3
    <3>2. CASE k >= src
      <4>1. k + m \in 1..n
        BY <1>0
      <4>2. D[k + m] \in Nat
        BY ONLY <4>1, <1>1
      <4>3. ~(k < src)
        BY <3>2
      <4> QED
        BY <4>2, <4>3
    <3> QED
      BY <3>1, <3>2
  <2>2. \A j \in 1..(src - 1) : C[j] = IF j \in Anc(D, src) THEN D[j] - m ELSE D[j]
    BY <1>0
  <2>3. \A j \in src..(n - m) : C[j] = D[j + m]
    BY <1>0
  <2> HIDE DEF C
  <2> QED
    BY <1>0, <2>1, <2>2, <2>3 DEF Cuts, Covers
<1>3. Preorder(C, n - m)
  <2> HIDE DEF C
  <2> QED
    BY <1>2, PreorderCut
<1>4. h \in 2..(n - m + 1) /\ Above(C, U, h, h)
  <2> HIDE DEF C
  <2> QED
    BY <1>2, AboveAfterCut
<1>5. ASSUME NEW k \in 1..(n - m)
      PROVE  Moved(D, src, m, T, Origin(k, src, m)) =
               IF Origin(k, src, m) \in T THEN C[k] + m ELSE C[k]
  <2>1. Origin(k, src, m) \in Anc(D, src) <=> k < src /\ k \in Anc(D, src)
    BY <1>0 DEF Origin
  <2> QED
    BY <2>1, <1>0 DEF Moved, Origin
<1> HIDE DEF C, U
<1>6. \A k \in 1..(h - 1) : E[k] = IF k \in U THEN C[k] + m ELSE C[k]
  <2> SUFFICES ASSUME NEW k \in 1..(h - 1) PROVE E[k] = IF k \in U THEN C[k] + m ELSE C[k]
    OBVIOUS
  <2>1. k \in 1..(n - m)
    BY <1>4, <1>0
  <2>2. E[k] = Moved(D, src, m, T, Origin(k, src, m))
    BY DEF Moves
  <2> QED
    BY <1>5, <2>1, <2>2 DEF U
<1>60. h \in Nat /\ m \in Nat /\ n - m \in Nat /\ h <= n - m + 1 /\ m >= 1
  BY <1>0, <1>4
<1>7. \A k \in (h + m)..n : E[k] = C[k - m]
  <2> SUFFICES ASSUME NEW k \in (h + m)..n PROVE E[k] = C[k - m]
    OBVIOUS
  <2>1. k - m \in 1..(n - m) /\ k - m >= h
    BY <1>60
  <2>2. E[k] = Moved(D, src, m, T, Origin(k - m, src, m))
    BY DEF Moves
  <2>3. Origin(k - m, src, m) >= g
    BY <2>1, <1>0 DEF Origin
  <2>4. Origin(k - m, src, m) \notin T
    <3>1. T \in SUBSET (1..(g - 1))
      BY DEF Above
    <3>2. Origin(k - m, src, m) \in Int
      BY <2>1, <1>0 DEF Origin
    <3> QED
      BY <2>3, <3>1, <3>2
  <2> QED
    BY <1>5, <2>1, <2>2, <2>4
<1>8. \A j \in h..(h + m - 1) : j + E[j] < h + m
  <2> SUFFICES ASSUME NEW j \in h..(h + m - 1) PROVE j + E[j] < h + m
    OBVIOUS
  <2> DEFINE q == src + (j - h)
  <2>0. /\ q \in 1..n /\ q >= src /\ q <= src + D[src]
        /\ src \in 1..n /\ D[src] \in Nat /\ D[q] \in Nat
    BY <1>0, <1>1, <1>60
  <2>1. E[j] = D[q]
    BY DEF Moves
  <2>2. q + D[q] <= src + D[src]
    <3> HIDE DEF q
    <3> QED
      BY <2>0 DEF Preorder
  <2> QED
    BY <2>0, <2>1, <2>2, <1>60
<1>9. ASSUME NEW j \in h..(h + m - 1), NEW k \in h..(h + m - 1), j < k, k <= j + E[j]
      PROVE  k + E[k] <= j + E[j]
  <2> DEFINE q == src + (j - h)
             r == src + (k - h)
  <2>0. E[j] = D[q] /\ E[k] = D[r]
    BY DEF Moves
  <2>1. q \in 1..n /\ r \in 1..n /\ D[q] \in Nat /\ D[r] \in Nat
    BY <1>0, <1>1, <1>60
  <2>2. q < r /\ r <= q + D[q]
    BY <2>0, <2>1, <1>9, <1>60
  <2>3. r + D[r] <= q + D[q]
    <3> HIDE DEF q, r
    <3> QED
      BY <2>1, <2>2 DEF Preorder
  <2> QED
    BY <2>0, <2>1, <2>3, <1>60
<1>10. AddsBlock(E, C, n - m, h, m, U)
  <2>1. n - m \in Nat /\ n - m + m = n /\ E \in [1..n -> Nat]
    <3>1. n - m \in Nat /\ n - m + m = n
      BY ONLY <1>60
    <3>2. E \in [1..n -> Nat]
      BY DEF Moves
    <3> QED
      BY ONLY <3>1, <3>2
  <2> QED
    BY <2>1, <1>4, <1>6, <1>7, <1>8, <1>9 DEF AddsBlock
<1>11. Preorder(E, n - m + m)
  <2>1. n - m \in Nat /\ m \in Nat /\ h \in Int
    BY <1>0, <1>4
  <2> QED
    BY <1>3, <1>10, <2>1, PreorderBlock
<1> QED
  BY <1>0, <1>11

(***************************************************************************)
(* Where the operations insert, cut and move.                              *)
(***************************************************************************)

\* p is the parent of x.
Nearest(D, x, p) == p \in Anc(D, x) /\ \A j \in Anc(D, x) : j <= p

\* The ancestors of a node are its parent and the ancestors of that: climbing
\* the parent pointers reaches them all (ay_ynode_insert_parent).
LEMMA AncOfParent ==
  ASSUME NEW n \in Nat, NEW D, Preorder(D, n), NEW x \in 2..n, NEW p, Nearest(D, x, p)
  PROVE  /\ p \in 1..n /\ p < x /\ x <= p + D[p] /\ x + D[x] <= p + D[p]
         /\ Anc(D, x) = Anc(D, p) \cup {p}
<1>1. p \in 1..n /\ p < x /\ x <= p + D[p] /\ D[p] \in Nat
  BY PreorderFacts DEF Nearest, Anc
<1>2. /\ x \in 1..n /\ \A j \in 1..n : D[j] \in Nat
      /\ \A j \in 1..n : j < x /\ x <= j + D[j] => x + D[x] <= j + D[j]
      /\ \A j \in 1..n : j < p /\ p <= j + D[j] => p + D[p] <= j + D[j]
  <2>1. x \in 1..n
    OBVIOUS
  <2> QED
    BY <1>1, <2>1, PreorderFacts
<1>3. x + D[x] <= p + D[p]
  BY <1>1, <1>2
<1>4. ASSUME NEW j \in Anc(D, x) PROVE j \in Anc(D, p) \cup {p}
  <2>1. j <= p /\ j \in 1..n /\ x <= j + D[j] /\ D[j] \in Nat
    BY <1>2 DEF Nearest, Anc
  <2> QED
    BY <2>1, <1>1 DEF Anc
<1>5. ASSUME NEW j \in Anc(D, p) PROVE j \in Anc(D, x)
  <2>1. j \in 1..n /\ j < p /\ p <= j + D[j] /\ D[j] \in Nat
    BY <1>1, <1>2 DEF Anc
  <2>2. p + D[p] <= j + D[j]
    BY <1>2, <2>1
  <2> QED
    BY <2>1, <2>2, <1>1, <1>2 DEF Anc
<1>6. p \in Anc(D, x)
  BY DEF Nearest
<1> QED
  BY <1>1, <1>3, <1>4, <1>5, <1>6

\* The node behind an inner node is its child (ay_ynode_tree_correction).
LEMMA AncOfFirst ==
  ASSUME NEW n \in Nat, NEW D, Preorder(D, n), NEW x \in 1..n, D[x] > 0
  PROVE  x + 1 \in 2..n /\ Anc(D, x + 1) = Anc(D, x) \cup {x} /\ Nearest(D, x + 1, x)
<1>1. /\ D[x] \in Nat /\ x + D[x] <= n
      /\ \A j \in 1..n : D[j] \in Nat
      /\ \A j \in 1..n : j < x /\ x <= j + D[j] => x + D[x] <= j + D[j]
  BY PreorderFacts
<1>2. x + 1 \in 2..n
  BY <1>1
<1>3. Anc(D, x + 1) = Anc(D, x) \cup {x}
  BY <1>1, <1>2 DEF Anc
<1> QED
  BY <1>2, <1>3 DEF Nearest, Anc

\* The node behind a subtree, inside of the parent's, is a sibling: it has
\* the same ancestors (ay_ynode_tree_correction).
LEMMA AncOfNext ==
  ASSUME NEW n \in Nat, NEW D, Preorder(D, n), NEW x \in 2..n, NEW p, Nearest(D, x, p),
         x + D[x] < p + D[p]
  PROVE  /\ x + D[x] + 1 \in 2..n
         /\ Anc(D, x + D[x] + 1) = Anc(D, x)
<1>0. x \in 1..n
  OBVIOUS
<1>1. /\ p \in 1..n /\ p < x /\ x <= p + D[p] /\ x + D[x] <= p + D[p]
      /\ Anc(D, x) = Anc(D, p) \cup {p}
  BY AncOfParent
<1>2. /\ D[x] \in Nat /\ D[p] \in Nat /\ p + D[p] <= n
      /\ \A j \in 1..n : D[j] \in Nat
      /\ \A j \in 1..n : x < j /\ j <= x + D[x] => j + D[j] <= x + D[x]
      /\ \A j \in 1..n : j < p /\ p <= j + D[j] => p + D[p] <= j + D[j]
  BY <1>0, <1>1, PreorderFacts
<1>3. x + D[x] + 1 \in 2..n
  BY <1>1, <1>2
<1>4. ASSUME NEW j \in Anc(D, x + D[x] + 1) PROVE j \in Anc(D, x)
  <2>1. j \in 1..n /\ j <= x + D[x] /\ x + D[x] + 1 <= j + D[j] /\ D[j] \in Nat
    BY <1>2, <1>3 DEF Anc
  <2>2. j < x
    BY <2>1, <1>2
  <2> QED
    BY <2>1, <2>2, <1>2 DEF Anc
<1>5. ASSUME NEW j \in Anc(D, x) PROVE j \in Anc(D, x + D[x] + 1)
  <2>1. j \in 1..n /\ j < x /\ D[j] \in Nat
    BY <1>2 DEF Anc
  <2>2. p + D[p] <= j + D[j]
    <3>1. CASE j = p
      BY <3>1, <1>2, <1>1
    <3>2. CASE j \in Anc(D, p)
      <4>1. j < p /\ p <= j + D[j]
        BY <3>2, <1>1 DEF Anc
      <4> QED
        BY <4>1, <2>1, <1>2
    <3> QED
      BY <1>1, <1>5, <3>1, <3>2
  <2> QED
    BY <2>1, <2>2, <1>1, <1>2 DEF Anc
<1> QED
  BY <1>3, <1>4, <1>5

\* A wrapper fits over x and a sibling behind it (ay_ynode_insert_wrapper,
\* ay_ynode_insert_sibling).
LEMMA FitsAround ==
  ASSUME NEW n \in Nat, NEW D, Preorder(D, n), NEW x \in 2..n
  PROVE  /\ Fits(D, n, x, D[x] + 1, Anc(D, x))
         /\ Fits(D, n, x + D[x] + 1, 0, Anc(D, x))
<1>0. x \in 1..n
  OBVIOUS
<1>1. /\ D[x] \in Nat /\ x + D[x] <= n
      /\ \A j \in 1..n : D[j] \in Nat
      /\ \A j \in 1..n : x < j /\ j <= x + D[x] => j + D[j] <= x + D[x]
  BY <1>0, PreorderFacts
<1>2. Above(D, Anc(D, x), x, x + D[x] + 1)
  BY AboveBeside
<1>3. Above(D, Anc(D, x), x + D[x] + 1, x + D[x] + 1)
  BY AboveBeside
<1>4. /\ x + (D[x] + 1) = x + D[x] + 1
      /\ x + D[x] + 1 + 0 = x + D[x] + 1
  BY <1>1
<1>5. ASSUME NEW j \in x..(x + (D[x] + 1) - 1) PROVE j + D[j] < x + (D[x] + 1)
  <2>1. j \in 1..n /\ j >= x /\ j <= x + D[x] /\ D[j] \in Nat
    BY <1>1
  <2>2. j + D[j] <= x + D[x]
    BY <2>1, <1>1
  <2> QED
    BY <2>1, <2>2, <1>1
<1>6. Fits(D, n, x, D[x] + 1, Anc(D, x))
  <2>1. x \in 2..(n + 1) /\ D[x] + 1 \in 0..(n + 1 - x)
    BY <1>1
  <2> QED
    BY <2>1, <1>2, <1>4, <1>5 DEF Fits
<1>7. Fits(D, n, x + D[x] + 1, 0, Anc(D, x))
  <2>1. x + D[x] + 1 \in 2..(n + 1) /\ 0 \in 0..(n + 1 - (x + D[x] + 1))
    BY <1>1
  <2>2. \A j \in (x + D[x] + 1)..(x + D[x] + 1 + 0 - 1) : FALSE
    BY <1>1
  <2> QED
    BY <2>1, <2>2, <1>3, <1>4 DEF Fits
<1> QED
  BY <1>6, <1>7

\* A node fits over all children of x, in front of them and behind them
\* (ay_ynode_insert_parent, ay_ynode_insert_child,
\* ay_ynode_insert_child_last).
LEMMA FitsInside ==
  ASSUME NEW n \in Nat, NEW D, Preorder(D, n), NEW x \in 1..n
  PROVE  /\ Fits(D, n, x + 1, D[x], Anc(D, x) \cup {x})
         /\ Fits(D, n, x + 1, 0, Anc(D, x) \cup {x})
         /\ Fits(D, n, x + D[x] + 1, 0, Anc(D, x) \cup {x})
<1> DEFINE S == Anc(D, x) \cup {x}
<1>1. /\ D[x] \in Nat /\ x + D[x] <= n
      /\ \A j \in 1..n : D[j] \in Nat
      /\ \A j \in 1..n : x < j /\ j <= x + D[x] => j + D[j] <= x + D[x]
  BY PreorderFacts
<1>2. Above(D, S, x + 1, x + D[x] + 1) /\ Above(D, S, x + 1, x + 1)
  BY AboveInside
<1>3. Above(D, S, x + D[x] + 1, x + D[x] + 1)
  BY AboveInside
<1> HIDE DEF S
<1>4. /\ x + 1 + D[x] = x + D[x] + 1
      /\ x + D[x] + 1 + 0 = x + D[x] + 1
      /\ x + 1 + 0 = x + 1
  BY <1>1
<1>5. ASSUME NEW j \in (x + 1)..(x + 1 + D[x] - 1) PROVE j + D[j] < x + 1 + D[x]
  <2>1. j \in 1..n /\ j > x /\ j <= x + D[x] /\ D[j] \in Nat
    BY <1>1
  <2>2. j + D[j] <= x + D[x]
    BY <2>1, <1>1
  <2> QED
    BY <2>1, <2>2, <1>1
<1>6. Fits(D, n, x + 1, D[x], S)
  <2>1. x + 1 \in 2..(n + 1) /\ D[x] \in 0..(n + 1 - (x + 1))
    BY <1>1
  <2> QED
    BY <2>1, <1>2, <1>4, <1>5 DEF Fits
<1>7. Fits(D, n, x + D[x] + 1, 0, S)
  <2>1. x + D[x] + 1 \in 2..(n + 1) /\ 0 \in 0..(n + 1 - (x + D[x] + 1))
    BY <1>1
  <2>2. \A j \in (x + D[x] + 1)..(x + D[x] + 1 + 0 - 1) : FALSE
    BY <1>1
  <2> QED
    BY <2>1, <2>2, <1>3, <1>4 DEF Fits
<1>8. Fits(D, n, x + 1, 0, S)
  <2>1. x + 1 \in 2..(n + 1) /\ 0 \in 0..(n + 1 - (x + 1))
    BY <1>1
  <2>2. \A j \in (x + 1)..(x + 1 + 0 - 1) : FALSE
    BY <1>1
  <2> QED
    BY <2>1, <2>2, <1>2, <1>4 DEF Fits
<1> QED
  BY <1>6, <1>7, <1>8 DEF S

\* A node fits over x and all siblings behind it
\* (ay_ynode_insert_parent_for_rest).
LEMMA FitsRest ==
  ASSUME NEW n \in Nat, NEW D, Preorder(D, n), NEW x \in 2..n, NEW p, Nearest(D, x, p)
  PROVE  Fits(D, n, x, p + D[p] + 1 - x, Anc(D, x))
<1> DEFINE d == p + D[p] + 1 - x
<1>0. x \in 1..n
  OBVIOUS
<1>1. /\ p \in 1..n /\ p < x /\ x <= p + D[p] /\ x + D[x] <= p + D[p]
      /\ Anc(D, x) = Anc(D, p) \cup {p}
  BY AncOfParent
<1>2. /\ D[p] \in Nat /\ p + D[p] <= n
      /\ \A j \in 1..n : D[j] \in Nat
      /\ \A j \in 1..n : p < j /\ j <= p + D[p] => j + D[j] <= p + D[p]
      /\ \A j \in 1..n : j < p /\ p <= j + D[j] => p + D[p] <= j + D[j]
  BY <1>1, PreorderFacts
<1>3. x + d = p + D[p] + 1
  BY <1>1, <1>2
<1>4. Above(D, Anc(D, x), x, x)
  BY AboveBeside
<1>5. ASSUME NEW j \in Anc(D, x) PROVE p + D[p] + 1 <= j + D[j] + 1
  <2>1. CASE j = p
    BY <2>1, <1>1, <1>2
  <2>2. CASE j \in Anc(D, p)
    <3>1. j \in 1..n /\ j < p /\ p <= j + D[j] /\ D[j] \in Nat
      BY <2>2, <1>1, <1>2 DEF Anc
    <3>2. p + D[p] <= j + D[j]
      BY <3>1, <1>2
    <3> QED
      BY <3>1, <3>2, <1>1, <1>2
  <2> QED
    BY <1>1, <1>5, <2>1, <2>2
<1>6. Above(D, Anc(D, x), x, p + D[p] + 1)
  BY <1>4, <1>5 DEF Above
<1>7. ASSUME NEW j \in x..(p + D[p] + 1 - 1) PROVE j + D[j] < p + D[p] + 1
  <2>1. j \in 1..n /\ j > p /\ j <= p + D[p] /\ D[j] \in Nat
    BY <1>1, <1>2
  <2>2. j + D[j] <= p + D[p]
    BY <2>1, <1>2
  <2> QED
    BY <2>1, <2>2, <1>1, <1>2
<1>8. x \in 2..(n + 1) /\ d \in 0..(n + 1 - x)
  BY <1>1, <1>2
<1> HIDE DEF d
<1>9. Fits(D, n, x, d, Anc(D, x))
  <2>1. Above(D, Anc(D, x), x, x + d)
    BY <1>3, <1>6
  <2>2. ASSUME NEW j \in x..(x + d - 1) PROVE j + D[j] < x + d
    <3>1. j \in x..(p + D[p] + 1 - 1)
      BY <1>1, <1>2, <1>3, <1>8
    <3>2. j + D[j] < p + D[p] + 1
      BY <3>1, <1>7
    <3> QED
      BY <3>2, <1>3
  <2> QED
    BY <2>1, <2>2, <1>8 DEF Fits
<1> QED
  BY <1>9 DEF d

\* The children of x from f on can be cut out together
\* (ay_ynode_delete_children).
LEMMA CoversRest ==
  ASSUME NEW n \in Nat, NEW D, Preorder(D, n), NEW x \in 1..n, NEW f \in (x + 1)..(x + D[x]),
         Anc(D, f) = Anc(D, x) \cup {x}
  PROVE  Covers(D, n, f, x + D[x] + 1 - f, Anc(D, f))
<1>1. /\ D[x] \in Nat /\ x + D[x] <= n
      /\ \A j \in 1..n : D[j] \in Nat
      /\ \A j \in 1..n : j < x /\ x <= j + D[j] => x + D[x] <= j + D[j]
  BY PreorderFacts
<1>2. f \in 2..n /\ x + D[x] + 1 - f \in 1..(n - f + 1) /\ f + (x + D[x] + 1 - f) = x + D[x] + 1
  BY <1>1
<1>3. ASSUME NEW j \in Anc(D, f) PROVE x + D[x] + 1 <= j + D[j] + 1
  <2>1. CASE j = x
    BY <2>1, <1>1
  <2>2. CASE j \in Anc(D, x)
    <3>1. j \in 1..n /\ j < x /\ x <= j + D[j] /\ D[j] \in Nat
      BY <2>2, <1>1 DEF Anc
    <3> QED
      BY <3>1, <1>1
  <2> QED
    BY <1>3, <2>1, <2>2
<1>4. /\ Anc(D, f) \in SUBSET (1..(f - 1))
      /\ \A j \in 1..(f - 1) : j \notin Anc(D, f) => j + D[j] < f
  BY <1>1, <1>2 DEF Anc
<1> QED
  BY <1>2, <1>3, <1>4 DEF Covers

\* The place behind x and the nodes above it are outside of the subtree of
\* src, when x is; x may be src itself, which is then moved or copied behind
\* itself.
LEMMA OutsideBeside ==
  ASSUME NEW n \in Nat, NEW D, Preorder(D, n), NEW x \in 2..n, NEW src \in 2..n,
         x \notin (src + 1)..(src + D[src])
  PROVE  /\ x + D[x] + 1 <= src \/ x + D[x] + 1 >= src + D[src] + 1
         /\ Anc(D, x) \cap (src..(src + D[src])) = {}
<1>0. x \in 1..n /\ src \in 1..n
  OBVIOUS
<1>1. /\ \A j \in 1..n : D[j] \in Nat
      /\ \A j \in 1..n : j < src /\ src <= j + D[j] => src + D[src] <= j + D[j]
      /\ \A j \in 1..n : src < j /\ j <= src + D[src] => j + D[j] <= src + D[src]
  BY <1>0, PreorderFacts
<1>2. D[x] \in Nat /\ D[src] \in Nat /\ x \in Nat /\ src \in Nat
  BY <1>0, <1>1
<1>3. x + D[x] + 1 <= src \/ x + D[x] + 1 >= src + D[src] + 1
  <2>1. CASE x < src
    <3>1. src <= x + D[x] => src + D[src] <= x + D[x]
      BY <2>1, <1>0, <1>1
    <3> QED
      BY <2>1, <3>1, <1>2
  <2>2. CASE x >= src
    BY <2>2, <1>2
  <2> QED
    BY <2>1, <2>2, <1>2
<1>4. ASSUME NEW j \in Anc(D, x), j \in src..(src + D[src]) PROVE FALSE
  <2>1. j \in 1..n /\ j < x /\ x <= j + D[j] /\ D[j] \in Nat
    BY <1>0, <1>1 DEF Anc
  <2>2. j + D[j] <= src + D[src]
    BY <1>4, <2>1, <1>1, <1>2
  <2>3. x \in (src + 1)..(src + D[src])
    BY <1>4, <2>1, <2>2, <1>2
  <2> QED
    BY <2>3
<1> QED
  BY <1>3, <1>4

\* The place in front of the children of x and the nodes above it are outside
\* of the subtree of src, when x is.
LEMMA OutsideInside ==
  ASSUME NEW n \in Nat, NEW D, Preorder(D, n), NEW x \in 1..n, NEW src \in 2..n,
         x \notin src..(src + D[src])
  PROVE  /\ x + 1 <= src \/ x + 1 >= src + D[src] + 1
         /\ (Anc(D, x) \cup {x}) \cap (src..(src + D[src])) = {}
<1>0. src \in 1..n
  OBVIOUS
<1>1. /\ \A j \in 1..n : D[j] \in Nat
      /\ \A j \in 1..n : src < j /\ j <= src + D[src] => j + D[j] <= src + D[src]
  BY <1>0, PreorderFacts
<1>2. D[x] \in Nat /\ D[src] \in Nat /\ x \in Nat /\ src \in Nat
  BY <1>0, <1>1
<1>3. x + 1 <= src \/ x + 1 >= src + D[src] + 1
  BY <1>2
<1>4. ASSUME NEW j \in Anc(D, x), j \in src..(src + D[src]) PROVE FALSE
  <2>1. j \in 1..n /\ j < x /\ x <= j + D[j] /\ D[j] \in Nat
    BY <1>1 DEF Anc
  <2>2. j + D[j] <= src + D[src]
    BY <1>4, <2>1, <1>1, <1>2
  <2>3. x \in src..(src + D[src])
    BY <1>4, <2>1, <2>2, <1>2
  <2> QED
    BY <2>3
<1> QED
  BY <1>3, <1>4
=============================================================================
