------------------------- MODULE AugStoreDiff_proofs -------------------------
(***************************************************************************)
(* The diff of libyang leads augds_store_diff_r from the loaded data to    *)
(* the data to be stored, proved for lists of any length.                  *)
(*                                                                         *)
(* The argument: the places of the diff are the instances of the old data, *)
(* then the positions of the new data.  At each place diff_data is known   *)
(* from the old and the new data alone (Reached): first the instances that *)
(* are gone disappear and the others get their new contents, then the new  *)
(* data grow from the front while the instances not placed yet keep the    *)
(* order of the old data.  A place without a node changes nothing, a node  *)
(* applies at its place and leads to the next one, and the last place is   *)
(* the new data.                                                           *)
(***************************************************************************)
EXTENDS AugStore_proofs

-----------------------------------------------------------------------------
(* The invariant *)

\* Two lists of instances whose keys are unique: the data before and after the store.
Lists(C, T) == C \in Seq(Instance) /\ Unique(C) /\ T \in Seq(Instance) /\ Unique(T)

\* Behind position i the instances of s stand in the order they have in C.
Sorted(C, s, i) ==
  \A k, l \in (i + 1)..Len(s) : k < l => At(C, s[k].id) < At(C, s[l].id)

\* The first t instances of C were processed: what is gone from the target is deleted,
\* what stays looks as in the target; the other instances are as in C.
Altering(C, T, t, s) ==
  /\ \A k \in 1..Len(s) :
        /\ s[k].id \in IdsOf(C)
        /\ At(C, s[k].id) <= t => s[k].id \in IdsOf(T) /\ s[k] = T[At(T, s[k].id)]
        /\ At(C, s[k].id) > t => s[k] = C[At(C, s[k].id)]
  /\ \A j \in 1..Len(C) : j > t \/ C[j].id \in IdsOf(T) => C[j].id \in IdsOf(s)
  /\ Sorted(C, s, 0)

\* The first i positions are as in the target; behind them stand, in the order of C, the
\* instances of the target that C had and that are not placed yet.
Placing(C, T, i, s) ==
  /\ i <= Len(s)
  /\ \A k \in 1..i : s[k] = T[k]
  /\ \A k \in (i + 1)..Len(s) :
        /\ s[k].id \in IdsOf(C) /\ s[k].id \in IdsOf(T)
        /\ At(T, s[k].id) > i /\ s[k] = T[At(T, s[k].id)]
  /\ \A q \in (i + 1)..Len(T) : T[q].id \in IdsOf(C) => T[q].id \in IdsOf(s)
  /\ Sorted(C, s, i)

\* diff_data after the nodes of the diff up to place t.
Reached(C, T, t, s) ==
  /\ s \in Seq(Instance) /\ Unique(s)
  /\ t <= Len(C) => Altering(C, T, t, s)
  /\ t >= Len(C) => Placing(C, T, t - Len(C), s)

\* The nodes behind place t.
After(f, t) == Restrict(f, {i \in DOMAIN f : i > t})

\* The store is at place t of the diff from C to the target.
Progress(C, t) ==
  /\ Lists(C, target) /\ t <= Len(C) + Len(target)
  /\ diff = After(Diff(C, target), t)
  /\ Reached(C, target, t, data)

\* The inductive invariant: there is such a place.
DInv == \E C \in Loaded : \E t \in Nat : Progress(C, t)

\* u is s with the instance c deleted if the target T does not have it, and as in T if it does.
Settles(T, c, s, u) ==
  /\ \A j \in 1..Len(u) : \E h \in 1..Len(s) :
        /\ u[j].id = s[h].id
        /\ s[h].id = c.id => c.id \in IdsOf(T) /\ u[j] = T[At(T, c.id)]
        /\ s[h].id # c.id => u[j] = s[h]
  /\ \A j, l \in 1..Len(u) : j < l =>
        \E g, h \in 1..Len(s) : g < h /\ u[j].id = s[g].id /\ u[l].id = s[h].id
  /\ \A id \in IdsOf(s) : id # c.id \/ c.id \in IdsOf(T) => id \in IdsOf(u)

\* With unique keys an instance and its key stand for each other.
LEMMA KeyFact ==
  ASSUME NEW s \in Seq(Instance), Unique(s)
  PROVE  /\ Len(s) \in Nat
         /\ \A j \in 1..Len(s) : s[j].id \in IdsOf(s) /\ At(s, s[j].id) = j /\ s[j] \in Instance
         /\ \A id \in IdsOf(s) : At(s, id) \in 1..Len(s) /\ s[At(s, id)].id = id
  BY InstanceFact, AtFact

\* The keys are those of the instances.
LEMMA IdsFact ==
  ASSUME NEW s \in Seq(Instance)
  PROVE  \A id : id \in IdsOf(s) <=> \E j \in 1..Len(s) : s[j].id = id
<1>1. DOMAIN s = 1..Len(s)
  BY InstanceFact
<1> QED
  BY <1>1 DEF IdsOf

\* One more instance of C is processed when it is settled.
LEMMA AlterStep ==
  ASSUME NEW C, NEW T, Lists(C, T), NEW t \in Nat, NEW q \in 1..Len(C), q = t + 1,
         NEW s, Altering(C, T, t, s),
         NEW u, Settles(T, C[q], s, u)
  PROVE  Altering(C, T, q, u)
<1> DEFINE n == Len(C)
           c == C[q]
<1>1. /\ n \in Nat /\ q \in 1..n
      /\ \A j \in 1..n : C[j].id \in IdsOf(C) /\ At(C, C[j].id) = j
      /\ \A id \in IdsOf(C) : At(C, id) \in 1..n /\ C[At(C, id)].id = id
  BY KeyFact DEF Lists
<1>2. \A x \in 1..n : (x <= q <=> x <= t \/ x = q) /\ (x > q <=> x > t /\ x # q)
  BY <1>1
<1>3. /\ \A k \in 1..Len(s) :
            /\ s[k].id \in IdsOf(C)
            /\ At(C, s[k].id) <= t => s[k].id \in IdsOf(T) /\ s[k] = T[At(T, s[k].id)]
            /\ At(C, s[k].id) > t => s[k] = C[At(C, s[k].id)]
      /\ \A j \in 1..n : j > t \/ C[j].id \in IdsOf(T) => C[j].id \in IdsOf(s)
      /\ \A k, l \in 1..Len(s) : k < l => At(C, s[k].id) < At(C, s[l].id)
  BY DEF Altering, Sorted
<1> HIDE DEF n
<1>4. ASSUME NEW j \in 1..Len(u)
      PROVE  /\ u[j].id \in IdsOf(C)
             /\ At(C, u[j].id) <= q => u[j].id \in IdsOf(T) /\ u[j] = T[At(T, u[j].id)]
             /\ At(C, u[j].id) > q => u[j] = C[At(C, u[j].id)]
  <2>1. PICK h \in 1..Len(s) :
              /\ u[j].id = s[h].id
              /\ s[h].id = c.id => c.id \in IdsOf(T) /\ u[j] = T[At(T, c.id)]
              /\ s[h].id # c.id => u[j] = s[h]
    BY DEF Settles
  <2> DEFINE a == At(C, s[h].id)
  <2>2. a \in 1..n /\ C[a].id = s[h].id /\ s[h].id \in IdsOf(C)
    BY <1>1, <1>3
  <2>3. CASE s[h].id = c.id
    <3>1. a = q
      BY <1>1, <2>3
    <3> QED
      BY <1>1, <2>1, <2>2, <2>3, <3>1
  <2>4. CASE s[h].id # c.id
    <3>1. a # q
      BY <2>2, <2>4
    <3> QED
      BY <1>2, <1>3, <2>1, <2>2, <2>4, <3>1
  <2> QED
    BY <2>3, <2>4
<1>5. ASSUME NEW j \in 1..n, j > q \/ C[j].id \in IdsOf(T) PROVE C[j].id \in IdsOf(u)
  <2>1. C[j].id \in IdsOf(s)
    BY <1>2, <1>3, <1>5
  <2>2. j # q => C[j].id # c.id
    BY <1>1
  <2>3. C[j].id # c.id \/ c.id \in IdsOf(T)
    BY <1>1, <1>5, <2>2
  <2> QED
    BY <2>1, <2>3 DEF Settles
<1>6. ASSUME NEW j \in 1..Len(u), NEW l \in 1..Len(u), j < l
      PROVE  At(C, u[j].id) < At(C, u[l].id)
  BY <1>3, <1>6 DEF Settles
<1> QED
  BY <1>4, <1>5, <1>6 DEF Altering, Sorted, n

\* u is s with e put on position p and the instances behind in their order.
Advances(s, u, p, e) ==
  /\ u \in Seq(Instance) /\ Unique(u) /\ p \in 1..Len(u) /\ u[p] = e
  /\ \A j \in 1..(p - 1) : u[j] = s[j]
  /\ \A j \in (p + 1)..Len(u) : \E h \in p..Len(s) : u[j] = s[h]
  /\ \A j, l \in (p + 1)..Len(u) : j < l =>
        \E g, h \in p..Len(s) : g < h /\ u[j] = s[g] /\ u[l] = s[h]
  /\ IdsOf(s) \subseteq IdsOf(u)

\* One more position is as in the target when its instance is put there.
LEMMA PlaceStep ==
  ASSUME NEW C, NEW T, Lists(C, T), NEW i \in Nat, NEW p \in 1..Len(T), p = i + 1,
         NEW s, Placing(C, T, i, s), Len(s) \in Nat,
         NEW u, Advances(s, u, p, T[p])
  PROVE  Placing(C, T, p, u)
<1> DEFINE m == Len(T)
<1>1. /\ m \in Nat /\ p \in 1..m /\ Len(u) \in Nat
      /\ \A j \in 1..m : T[j].id \in IdsOf(T) /\ At(T, T[j].id) = j
      /\ \A id \in IdsOf(T) : At(T, id) \in 1..m /\ T[At(T, id)].id = id
  BY KeyFact DEF Lists, Advances
<1>2. /\ \A k \in 1..i : s[k] = T[k]
      /\ \A k \in p..Len(s) :
            /\ s[k].id \in IdsOf(C) /\ s[k].id \in IdsOf(T)
            /\ At(T, s[k].id) > i /\ s[k] = T[At(T, s[k].id)]
      /\ \A q \in p..m : T[q].id \in IdsOf(C) => T[q].id \in IdsOf(s)
      /\ \A k, l \in p..Len(s) : k < l => At(C, s[k].id) < At(C, s[l].id)
  BY DEF Placing, Sorted
<1>3. /\ Unique(u) /\ p \in 1..Len(u) /\ u[p] = T[p]
      /\ \A j \in 1..(p - 1) : u[j] = s[j]
      /\ \A j \in (p + 1)..Len(u) : \E h \in p..Len(s) : u[j] = s[h]
      /\ \A j, l \in (p + 1)..Len(u) : j < l =>
            \E g, h \in p..Len(s) : g < h /\ u[j] = s[g] /\ u[l] = s[h]
      /\ IdsOf(s) \subseteq IdsOf(u)
  BY DEF Advances
<1> HIDE DEF m
<1>4. \A k \in 1..p : u[k] = T[k]
  BY <1>1, <1>2, <1>3
<1>5. ASSUME NEW k \in (p + 1)..Len(u)
      PROVE  /\ u[k].id \in IdsOf(C) /\ u[k].id \in IdsOf(T)
             /\ At(T, u[k].id) > p /\ u[k] = T[At(T, u[k].id)]
  <2>1. PICK h \in p..Len(s) : u[k] = s[h]
    BY <1>3
  <2>2. /\ u[k].id \in IdsOf(C) /\ u[k].id \in IdsOf(T)
        /\ At(T, u[k].id) > i /\ u[k] = T[At(T, u[k].id)]
    BY <1>2, <2>1
  <2>3. u[k].id # u[p].id
    <3>1. k \in 1..Len(u) /\ k # p
      BY <1>1
    <3> QED
      BY <1>3, <3>1 DEF Unique
  <2>4. At(T, u[k].id) # p
    BY <1>1, <1>3, <2>2, <2>3
  <2>5. At(T, u[k].id) \in 1..m
    BY <1>1, <2>2
  <2> QED
    BY <1>1, <2>2, <2>4, <2>5
<1>6. ASSUME NEW q \in (p + 1)..m, T[q].id \in IdsOf(C) PROVE T[q].id \in IdsOf(u)
  BY <1>1, <1>2, <1>3, <1>6
<1>7. ASSUME NEW k \in (p + 1)..Len(u), NEW l \in (p + 1)..Len(u), k < l
      PROVE  At(C, u[k].id) < At(C, u[l].id)
  <2>1. \E g, h \in p..Len(s) : g < h /\ u[k] = s[g] /\ u[l] = s[h]
    BY <1>3, <1>7
  <2>2. PICK g \in p..Len(s) : \E h \in p..Len(s) : g < h /\ u[k] = s[g] /\ u[l] = s[h]
    BY <2>1
  <2>3. PICK h \in p..Len(s) : g < h /\ u[k] = s[g] /\ u[l] = s[h]
    BY <2>2
  <2> QED
    BY <1>2, <2>3
<1>8. Sorted(C, u, p)
  BY <1>7 DEF Sorted
<1>9. p <= Len(u)
  BY <1>1, <1>3
<1> QED
  BY <1>4, <1>5, <1>6, <1>8, <1>9, Zenon DEF Placing, m

-----------------------------------------------------------------------------
(* Settling an instance *)

\* The instance to be processed next is in diff_data, as it is in C.
LEMMA AlterHas ==
  ASSUME NEW C, NEW T, Lists(C, T), NEW t \in Nat, NEW q \in 1..Len(C), q = t + 1,
         NEW s \in Seq(Instance), Altering(C, T, t, s)
  PROVE  /\ C[q].id \in IdsOf(s)
         /\ \A h \in 1..Len(s) : s[h].id = C[q].id => s[h] = C[q]
<1>1. /\ Len(C) \in Nat /\ q > t
      /\ \A j \in 1..Len(C) : C[j].id \in IdsOf(C) /\ At(C, C[j].id) = j
  BY KeyFact DEF Lists
<1>2. C[q].id \in IdsOf(s)
  BY <1>1 DEF Altering
<1>3. ASSUME NEW h \in 1..Len(s), s[h].id = C[q].id PROVE s[h] = C[q]
  <2>1. At(C, s[h].id) = q
    BY <1>1, <1>3
  <2> QED
    BY <1>1, <2>1 DEF Altering
<1> QED
  BY <1>2, <1>3

\* An instance without a node in the diff is settled: the target has it as it is.
LEMMA KeepSettles ==
  ASSUME NEW T, NEW c, NEW s \in Seq(Instance), ~Altered(c, T),
         \A h \in 1..Len(s) : s[h].id = c.id => s[h] = c
  PROVE  Settles(T, c, s, s)
<1>1. c.id \in IdsOf(T) /\ T[At(T, c.id)] = c
  BY DEF Altered
<1>2. ASSUME NEW j \in 1..Len(s)
      PROVE  \E h \in 1..Len(s) :
               /\ s[j].id = s[h].id
               /\ s[h].id = c.id => c.id \in IdsOf(T) /\ s[j] = T[At(T, c.id)]
               /\ s[h].id # c.id => s[j] = s[h]
  BY <1>1
<1> QED
  BY <1>2 DEF Settles

\* The delete settles an instance the target does not have.
LEMMA DeleteSettles ==
  ASSUME NEW T, NEW c, NEW s \in Seq(Instance), Unique(s), c.id \in IdsOf(s), c.id \notin IdsOf(T)
  PROVE  Settles(T, c, s, RemoveAt(s, At(s, c.id)))
<1> DEFINE k == At(s, c.id)
           u == RemoveAt(s, k)
           n == Len(s)
           g(j) == IF j < k THEN j ELSE j + 1
<1>1. /\ n \in Nat /\ k \in 1..n /\ s[k].id = c.id
      /\ \A j \in 1..n : At(s, s[j].id) = j
  BY KeyFact
<1> HIDE DEF k
<1>2. /\ u \in Seq(Instance) /\ Len(u) = n - 1
      /\ \A j \in 1..(k - 1) : u[j] = s[j]
      /\ \A j \in k..(n - 1) : u[j] = s[j + 1]
  BY <1>1, RemoveAtFact
<1> HIDE DEF u
<1>3. /\ \A j \in 1..Len(u) : g(j) \in 1..n /\ g(j) # k /\ u[j] = s[g(j)]
      /\ \A j, l \in 1..Len(u) : j < l => g(j) < g(l)
  <2>1. ASSUME NEW j \in 1..Len(u) PROVE g(j) \in 1..n /\ g(j) # k /\ u[j] = s[g(j)]
    <3>1. CASE j < k
      BY <1>1, <1>2, <3>1
    <3>2. CASE ~(j < k)
      <4>1. j \in k..(n - 1) /\ j + 1 \in 1..n /\ j + 1 # k
        BY <1>1, <1>2, <3>2
      <4> QED
        BY <1>2, <3>2, <4>1
    <3> QED
      BY <3>1, <3>2
  <2>2. \A j, l \in 1..Len(u) : j < l => g(j) < g(l)
    BY <1>1, <1>2
  <2> QED
    BY <2>1, <2>2
<1>4. \A j \in 1..n : j # k => s[j].id # c.id
  BY <1>1
<1>5. \A j \in 1..n : j # k => \E l \in 1..Len(u) : g(l) = j
  <2>1. ASSUME NEW j \in 1..n, j < k PROVE j \in 1..Len(u) /\ g(j) = j
    BY <1>1, <1>2, <2>1
  <2>2. ASSUME NEW j \in 1..n, j > k PROVE j - 1 \in 1..Len(u) /\ g(j - 1) = j
    BY <1>1, <1>2, <2>2
  <2>3. \A j \in 1..n : j # k => j < k \/ j > k
    BY <1>1
  <2> HIDE DEF g
  <2> SUFFICES ASSUME NEW j \in 1..n, j # k PROVE \E l \in 1..Len(u) : g(l) = j
    OBVIOUS
  <2>4. CASE j < k
    BY <2>1, <2>4
  <2>5. CASE j > k
    BY <2>2, <2>5
  <2> QED
    BY <2>3, <2>4, <2>5
<1> HIDE DEF g
<1>6. ASSUME NEW id \in IdsOf(s), id # c.id PROVE id \in IdsOf(u)
  <2>1. PICK j \in 1..n : s[j].id = id
    BY IdsFact
  <2>2. PICK l \in 1..Len(u) : g(l) = j
    BY <1>1, <1>5, <1>6, <2>1
  <2>3. u[l].id = id
    BY <1>3, <2>1, <2>2
  <2> QED
    BY <1>2, <2>3, IdsFact
<1>7. ASSUME NEW j \in 1..Len(u)
      PROVE  \E h \in 1..n :
               /\ u[j].id = s[h].id
               /\ s[h].id = c.id => c.id \in IdsOf(T) /\ u[j] = T[At(T, c.id)]
               /\ s[h].id # c.id => u[j] = s[h]
  BY <1>3, <1>4
<1>8. ASSUME NEW j \in 1..Len(u), NEW l \in 1..Len(u), j < l
      PROVE  \E a, b \in 1..n : a < b /\ u[j].id = s[a].id /\ u[l].id = s[b].id
  BY <1>3, <1>8
<1> QED
  BY <1>6, <1>7, <1>8, Zenon DEF Settles, u, k, n

\* The change settles an instance that looks different in the target.
LEMMA ChangeSettles ==
  ASSUME NEW T \in Seq(Instance), NEW c, NEW s \in Seq(Instance), Unique(s),
         c.id \in IdsOf(s), c.id \in IdsOf(T)
  PROVE  LET new == T[At(T, c.id)]
             u   == Updated(s, At(s, c.id), new.label, new.val)
         IN  Settles(T, c, s, u) /\ u \in Seq(Instance) /\ Unique(u)
             /\ new.label \in Labels /\ new.val \in Values
<1> DEFINE new == T[At(T, c.id)]
           k == At(s, c.id)
           u == Updated(s, k, new.label, new.val)
           n == Len(s)
<1>1. /\ n \in Nat /\ k \in 1..n /\ s[k].id = c.id
      /\ \A j \in 1..n : At(s, s[j].id) = j
  BY KeyFact
<1>2. new \in Instance /\ new.id = c.id /\ new.label \in Labels /\ new.val \in Values
  BY InstanceFact, AtFact
<1> HIDE DEF k, new
<1>3. /\ u \in Seq(Instance) /\ Len(u) = n /\ Unique(u)
      /\ u[k].label = new.label /\ u[k].val = new.val /\ u[k].id = c.id
      /\ \A j \in 1..n : j # k => u[j] = s[j]
  BY <1>1, <1>2, InstanceUpdate, UniqueUpdate
<1> HIDE DEF u
<1>4. u[k] = new
  <2>1. u[k] \in Instance
    BY <1>1, <1>3, InstanceFact
  <2> QED
    BY <1>2, <1>3, <2>1 DEF Instance
<1>5. \A j \in 1..n : u[j].id = s[j].id /\ (s[j].id = c.id => j = k)
  BY <1>1, <1>3
<1>6. ASSUME NEW j \in 1..Len(u)
      PROVE  \E h \in 1..n :
               /\ u[j].id = s[h].id
               /\ s[h].id = c.id => c.id \in IdsOf(T) /\ u[j] = new
               /\ s[h].id # c.id => u[j] = s[h]
  BY <1>1, <1>3, <1>4, <1>5
<1>7. ASSUME NEW j \in 1..Len(u), NEW l \in 1..Len(u), j < l
      PROVE  \E a, b \in 1..n : a < b /\ u[j].id = s[a].id /\ u[l].id = s[b].id
  BY <1>3, <1>5, <1>7
<1>8. ASSUME NEW id \in IdsOf(s) PROVE id \in IdsOf(u)
  BY <1>3, <1>5, IdsFact
<1>9. Settles(T, c, s, u)
  BY <1>6, <1>7, <1>8, Zenon DEF Settles, n, new
<1> QED
  BY <1>2, <1>3, <1>9, Zenon DEF u, k, new

-----------------------------------------------------------------------------
(* The position to be filled next *)

\* When all instances of C were processed, the placing begins.
LEMMA TurnFact ==
  ASSUME NEW C, NEW T, Lists(C, T), NEW s \in Seq(Instance), Altering(C, T, Len(C), s)
  PROVE  Placing(C, T, 0, s)
<1>1. /\ Len(C) \in Nat /\ Len(T) \in Nat /\ Len(s) \in Nat
      /\ \A id \in IdsOf(C) : At(C, id) \in 1..Len(C) /\ C[At(C, id)].id = id
      /\ \A j \in 1..Len(T) : T[j].id \in IdsOf(T)
      /\ \A id \in IdsOf(T) : At(T, id) \in 1..Len(T)
  BY KeyFact, InstanceFact DEF Lists
<1>2. \A id \in IdsOf(C) : At(C, id) <= Len(C)
  BY <1>1
<1>3. \A id \in IdsOf(T) : At(T, id) > 0
  BY <1>1
<1>4. ASSUME NEW k \in 1..Len(s)
      PROVE  /\ s[k].id \in IdsOf(C) /\ s[k].id \in IdsOf(T)
             /\ At(T, s[k].id) > 0 /\ s[k] = T[At(T, s[k].id)]
  BY <1>2, <1>3 DEF Altering
<1>5. ASSUME NEW q \in 1..Len(T), T[q].id \in IdsOf(C) PROVE T[q].id \in IdsOf(s)
  BY <1>1, <1>5 DEF Altering
<1>6. Sorted(C, s, 0)
  BY DEF Altering
<1>7. 0 <= Len(s) /\ 0 + 1 = 1 /\ 1..0 = {}
  BY <1>1
<1> QED
  BY <1>4, <1>5, <1>6, <1>7 DEF Placing

\* Position p of the target is the next one to be placed.
Awaits(C, T, i, p, s) ==
  /\ Lists(C, T) /\ i \in Nat /\ p = i + 1 /\ p \in 1..Len(T)
  /\ s \in Seq(Instance) /\ Unique(s) /\ Placing(C, T, i, s)

\* What is known then; in particular the instances that are still to be placed stand at p
\* or behind it.
LEMMA AwaitsFact ==
  ASSUME NEW C, NEW T, NEW i, NEW p, NEW s, Awaits(C, T, i, p, s)
  PROVE  /\ i \in Nat /\ p = i + 1 /\ p \in 1..Len(T) /\ i <= Len(s)
         /\ \A k \in 1..i : s[k] = T[k]
         /\ \A k \in p..Len(s) :
              /\ s[k].id \in IdsOf(C) /\ s[k].id \in IdsOf(T)
              /\ At(T, s[k].id) \in p..Len(T) /\ s[k] = T[At(T, s[k].id)]
         /\ \A q \in p..Len(T) : T[q].id \in IdsOf(C) => T[q].id \in IdsOf(s)
         /\ \A k, l \in p..Len(s) : k < l => At(C, s[k].id) < At(C, s[l].id)
         /\ \A h \in 1..Len(s), q \in p..Len(T) : s[h].id = T[q].id => h \in p..Len(s)
<1>1. /\ i \in Nat /\ p = i + 1 /\ p \in 1..Len(T) /\ i <= Len(s)
      /\ \A k \in 1..i : s[k] = T[k]
      /\ \A k \in p..Len(s) :
              /\ s[k].id \in IdsOf(C) /\ s[k].id \in IdsOf(T)
              /\ At(T, s[k].id) > i /\ s[k] = T[At(T, s[k].id)]
      /\ \A q \in p..Len(T) : T[q].id \in IdsOf(C) => T[q].id \in IdsOf(s)
      /\ \A k, l \in p..Len(s) : k < l => At(C, s[k].id) < At(C, s[l].id)
  BY DEF Awaits, Placing, Sorted
<1>2. /\ Len(T) \in Nat /\ Len(s) \in Nat
      /\ \A j \in 1..Len(T) : At(T, T[j].id) = j
      /\ \A id \in IdsOf(T) : At(T, id) \in 1..Len(T)
  BY KeyFact, InstanceFact DEF Awaits, Lists
<1>3. ASSUME NEW k \in p..Len(s) PROVE At(T, s[k].id) \in p..Len(T)
  BY <1>1, <1>2
<1>4. ASSUME NEW h \in 1..Len(s), NEW q \in p..Len(T), s[h].id = T[q].id PROVE h \in p..Len(s)
  <2>1. CASE h \in 1..i
    <3>1. h \in 1..Len(T) /\ q \in 1..Len(T) /\ h # q
      BY <1>1, <1>2, <2>1
    <3>2. T[h].id = T[q].id
      BY <1>1, <1>4, <2>1
    <3> QED
      BY <1>2, <3>1, <3>2
  <2>2. CASE h \notin 1..i
    BY <1>1, <1>2, <2>2
  <2> QED
    BY <2>1, <2>2
<1> QED
  BY <1>1, <1>3, <1>4

\* The instance that belongs on p is in diff_data exactly if C had it, as in the target.
LEMMA KeyAwaited ==
  ASSUME NEW C, NEW T, NEW i, NEW p, NEW s, Awaits(C, T, i, p, s)
  PROVE  /\ T[p].id \in IdsOf(s) <=> T[p].id \in IdsOf(C)
         /\ T[p].id \in IdsOf(s) => At(s, T[p].id) \in p..Len(s) /\ s[At(s, T[p].id)] = T[p]
<1> DEFINE e == T[p]
           k == At(s, e.id)
<1>1. /\ p \in 1..Len(T)
      /\ \A h \in p..Len(s) : s[h].id \in IdsOf(C) /\ s[h] = T[At(T, s[h].id)]
      /\ \A q \in p..Len(T) : T[q].id \in IdsOf(C) => T[q].id \in IdsOf(s)
      /\ \A h \in 1..Len(s), q \in p..Len(T) : s[h].id = T[q].id => h \in p..Len(s)
  BY AwaitsFact
<1>2. /\ Len(T) \in Nat /\ \A j \in 1..Len(T) : At(T, T[j].id) = j
      /\ \A id \in IdsOf(s) : At(s, id) \in 1..Len(s) /\ s[At(s, id)].id = id
  BY KeyFact DEF Awaits, Lists
<1>3. p \in p..Len(T)
  BY <1>1, <1>2
<1>4. ASSUME e.id \in IdsOf(s) PROVE k \in p..Len(s) /\ s[k] = e /\ e.id \in IdsOf(C)
  <2>1. k \in 1..Len(s) /\ s[k].id = e.id
    BY <1>2, <1>4
  <2> HIDE DEF k
  <2>2. k \in p..Len(s)
    BY <1>1, <1>3, <2>1
  <2> QED
    BY <1>1, <1>2, <2>1, <2>2
<1> QED
  BY <1>1, <1>3, <1>4

\* InPlace looks at C and the target only, and it says whether the instance is on p now.
LEMMA InPlaceFact ==
  ASSUME NEW C, NEW T, NEW i, NEW p, NEW s, Awaits(C, T, i, p, s)
  PROVE  InPlace(C, T, p) <=> T[p].id \in IdsOf(s) /\ At(s, T[p].id) = p
<1> DEFINE e == T[p]
           k == At(s, e.id)
<1>1. /\ i \in Nat /\ p = i + 1 /\ p \in 1..Len(T)
      /\ \A h \in p..Len(s) :
              /\ s[h].id \in IdsOf(C) /\ s[h].id \in IdsOf(T)
              /\ At(T, s[h].id) \in p..Len(T) /\ s[h] = T[At(T, s[h].id)]
      /\ \A q \in p..Len(T) : T[q].id \in IdsOf(C) => T[q].id \in IdsOf(s)
      /\ \A h, l \in p..Len(s) : h < l => At(C, s[h].id) < At(C, s[l].id)
      /\ \A h \in 1..Len(s), q \in p..Len(T) : s[h].id = T[q].id => h \in p..Len(s)
  BY AwaitsFact
<1>2. /\ Len(T) \in Nat /\ Len(s) \in Nat
      /\ \A j \in 1..Len(T) : At(T, T[j].id) = j
      /\ \A j \in 1..Len(s) : At(s, s[j].id) = j
      /\ \A id \in IdsOf(s) : At(s, id) \in 1..Len(s) /\ s[At(s, id)].id = id
      /\ \A id \in IdsOf(C) : At(C, id) \in 1..Len(C)
      /\ Len(C) \in Nat
  BY KeyFact DEF Awaits, Lists
<1>3. /\ e.id \in IdsOf(s) <=> e.id \in IdsOf(C)
      /\ e.id \in IdsOf(s) => k \in p..Len(s) /\ s[k] = e
  BY KeyAwaited
<1> HIDE DEF k
<1>4. ASSUME InPlace(C, T, p) PROVE e.id \in IdsOf(s) /\ k = p
  <2>1. e.id \in IdsOf(C) /\ k \in p..Len(s) /\ s[k] = e
    BY <1>3, <1>4 DEF InPlace
  <2>2. CASE k > p
    <3> DEFINE r == At(T, s[p].id)
    <3>0. p \in p..Len(s) /\ p \in 1..Len(s) /\ k \in 1..Len(s)
      BY <1>1, <1>2, <2>1
    <3>1. r \in p..Len(T) /\ s[p] = T[r] /\ s[p].id \in IdsOf(C)
      BY <1>1, <3>0
    <3>2. s[p].id # e.id
      BY <1>2, <2>1, <2>2, <3>0
    <3>3. r # p
      BY <3>1, <3>2
    <3> HIDE DEF r
    <3>4. r \in (p + 1)..Len(T)
      BY <1>1, <1>2, <3>1, <3>3
    <3>5. At(C, e.id) < At(C, s[p].id)
      BY <1>4, <3>1, <3>4 DEF InPlace
    <3>6. At(C, s[p].id) < At(C, e.id)
      BY <1>1, <2>1, <2>2, <3>0
    <3>7. At(C, e.id) \in 1..Len(C) /\ At(C, s[p].id) \in 1..Len(C)
      BY <1>2, <2>1, <3>1
    <3> QED
      BY <1>2, <3>5, <3>6, <3>7
  <2> QED
    BY <1>1, <1>2, <1>3, <2>1, <2>2
<1>5. ASSUME e.id \in IdsOf(s), k = p PROVE InPlace(C, T, p)
  <2>1. e.id \in IdsOf(C) /\ p \in p..Len(s) /\ s[p] = e
    BY <1>3, <1>5
  <2>2. ASSUME NEW q \in (p + 1)..Len(T), T[q].id \in IdsOf(C)
        PROVE  At(C, e.id) < At(C, T[q].id)
    <3> DEFINE l == At(s, T[q].id)
    <3>1. q \in p..Len(T) /\ q \in 1..Len(T) /\ q # p
      BY <1>1, <1>2
    <3>2. l \in 1..Len(s) /\ s[l].id = T[q].id
      BY <1>1, <1>2, <2>2, <3>1
    <3> HIDE DEF l
    <3>3. l \in p..Len(s)
      BY <1>1, <3>1, <3>2
    <3>4. l # p
      BY <1>1, <1>2, <2>1, <3>1, <3>2
    <3>5. p < l
      BY <1>1, <1>2, <3>3, <3>4
    <3> QED
      BY <1>1, <2>1, <3>2, <3>3, <3>5
  <2> QED
    BY <2>1, <2>2 DEF InPlace
<1> QED
  BY <1>4, <1>5 DEF k

\* The instance on the position before is in diff_data, and the position behind it is p.
LEMMA AfterFact ==
  ASSUME NEW C, NEW T, NEW i, NEW p, NEW s, Awaits(C, T, i, p, s)
  PROVE  LET after == IF p = 1 THEN First ELSE T[p - 1].id
         IN  /\ Position(s, after) = p /\ p \in 1..(Len(s) + 1)
             /\ after # First => after \in IdsOf(s)
<1> DEFINE after == IF p = 1 THEN First ELSE T[p - 1].id
<1>1. /\ i \in Nat /\ p = i + 1 /\ i <= Len(s) /\ \A k \in 1..i : s[k] = T[k]
  BY AwaitsFact
<1>2. /\ Len(s) \in Nat
      /\ \A j \in 1..Len(s) : s[j].id \in IdsOf(s) /\ At(s, s[j].id) = j /\ s[j].id \in Ids
  BY KeyFact, InstanceFact DEF Awaits
<1>3. p \in 1..(Len(s) + 1)
  BY <1>1, <1>2
<1>4. CASE p = 1
  BY <1>3, <1>4 DEF Position
<1>5. CASE p # 1
  <2>1. p - 1 \in 1..i /\ p - 1 \in 1..Len(s)
    BY <1>1, <1>2, <1>5
  <2>2. after = s[p - 1].id /\ after \in IdsOf(s) /\ At(s, after) = p - 1 /\ after \in Ids
    BY <1>1, <1>2, <1>5, <2>1
  <2>3. after # First
    BY <2>2, StoreAssumption DEF First, Ids
  <2> HIDE DEF after
  <2>4. Position(s, after) = p
    BY <1>1, <2>2, <2>3 DEF Position
  <2> QED
    BY <1>3, <2>2, <2>4 DEF after
<1> QED
  BY <1>4, <1>5

-----------------------------------------------------------------------------
(* Filling it *)

\* An instance that is on its position needs no node.
LEMMA KeepAdvances ==
  ASSUME NEW s \in Seq(Instance), Unique(s), NEW p \in 1..Len(s)
  PROVE  Advances(s, s, p, s[p])
<1>1. Len(s) \in Nat
  BY InstanceFact
<1>2. \A j \in (p + 1)..Len(s) : j \in p..Len(s)
  BY <1>1
<1> QED
  BY <1>2 DEF Advances

\* A move to the front puts its instance on p and keeps the order of the others.
LEMMA MoveAdvances ==
  ASSUME NEW s, NEW j, NEW p, MoveArgs(s, j, p)
  PROVE  Advances(s, MovedTo(s, j, p), p, s[j])
<1> DEFINE u == MovedTo(s, j, p)
           n == Len(s)
           g(i) == IF i <= j THEN i - 1 ELSE i
<1>1. /\ s \in Seq(Instance) /\ n \in Nat /\ j \in 1..n /\ p \in 1..n /\ p < j
  BY InstanceFact DEF MoveArgs
<1>2. /\ u \in Seq(Instance) /\ Unique(u) /\ Len(u) = n
      /\ \A i \in 1..(p - 1) : u[i] = s[i]
      /\ u[p] = s[j]
      /\ \A i \in (p + 1)..j : u[i] = s[i - 1]
      /\ \A i \in (j + 1)..n : u[i] = s[i]
  BY MoveData
<1> HIDE DEF u, n
<1>3. ASSUME NEW i \in (p + 1)..n PROVE g(i) \in p..n /\ u[i] = s[g(i)]
  <2>1. CASE i <= j
    <3>1. i \in (p + 1)..j /\ i - 1 \in p..n
      BY <1>1, <2>1
    <3> QED
      BY <1>2, <2>1, <3>1
  <2>2. CASE ~(i <= j)
    <3>1. i \in (j + 1)..n /\ i \in p..n
      BY <1>1, <2>2
    <3> QED
      BY <1>2, <2>2, <3>1
  <2> QED
    BY <2>1, <2>2
<1>4. \A i, l \in (p + 1)..n : i < l => g(i) < g(l)
  BY <1>1
<1> HIDE DEF g
<1>5. ASSUME NEW i \in (p + 1)..n, NEW l \in (p + 1)..n, i < l
      PROVE  \E a, b \in p..n : a < b /\ u[i] = s[a] /\ u[l] = s[b]
  BY <1>3, <1>4, <1>5
<1>6. ASSUME NEW id \in IdsOf(s) PROVE id \in IdsOf(u)
  <2>1. PICK h \in 1..n : s[h].id = id
    BY <1>1, IdsFact DEF n
  <2>2. \E l \in 1..n : u[l] = s[h]
    <3>1. CASE h < p
      BY <1>1, <1>2, <3>1
    <3>2. CASE h >= p /\ h < j
      <4>1. h + 1 \in (p + 1)..j /\ h + 1 \in 1..n /\ (h + 1) - 1 = h
        BY <1>1, <3>2
      <4> QED
        BY <1>2, <4>1
    <3>3. CASE h = j
      BY <1>1, <1>2, <3>3
    <3>4. CASE h > j
      BY <1>1, <1>2, <3>4
    <3> QED
      BY <1>1, <3>1, <3>2, <3>3, <3>4
  <2>3. PICK l \in 1..n : u[l] = s[h]
    BY <2>2
  <2> QED
    BY <1>2, <2>1, <2>3, IdsFact
<1>7. p \in 1..Len(u)
  BY <1>1, <1>2
<1>8. \A i \in (p + 1)..Len(u) : \E h \in p..n : u[i] = s[h]
  BY <1>2, <1>3
<1>9. \A i, l \in (p + 1)..Len(u) : i < l =>
        \E a, b \in p..n : a < b /\ u[i] = s[a] /\ u[l] = s[b]
  BY <1>2, <1>5
<1> QED
  BY <1>2, <1>6, <1>7, <1>8, <1>9, Zenon DEF Advances, u, n

\* So does the insertion of a new instance.
LEMMA InsertAdvances ==
  ASSUME NEW s \in Seq(Instance), Unique(s), NEW x \in Instance, x.id \notin IdsOf(s),
         NEW p \in 1..(Len(s) + 1)
  PROVE  Advances(s, InsertAt(s, p, x), p, x)
<1> DEFINE u == InsertAt(s, p, x)
           n == Len(s)
<1>0. n \in Nat /\ p \in 1..(n + 1)
  BY InstanceFact
<1>1. u \in Seq(Instance) /\ Unique(u)
  BY InsertData
<1>2. Insertable(Instance, s, p, x)
  BY DEF Insertable
<1>3. /\ Len(u) = n + 1
      /\ \A j \in 1..(p - 1) : u[j] = s[j]
      /\ u[p] = x
      /\ \A j \in (p + 1)..(n + 1) : u[j] = s[j - 1]
  BY <1>2, InsertAtFact
<1> HIDE DEF u, n
<1>4. \A i \in (p + 1)..Len(u) : i - 1 \in p..n /\ u[i] = s[i - 1]
  BY <1>0, <1>3
<1>5. ASSUME NEW i \in (p + 1)..Len(u), NEW l \in (p + 1)..Len(u), i < l
      PROVE  \E a, b \in p..n : a < b /\ u[i] = s[a] /\ u[l] = s[b]
  <2>1. i - 1 < l - 1
    BY <1>0, <1>5
  <2> QED
    BY <1>4, <2>1
<1>6. ASSUME NEW id \in IdsOf(s) PROVE id \in IdsOf(u)
  <2>1. PICK h \in 1..n : s[h].id = id
    BY IdsFact DEF n
  <2>2. \E l \in 1..Len(u) : u[l] = s[h]
    <3>1. CASE h < p
      BY <1>0, <1>3, <3>1
    <3>2. CASE h >= p
      <4>1. h + 1 \in (p + 1)..(n + 1) /\ h + 1 \in 1..Len(u) /\ (h + 1) - 1 = h
        BY <1>0, <1>3, <3>2
      <4> QED
        BY <1>3, <4>1
    <3> QED
      BY <1>0, <3>1, <3>2
  <2>3. PICK l \in 1..Len(u) : u[l] = s[h]
    BY <2>2
  <2> QED
    BY <1>1, <2>1, <2>3, IdsFact
<1>7. p \in 1..Len(u)
  BY <1>0, <1>3
<1>8. \A i \in (p + 1)..Len(u) : \E h \in p..n : u[i] = s[h]
  BY <1>4
<1> QED
  BY <1>1, <1>3, <1>5, <1>6, <1>7, <1>8, Zenon DEF Advances, u, n

-----------------------------------------------------------------------------
(* The places of the diff *)

\* The places of the diff that have a node, and the node.
LEMMA DiffFact ==
  ASSUME NEW C, NEW T, Len(C) \in Nat, Len(T) \in Nat
  PROVE  LET D == Diff(C, T)
             n == Len(C)
         IN  /\ \A i \in DOMAIN D : i \in 1..(n + Len(T))
             /\ \A i \in 1..n : /\ i \in DOMAIN D <=> Altered(C[i], T)
                                /\ i \in DOMAIN D => D[i] = DeleteOrChange(C[i], T)
             /\ \A i \in (n + 1)..(n + Len(T)) :
                    /\ i \in DOMAIN D <=> ~InPlace(C, T, i - n)
                    /\ i \in DOMAIN D => D[i] = CreateOrMove(C, T, i - n)
<1> DEFINE D == Diff(C, T)
           n == Len(C)
           m == Len(T)
           first == {i \in 1..n : Altered(C[i], T)}
           then == {i \in (n + 1)..(n + m) : ~InPlace(C, T, i - n)}
           node(i) == IF i <= n THEN DeleteOrChange(C[i], T) ELSE CreateOrMove(C, T, i - n)
<1>1. D = [i \in first \cup then |-> node(i)]
  BY Zenon DEF Diff
<1>2. n \in Nat /\ m \in Nat
  OBVIOUS
<1> HIDE DEF D, n, m
<1>3. DOMAIN D = first \cup then /\ \A i \in first \cup then : D[i] = node(i)
  BY <1>1
<1>4. \A i \in 1..n : i \notin then /\ node(i) = DeleteOrChange(C[i], T)
  BY <1>2
<1>5. \A i \in (n + 1)..(n + m) : i \notin first /\ node(i) = CreateOrMove(C, T, i - n)
  BY <1>2
<1>6. \A i \in DOMAIN D : i \in 1..(n + m)
  BY <1>2, <1>3
<1> HIDE DEF node
<1>7. ASSUME NEW i \in 1..n
      PROVE  /\ i \in DOMAIN D <=> Altered(C[i], T)
             /\ i \in DOMAIN D => D[i] = DeleteOrChange(C[i], T)
  BY <1>3, <1>4
<1>8. ASSUME NEW i \in (n + 1)..(n + m)
      PROVE  /\ i \in DOMAIN D <=> ~InPlace(C, T, i - n)
             /\ i \in DOMAIN D => D[i] = CreateOrMove(C, T, i - n)
  BY <1>3, <1>5
<1> QED
  BY <1>6, <1>7, <1>8 DEF D, n, m

\* Reached, in the first part of the diff.
LEMMA ReachedAlter ==
  ASSUME NEW C, NEW T, Lists(C, T), NEW t \in 0..Len(C),
         NEW s \in Seq(Instance), Unique(s), Altering(C, T, t, s)
  PROVE  Reached(C, T, t, s)
<1>1. Len(C) \in Nat
  BY InstanceFact DEF Lists
<1>2. CASE t = Len(C)
  <2>1. Placing(C, T, 0, s)
    BY <1>2, TurnFact
  <2>2. t - Len(C) = 0
    BY <1>1, <1>2
  <2> QED
    BY <2>1, <2>2 DEF Reached
<1>3. CASE t # Len(C)
  <2>1. ~(t >= Len(C))
    BY <1>1, <1>3
  <2> QED
    BY <2>1 DEF Reached
<1> QED
  BY <1>2, <1>3

\* Reached, in the second part.
LEMMA ReachedPlace ==
  ASSUME NEW C, NEW T, Lists(C, T), NEW p \in Nat, p > 0, NEW t, t = Len(C) + p,
         NEW s \in Seq(Instance), Unique(s), Placing(C, T, p, s)
  PROVE  Reached(C, T, t, s)
<1>1. Len(C) \in Nat
  BY InstanceFact DEF Lists
<1>2. t - Len(C) = p /\ ~(t <= Len(C))
  BY <1>1
<1> QED
  BY <1>2 DEF Reached

\* Place i of the diff is next.
Comes(C, T, i, s) == Lists(C, T) /\ i \in 1..(Len(C) + Len(T)) /\ Reached(C, T, i - 1, s)

\* It stands for an instance of C or for a position of the target.
LEMMA ComesFact ==
  ASSUME NEW C, NEW T, NEW i, NEW s, Comes(C, T, i, s)
  PROVE  /\ Lists(C, T) /\ Len(C) \in Nat /\ Len(T) \in Nat /\ i \in Nat
         /\ s \in Seq(Instance) /\ Unique(s)
         /\ \/ i \in 1..Len(C) /\ i - 1 \in Nat /\ i = (i - 1) + 1 /\ Altering(C, T, i - 1, s)
            \/ /\ i \in (Len(C) + 1)..(Len(C) + Len(T))
               /\ i - Len(C) \in 1..Len(T) /\ i = Len(C) + (i - Len(C))
               /\ Awaits(C, T, (i - Len(C)) - 1, i - Len(C), s)
<1>1. /\ Lists(C, T) /\ Len(C) \in Nat /\ Len(T) \in Nat /\ i \in 1..(Len(C) + Len(T))
      /\ s \in Seq(Instance) /\ Unique(s) /\ Reached(C, T, i - 1, s)
  BY InstanceFact DEF Comes, Lists, Reached
<1>2. CASE i <= Len(C)
  <2>1. i \in 1..Len(C) /\ i - 1 \in Nat /\ i = (i - 1) + 1 /\ i - 1 <= Len(C)
    BY <1>1, <1>2
  <2>2. Altering(C, T, i - 1, s)
    BY <1>1, <2>1 DEF Reached
  <2> QED
    BY <1>1, <2>1, <2>2
<1>3. CASE ~(i <= Len(C))
  <2>1. /\ i \in (Len(C) + 1)..(Len(C) + Len(T)) /\ i - Len(C) \in 1..Len(T)
        /\ i = Len(C) + (i - Len(C)) /\ i - 1 >= Len(C)
        /\ (i - Len(C)) - 1 \in Nat /\ i - Len(C) = ((i - Len(C)) - 1) + 1
        /\ (i - 1) - Len(C) = (i - Len(C)) - 1
    BY <1>1, <1>3
  <2>2. Placing(C, T, (i - Len(C)) - 1, s)
    BY <1>1, <2>1 DEF Reached
  <2>3. Awaits(C, T, (i - Len(C)) - 1, i - Len(C), s)
    BY <1>1, <2>1, <2>2 DEF Awaits
  <2> QED
    BY <1>1, <2>1, <2>3
<1> QED
  BY <1>2, <1>3

\* Settling the instance of C gets behind place i.
LEMMA ReachedAlterNext ==
  ASSUME NEW C, NEW T, NEW i, NEW s, Comes(C, T, i, s), i \in 1..Len(C),
         NEW u \in Seq(Instance), Unique(u), Settles(T, C[i], s, u), Altering(C, T, i - 1, s)
  PROVE  Reached(C, T, i, u)
<1>1. Lists(C, T) /\ Len(C) \in Nat /\ i - 1 \in Nat /\ i = (i - 1) + 1 /\ i \in 0..Len(C)
  BY ComesFact
<1>2. Altering(C, T, i, u)
  BY <1>1, AlterStep
<1> QED
  BY <1>1, <1>2, ReachedAlter

\* Filling the position of the target gets behind its place.
LEMMA ReachedPlaceNext ==
  ASSUME NEW C, NEW T, NEW p, NEW s, Awaits(C, T, p - 1, p, s),
         NEW u, Advances(s, u, p, T[p]), NEW i, i = Len(C) + p
  PROVE  Reached(C, T, i, u)
<1>1. Lists(C, T) /\ p - 1 \in Nat /\ p = (p - 1) + 1 /\ p \in 1..Len(T) /\ Placing(C, T, p - 1, s)
  BY DEF Awaits
<1>2. Len(s) \in Nat /\ u \in Seq(Instance) /\ Unique(u)
  BY InstanceFact DEF Awaits, Advances
<1>3. Placing(C, T, p, u)
  BY <1>1, <1>2, PlaceStep
<1>4. p \in Nat /\ p > 0
  BY <1>1
<1> QED
  BY <1>1, <1>2, <1>3, <1>4, ReachedPlace

\* A place without a node is passed without a step.
LEMMA ReachedKeep ==
  ASSUME NEW C, NEW T, NEW i, NEW s, Comes(C, T, i, s), i \notin DOMAIN Diff(C, T)
  PROVE  Reached(C, T, i, s)
<1>0. Len(C) \in Nat /\ Len(T) \in Nat /\ s \in Seq(Instance) /\ Unique(s) /\ Lists(C, T)
  BY ComesFact
<1>1. CASE i \in 1..Len(C) /\ i - 1 \in Nat /\ i = (i - 1) + 1 /\ Altering(C, T, i - 1, s)
  <2>1. ~Altered(C[i], T)
    BY <1>0, <1>1, DiffFact
  <2>2. \A h \in 1..Len(s) : s[h].id = C[i].id => s[h] = C[i]
    BY <1>0, <1>1, AlterHas
  <2>3. Settles(T, C[i], s, s)
    BY <1>0, <2>1, <2>2, KeepSettles
  <2> QED
    BY <1>0, <1>1, <2>3, ReachedAlterNext
<1>2. CASE /\ i \in (Len(C) + 1)..(Len(C) + Len(T))
           /\ i - Len(C) \in 1..Len(T) /\ i = Len(C) + (i - Len(C))
           /\ Awaits(C, T, (i - Len(C)) - 1, i - Len(C), s)
  <2> DEFINE p == i - Len(C)
  <2>1. InPlace(C, T, p)
    BY <1>0, <1>2, DiffFact
  <2>2. Awaits(C, T, p - 1, p, s) /\ i = Len(C) + p
    BY <1>2
  <2> HIDE DEF p
  <2>3. T[p].id \in IdsOf(s) /\ At(s, T[p].id) = p
    BY <2>1, <2>2, InPlaceFact
  <2>4. p \in p..Len(s) /\ s[p] = T[p]
    BY <2>2, <2>3, KeyAwaited
  <2>5. p \in 1..Len(s)
    BY <1>0, <2>3, KeyFact
  <2>6. Advances(s, s, p, T[p])
    BY <1>0, <2>4, <2>5, KeepAdvances
  <2> QED
    BY <2>2, <2>6, ReachedPlaceNext
<1> QED
  BY <1>1, <1>2, ComesFact

-----------------------------------------------------------------------------
(* The nodes of the diff *)

\* The node d applies to s: what DiffApplies says of the next node.
Fits(d, s) ==
  /\ d.op \in {"delete", "change", "insert", "move"} /\ d.id \in Ids
  /\ d.op = "insert" <=> d.id \notin IdsOf(s)
  /\ d.op \in {"change", "insert"} => d.label \in Labels /\ d.val \in Values
  /\ d.op \in {"insert", "move"} /\ d.after # First => d.after \in IdsOf(s)
  /\ d.op = "move" => Position(s, d.after) < At(s, d.id)

\* diff_data after the node d.
Result(d, s) ==
  CASE d.op = "delete" -> RemoveAt(s, At(s, d.id))
    [] d.op = "change" -> Updated(s, At(s, d.id), d.label, d.val)
    [] d.op = "insert" -> Place(s, [id |-> d.id, label |-> d.label, val |-> d.val], d.after)
    [] d.op = "move" -> Place(RemoveAt(s, At(s, d.id)), s[At(s, d.id)], d.after)

\* By operation.
LEMMA ResultFact ==
  ASSUME NEW d, NEW s
  PROVE  /\ d.op = "delete" => Result(d, s) = RemoveAt(s, At(s, d.id))
         /\ d.op = "change" => Result(d, s) = Updated(s, At(s, d.id), d.label, d.val)
         /\ d.op = "insert" =>
              Result(d, s) = Place(s, [id |-> d.id, label |-> d.label, val |-> d.val], d.after)
         /\ d.op = "move" =>
              Result(d, s) = Place(RemoveAt(s, At(s, d.id)), s[At(s, d.id)], d.after)
  BY DEF Result

\* A node for an instance of C applies, and gets behind its place.
LEMMA AlterNode ==
  ASSUME NEW C, NEW T, NEW i, NEW s, Comes(C, T, i, s), i \in 1..Len(C), Altering(C, T, i - 1, s),
         NEW d, d = DeleteOrChange(C[i], T)
  PROVE  Fits(d, s) /\ Reached(C, T, i, Result(d, s))
<1> DEFINE c == C[i]
           k == At(s, c.id)
<1>1. /\ Lists(C, T) /\ s \in Seq(Instance) /\ Unique(s) /\ C \in Seq(Instance) /\ T \in Seq(Instance)
      /\ i - 1 \in Nat /\ i = (i - 1) + 1 /\ c.id \in Ids
  BY ComesFact, InstanceFact DEF Lists
<1>2. c.id \in IdsOf(s)
  BY <1>1, AlterHas
<1>3. k \in 1..Len(s)
  BY <1>1, <1>2, KeyFact
<1>4. CASE c.id \notin IdsOf(T)
  <2>1. d.op = "delete" /\ d.id = c.id
    BY <1>4 DEF DeleteOrChange
  <2>2. Fits(d, s)
    BY <1>1, <1>2, <2>1 DEF Fits
  <2>3. Result(d, s) = RemoveAt(s, k)
    BY <2>1, ResultFact
  <2>4. RemoveAt(s, k) \in Seq(Instance) /\ Unique(RemoveAt(s, k))
    BY <1>1, <1>3, RemoveData
  <2>5. Settles(T, c, s, RemoveAt(s, k))
    BY <1>1, <1>2, <1>4, DeleteSettles
  <2>6. Reached(C, T, i, RemoveAt(s, k))
    BY <2>4, <2>5, ReachedAlterNext
  <2> QED
    BY <2>2, <2>3, <2>6
<1>5. CASE c.id \in IdsOf(T)
  <2> DEFINE new == T[At(T, c.id)]
             u == Updated(s, k, new.label, new.val)
  <2>1. d.op = "change" /\ d.id = c.id /\ d.label = new.label /\ d.val = new.val
    BY <1>5 DEF DeleteOrChange
  <2>2. /\ Settles(T, c, s, u) /\ u \in Seq(Instance) /\ Unique(u)
        /\ new.label \in Labels /\ new.val \in Values
    BY <1>1, <1>2, <1>5, ChangeSettles
  <2>3. Fits(d, s)
    BY <1>1, <1>2, <2>1, <2>2 DEF Fits
  <2>4. Result(d, s) = u
    BY <2>1, ResultFact
  <2>5. Reached(C, T, i, u)
    BY <2>2, ReachedAlterNext
  <2> QED
    BY <2>3, <2>4, <2>5
<1> QED
  BY <1>4, <1>5

\* Taking the moved instance out does not change the position behind its anchor.
LEMMA MovePlace ==
  ASSUME NEW s, NEW j, NEW after, NEW p, MoveArgs(s, j, p), p = Position(s, after),
         after # First => after \in IdsOf(s)
  PROVE  Place(RemoveAt(s, j), s[j], after) = MovedTo(s, j, p)
<1>0. s \in Seq(Instance) /\ Unique(s) /\ j \in 1..Len(s) /\ p < j /\ Len(s) \in Nat
  BY InstanceFact DEF MoveArgs
<1>1. Position(RemoveAt(s, j), after) = p
  <2>1. CASE after = First
    BY <2>1 DEF Position
  <2>2. CASE after # First
    <3> DEFINE i == At(s, after)
    <3>1. i \in 1..Len(s) /\ s[i].id = after
      BY <1>0, <2>2, AtFact
    <3>2. p = i + 1
      BY <2>2 DEF Position
    <3> HIDE DEF i
    <3>3. i < j
      BY ONLY <1>0, <3>1, <3>2
    <3>4. At(RemoveAt(s, j), s[i].id) = i
      BY <1>0, <3>1, <3>3, RemoveData
    <3> QED
      BY <2>2, <3>1, <3>2, <3>4 DEF Position
  <2> QED
    BY <2>1, <2>2
<1> QED
  BY <1>1 DEF Place, MovedTo

\* A node for a position of the target applies, and gets behind its place: a move is
\* towards the front because the instance is not on its position yet.
LEMMA PlaceNode ==
  ASSUME NEW C, NEW T, NEW p, NEW s, Awaits(C, T, p - 1, p, s), ~InPlace(C, T, p),
         NEW i, i = Len(C) + p, NEW d, d = CreateOrMove(C, T, p)
  PROVE  Fits(d, s) /\ Reached(C, T, i, Result(d, s))
<1> DEFINE e == T[p]
           after == IF p = 1 THEN First ELSE T[p - 1].id
           k == At(s, e.id)
<1>1. /\ s \in Seq(Instance) /\ Unique(s) /\ p \in 1..Len(T) /\ Len(s) \in Nat
      /\ e \in Instance /\ e.id \in Ids /\ e.label \in Labels /\ e.val \in Values
  BY InstanceFact DEF Awaits, Lists
<1>2. /\ Position(s, after) = p /\ p \in 1..(Len(s) + 1)
      /\ after # First => after \in IdsOf(s)
  BY AfterFact
<1>3. /\ e.id \in IdsOf(s) <=> e.id \in IdsOf(C)
      /\ e.id \in IdsOf(s) => k \in p..Len(s) /\ s[k] = e
  BY KeyAwaited
<1>4. ~(e.id \in IdsOf(s) /\ k = p)
  BY InPlaceFact
<1> HIDE DEF after
<1>5. CASE e.id \in IdsOf(C)
  <2>1. d.op = "move" /\ d.id = e.id /\ d.after = after
    BY <1>5 DEF CreateOrMove, after
  <2>2. e.id \in IdsOf(s) /\ k \in p..Len(s) /\ s[k] = e /\ k # p
    BY <1>3, <1>4, <1>5
  <2>3. Result(d, s) = Place(RemoveAt(s, k), s[k], after)
    BY <2>1, ResultFact
  <2>4. k \in 1..Len(s) /\ p \in 1..Len(s) /\ p < k
    <3> HIDE DEF k
    <3> QED
      BY <1>1, <1>2, <2>2
  <2>5. MoveArgs(s, k, p)
    BY <1>1, <2>4 DEF MoveArgs
  <2>6. Place(RemoveAt(s, k), s[k], after) = MovedTo(s, k, p)
    BY <1>2, <2>5, MovePlace
  <2>7. Advances(s, MovedTo(s, k, p), p, e)
    BY <2>2, <2>5, MoveAdvances
  <2>8. Reached(C, T, i, MovedTo(s, k, p))
    BY <2>7, ReachedPlaceNext
  <2>9. Fits(d, s)
    BY <1>1, <1>2, <2>1, <2>2, <2>4 DEF Fits
  <2> QED
    BY <2>3, <2>6, <2>8, <2>9
<1>6. CASE e.id \notin IdsOf(C)
  <2>1. /\ d.op = "insert" /\ d.id = e.id /\ d.after = after
        /\ d.label = e.label /\ d.val = e.val
    BY <1>6 DEF CreateOrMove, after
  <2>2. e.id \notin IdsOf(s)
    BY <1>3, <1>6
  <2>3. [id |-> d.id, label |-> d.label, val |-> d.val] = e
    BY <1>1, <2>1 DEF Instance
  <2>4. Result(d, s) = InsertAt(s, p, e)
    BY <1>2, <2>1, <2>3, ResultFact DEF Place
  <2>5. Advances(s, InsertAt(s, p, e), p, e)
    BY <1>1, <1>2, <2>2, InsertAdvances
  <2>6. Reached(C, T, i, InsertAt(s, p, e))
    BY <2>5, ReachedPlaceNext
  <2>7. Fits(d, s)
    BY <1>1, <1>2, <2>1, <2>2 DEF Fits
  <2> QED
    BY <2>4, <2>6, <2>7
<1> QED
  BY <1>5, <1>6

\* Every node of the diff applies where it is due, and gets behind its place.
LEMMA ReachedNode ==
  ASSUME NEW C, NEW T, NEW i, NEW s, Comes(C, T, i, s), i \in DOMAIN Diff(C, T)
  PROVE  Fits(Diff(C, T)[i], s) /\ Reached(C, T, i, Result(Diff(C, T)[i], s))
<1>0. Len(C) \in Nat /\ Len(T) \in Nat
  BY ComesFact
<1>1. CASE i \in 1..Len(C) /\ i - 1 \in Nat /\ i = (i - 1) + 1 /\ Altering(C, T, i - 1, s)
  <2>1. Diff(C, T)[i] = DeleteOrChange(C[i], T)
    BY <1>0, <1>1, DiffFact
  <2> QED
    BY <1>1, <2>1, AlterNode
<1>2. CASE /\ i \in (Len(C) + 1)..(Len(C) + Len(T))
           /\ i - Len(C) \in 1..Len(T) /\ i = Len(C) + (i - Len(C))
           /\ Awaits(C, T, (i - Len(C)) - 1, i - Len(C), s)
  <2>1. ~InPlace(C, T, i - Len(C)) /\ Diff(C, T)[i] = CreateOrMove(C, T, i - Len(C))
    BY <1>0, <1>2, DiffFact
  <2> QED
    BY <1>2, <2>1, PlaceNode
<1> QED
  BY <1>1, <1>2, ComesFact

-----------------------------------------------------------------------------
(* Steps *)

\* Any number of places without a node are passed without a step.
LEMMA SkipTo ==
  ASSUME NEW C, NEW T, Lists(C, T), NEW t \in Nat, NEW r \in Nat, t <= r, r <= Len(C) + Len(T),
         \A x \in (t + 1)..r : x \notin DOMAIN Diff(C, T),
         NEW s, Reached(C, T, t, s)
  PROVE  Reached(C, T, r, s)
<1>0. Len(C) \in Nat /\ Len(T) \in Nat
  BY InstanceFact DEF Lists
<1> DEFINE W == {x \in t..r : ~Reached(C, T, x, s)}
<1>1. CASE W = {}
  <2>1. r \in t..r
    OBVIOUS
  <2> QED
    BY <1>1, <2>1
<1>2. CASE W # {}
  <2>1. W \in SUBSET Nat
    OBVIOUS
  <2>2. PICK x \in W : \A y \in W : x <= y
    <3> HIDE DEF W
    <3> QED
      BY <1>2, <2>1, NatMin
  <2>3. x \in t..r /\ ~Reached(C, T, x, s) /\ x # t
    OBVIOUS
  <2>4. x - 1 \in t..r /\ ~(x <= x - 1) /\ x \in (t + 1)..r /\ x \in 1..(Len(C) + Len(T))
    BY <1>0, <2>3
  <2>5. Reached(C, T, x - 1, s)
    BY <2>2, <2>4
  <2>6. Comes(C, T, x, s)
    BY <2>4, <2>5 DEF Comes
  <2>7. x \notin DOMAIN Diff(C, T)
    BY <2>4
  <2> QED
    BY <2>3, <2>6, <2>7, ReachedKeep
<1> QED
  BY <1>1, <1>2

\* The next node is the one of the next place that has one.
LEMMA NextPlace ==
  ASSUME NEW C, NEW t \in Nat, Progress(C, t), DOMAIN diff # {}
  PROVE  \E m \in Nat : /\ m <= Len(C) + Len(target)
                        /\ m \in DOMAIN Diff(C, target) /\ Comes(C, target, m, data)
                        /\ NextNode = Diff(C, target)[m]
                        /\ Rest = After(Diff(C, target), m)
<1> DEFINE D == Diff(C, target)
           S == {i \in DOMAIN D : i > t}
           N == Len(C) + Len(target)
           m == Min(DOMAIN diff)
<1>0. /\ Len(C) \in Nat /\ Len(target) \in Nat /\ N \in Nat
      /\ Lists(C, target) /\ Reached(C, target, t, data)
  BY InstanceFact DEF Progress, Lists
<1>1. \A i \in DOMAIN D : i \in 1..N
  BY <1>0, DiffFact
<1> HIDE DEF D, N
<1>2. DOMAIN diff = S /\ \A i \in S : diff[i] = D[i]
  BY DEF Progress, After, Restrict, D
<1>3. S \in SUBSET Nat
  BY <1>0, <1>1
<1>4. m \in S /\ \A y \in S : m <= y
  <2> HIDE DEF S
  <2>1. \E x \in S : \A y \in S : x <= y
    BY <1>2, <1>3, NatMin
  <2> QED
    BY <1>2, <2>1, Zenon DEF Min
<1> HIDE DEF m
<1>5. m \in DOMAIN D /\ m > t /\ m \in 1..N /\ m \in Nat
  BY <1>0, <1>1, <1>4
<1>6. ASSUME NEW x \in (t + 1)..(m - 1) PROVE x \notin DOMAIN D
  <2>1. x > t /\ ~(m <= x)
    BY <1>5
  <2> QED
    BY <1>4, <2>1
<1>7. Reached(C, target, m - 1, data)
  <2>1. m - 1 \in Nat /\ t <= m - 1 /\ m - 1 <= N
    BY <1>0, <1>5
  <2> QED
    BY <1>0, <1>6, <2>1, SkipTo DEF D, N
<1>8. Comes(C, target, m, data)
  BY <1>0, <1>5, <1>7 DEF Comes, N
<1>9. NextNode = D[m]
  BY <1>2, <1>4 DEF NextNode, m
<1>10. Rest = After(D, m)
  <2>1. Rest = [i \in S \ {m} |-> diff[i]]
    BY <1>2 DEF Rest, Restrict, m
  <2>2. After(D, m) = [i \in {i \in DOMAIN D : i > m} |-> D[i]]
    BY DEF After, Restrict
  <2>3. S \ {m} = {i \in DOMAIN D : i > m}
    <3>1. \A i \in DOMAIN D : i \in S \ {m} <=> i > m
      <4> SUFFICES ASSUME NEW i \in DOMAIN D PROVE i \in S \ {m} <=> i > m
        OBVIOUS
      <4>1. i \in Nat
        BY <1>0, <1>1
      <4>2. i \in S => m <= i
        BY <1>4
      <4>3. i \in S <=> i > t
        OBVIOUS
      <4> HIDE DEF S
      <4> QED
        BY <1>5, <4>1, <4>2, <4>3
    <3> QED
      BY <3>1
  <2>4. \A i \in S \ {m} : diff[i] = D[i]
    BY <1>2
  <2> HIDE DEF S
  <2> QED
    BY <2>1, <2>2, <2>3, <2>4
<1> QED
  BY <1>5, <1>8, <1>9, <1>10 DEF D, N

\* When no place is left diff_data is the target.
LEMMA DoneFact ==
  ASSUME NEW C, NEW t \in Nat, Progress(C, t), DOMAIN diff = {}
  PROVE  data = target
<1> DEFINE D == Diff(C, target)
           n == Len(C)
           m == Len(target)
<1>0. /\ n \in Nat /\ m \in Nat /\ t <= n + m /\ n + m \in Nat
      /\ Lists(C, target) /\ Reached(C, target, t, data)
      /\ target \in Seq(Instance) /\ Unique(target)
  BY InstanceFact DEF Progress, Lists
<1>1. DOMAIN diff = {i \in DOMAIN D : i > t}
  BY DEF Progress, After, Restrict
<1> HIDE DEF D
<1>2. ASSUME NEW x \in (t + 1)..(n + m) PROVE x \notin DOMAIN D
  <2>1. x > t
    BY <1>0
  <2> QED
    BY <1>1, <2>1
<1>3. Reached(C, target, n + m, data)
  BY <1>0, <1>2, SkipTo DEF D
<1>4. n + m >= n /\ (n + m) - n = m
  BY <1>0
<1> HIDE DEF n, m
<1>5. Placing(C, target, m, data) /\ data \in Seq(Instance)
  BY <1>3, <1>4 DEF Reached, n
<1>6. Len(data) \in Nat /\ m <= Len(data) /\ \A k \in 1..m : data[k] = target[k]
  BY <1>5, InstanceFact DEF Placing
<1>7. ~(m < Len(data))
  <2> SUFFICES ASSUME m < Len(data) PROVE FALSE
    OBVIOUS
  <2>1. m + 1 \in (m + 1)..Len(data)
    BY <1>0, <1>6
  <2>2. data[m + 1].id \in IdsOf(target) /\ At(target, data[m + 1].id) > m
    BY <1>5, <2>1 DEF Placing
  <2>3. At(target, data[m + 1].id) \in 1..m
    BY <1>0, <2>2, KeyFact DEF m
  <2> QED
    BY <1>0, <2>2, <2>3
<1>8. Len(data) = m
  BY <1>0, <1>6, <1>7
<1> QED
  BY <1>0, <1>5, <1>6, <1>8 DEF m

\* A step goes on to the place of its node, or fails and stays.
LEMMA AppliedProgress ==
  ASSUME NEW C, NEW t \in Nat, Progress(C, t), DOMAIN diff # {},
         NEW ok, NEW tree, NEW risky, Applied(ok, tree, Result(NextNode, data), risky)
  PROVE  \E r \in Nat : Progress(C, r)'
<1>1. CASE ok
  <2>1. PICK m \in Nat : /\ m <= Len(C) + Len(target)
                         /\ m \in DOMAIN Diff(C, target) /\ Comes(C, target, m, data)
                         /\ NextNode = Diff(C, target)[m]
                         /\ Rest = After(Diff(C, target), m)
    BY NextPlace
  <2>2. Reached(C, target, m, Result(NextNode, data))
    BY <2>1, ReachedNode
  <2>3. data' = Result(NextNode, data) /\ diff' = Rest /\ target' = target
    BY <1>1 DEF Applied
  <2>4. Lists(C, target)
    BY DEF Progress
  <2>5. Progress(C, m)'
    BY <2>1, <2>2, <2>3, <2>4 DEF Progress
  <2> QED
    BY <2>5
<1>2. CASE ~ok
  <2>1. data' = data /\ diff' = diff /\ target' = target
    BY <1>2 DEF Applied
  <2>2. Progress(C, t)'
    BY <2>1 DEF Progress
  <2> QED
    BY <2>2
<1> QED
  BY <1>1, <1>2

\* All four actions do with diff_data what Result says.
LEMMA ActionApplies ==
  ASSUME Next
  PROVE  /\ DOMAIN diff # {}
         /\ \E ok, tree, risky : Applied(ok, tree, Result(NextNode, data), risky)
<1>1. CASE Delete
  <2>1. DOMAIN diff # {} /\ NextNode.op = "delete"
    BY <1>1 DEF Delete, Node1
  <2>2. Result(NextNode, data) = RemoveAt(data, At(data, NextNode.id))
    BY <2>1, ResultFact
  <2>3. \E ok, tree, risky : Applied(ok, tree, RemoveAt(data, At(data, NextNode.id)), risky)
    BY <1>1, Zenon DEF Delete
  <2> QED
    BY <2>1, <2>2, <2>3
<1>2. CASE Change
  <2> DEFINE d == NextNode
  <2>1. DOMAIN diff # {} /\ d.op = "change"
    BY <1>2 DEF Change, Node1
  <2>2. Result(d, data) = Updated(data, At(data, d.id), d.label, d.val)
    BY <2>1, ResultFact
  <2>3. \E ok, tree, risky : Applied(ok, tree, Updated(data, At(data, d.id), d.label, d.val), risky)
    BY <1>2, Zenon DEF Change, Updated
  <2> QED
    BY <2>1, <2>2, <2>3
<1>3. CASE Insert
  <2> DEFINE d == NextNode
             u == Place(data, [id |-> d.id, label |-> d.label, val |-> d.val], d.after)
  <2>1. DOMAIN diff # {} /\ d.op = "insert"
    BY <1>3 DEF Insert, Node1
  <2>2. Result(d, data) = u
    BY <2>1, ResultFact
  <2>3. \E ok, tree, risky : Applied(ok, tree, u, risky)
    BY <1>3, Zenon DEF Insert
  <2> QED
    BY <2>1, <2>2, <2>3
<1>4. CASE Move
  <2> DEFINE d == NextNode
             u == Place(RemoveAt(data, At(data, d.id)), data[At(data, d.id)], d.after)
  <2>1. DOMAIN diff # {} /\ d.op = "move"
    BY <1>4 DEF Move, Node1
  <2>2. Result(d, data) = u
    BY <2>1, ResultFact
  <2>3. \E ok, tree, risky : Applied(ok, tree, u, risky)
    BY <1>4, Zenon DEF Move
  <2> QED
    BY <2>1, <2>2, <2>3
<1> QED
  BY <1>1, <1>2, <1>3, <1>4 DEF Next

\* The keys of what is stored are unique.
LEMMA StoredUnique ==
  ASSUME NEW cur, NEW s \in Stored(cur)
  PROVE  Unique(s)
<1> DEFINE Version(id) == {inst \in Instance :
                             /\ inst.id = id
                             /\ inst.val \in (IF id \in IdsOf(cur) THEN {id, id + MaxId} ELSE {id})}
           Orders == UNION {{ids \in [1..n -> Ids] : IsInjective(ids)} : n \in 0..MaxLen + 1}
           All == UNION {Version(id) : id \in Ids}
<1>1. s \in UNION {{trg \in [DOMAIN ids -> All] :
                      \A i \in DOMAIN ids : trg[i].id = ids[i]} : ids \in Orders}
  BY Zenon DEF Stored
<1> HIDE DEF All
<1>2. PICK ids \in Orders : s \in [DOMAIN ids -> All] /\ \A i \in DOMAIN ids : s[i].id = ids[i]
  BY <1>1
<1>3. PICK n \in 0..MaxLen + 1 : ids \in [1..n -> Ids] /\ IsInjective(ids)
  OBVIOUS
<1>4. n \in Nat /\ DOMAIN ids = 1..n /\ DOMAIN s = 1..n
  BY <1>2, <1>3, StoreAssumption
<1>5. Len(s) = n
  BY <1>4, StoredFact
<1>6. \A i, j \in 1..n : ids[i] = ids[j] => i = j
  BY <1>3, <1>4 DEF IsInjective
<1> QED
  BY <1>2, <1>4, <1>5, <1>6 DEF Unique

\* The store begins before the first place.
LEMMA StartFact == Init => DInv
<1> SUFFICES ASSUME Init PROVE DInv
  OBVIOUS
<1> DEFINE C == data
           D == Diff(C, target)
<1>1. /\ C \in Loaded /\ C \in Seq(Instance) /\ Unique(C)
      /\ target \in Seq(Instance) /\ Unique(target) /\ diff = D
  BY LoadedFact, StoredFact, StoredUnique DEF Init
<1>2. Lists(C, target) /\ Len(C) \in Nat /\ Len(target) \in Nat
  BY <1>1, InstanceFact DEF Lists
<1>3. Altering(C, target, 0, C)
  <2>1. \A k \in 1..Len(C) : C[k].id \in IdsOf(C) /\ At(C, C[k].id) = k /\ k > 0 /\ ~(k <= 0)
    BY <1>1, <1>2, KeyFact
  <2>2. Sorted(C, C, 0)
    BY <1>2, <2>1 DEF Sorted
  <2> QED
    BY <2>1, <2>2 DEF Altering
<1>4. Reached(C, target, 0, C)
  <2>1. 0 \in 0..Len(C)
    BY <1>2
  <2> QED
    BY <1>1, <1>2, <1>3, <2>1, ReachedAlter
<1>5. diff = After(D, 0)
  <2>1. \A i \in DOMAIN D : i > 0
    <3>1. \A i \in DOMAIN D : i \in 1..(Len(C) + Len(target))
      BY <1>2, DiffFact
    <3> QED
      BY <1>2, <3>1
  <2>2. D = [i \in DOMAIN D |-> D[i]]
    BY Zenon DEF Diff
  <2> HIDE DEF D
  <2>3. {i \in DOMAIN D : i > 0} = DOMAIN D
    BY <2>1
  <2> QED
    BY <1>1, <2>2, <2>3 DEF After, Restrict
<1>6. 0 <= Len(C) + Len(target)
  BY <1>2
<1>7. Progress(C, 0)
  BY <1>2, <1>4, <1>5, <1>6 DEF Progress
<1> QED
  BY <1>1, <1>7 DEF DInv

\* Every step keeps the invariant.
LEMMA GoesOn == DInv /\ [Next]_vars => DInv'
<1> SUFFICES ASSUME DInv, [Next]_vars PROVE DInv'
  OBVIOUS
<1>1. PICK C \in Loaded : \E t \in Nat : Progress(C, t)
  BY DEF DInv
<1>2. PICK t \in Nat : Progress(C, t)
  BY <1>1
<1>3. CASE Next
  <2>1. DOMAIN diff # {} /\ \E ok, tree, risky : Applied(ok, tree, Result(NextNode, data), risky)
    BY <1>3, ActionApplies
  <2>2. PICK ok, tree, risky : Applied(ok, tree, Result(NextNode, data), risky)
    BY <2>1
  <2>3. \E r \in Nat : Progress(C, r)'
    BY <1>2, <2>1, <2>2, AppliedProgress
  <2> QED
    BY <2>3 DEF DInv
<1>4. CASE UNCHANGED vars
  <2>1. data' = data /\ diff' = diff /\ target' = target
    BY <1>4 DEF vars
  <2>2. Progress(C, t)'
    BY <1>2, <2>1 DEF Progress
  <2> QED
    BY <2>2 DEF DInv
<1> QED
  BY <1>3, <1>4

\* So there always is such a place.
LEMMA DiffInductive == Spec => []DInv
  BY StartFact, GoesOn, PTL DEF Spec

\* For files of any length and any data to be stored: each node of libyang's diff applies to
\* diff_data as augds_store_diff_data_update left it after the nodes before. The instance it
\* deletes, changes or moves and the anchor that augds_store_find_anchor looks for are there,
\* an inserted key is new, and a move is towards the front.
THEOREM DiffAlwaysApplies == Spec => []DiffApplies
<1>1. DInv => DiffApplies
  <2> SUFFICES ASSUME DInv, DOMAIN diff # {} PROVE Fits(NextNode, data)
    BY DEF DiffApplies, Fits
  <2>1. PICK C \in Loaded : \E t \in Nat : Progress(C, t)
    BY DEF DInv
  <2>2. PICK t \in Nat : Progress(C, t)
    BY <2>1
  <2>3. PICK m \in Nat : /\ m \in DOMAIN Diff(C, target) /\ Comes(C, target, m, data)
                         /\ NextNode = Diff(C, target)[m]
    BY <2>2, NextPlace
  <2> QED
    BY <2>3, ReachedNode
<1> QED
  BY <1>1, DiffInductive, PTL

\* For files of any length and any data to be stored: once augds_store_diff_r has processed
\* all nodes of the diff, diff_data is the data to be stored.
THEOREM DataArrives == Spec => []DataReachesTarget
<1>1. DInv => DataReachesTarget
  BY DoneFact DEF DInv, DataReachesTarget
<1> QED
  BY <1>1, DiffInductive, PTL

-----------------------------------------------------------------------------
(* The theorems of AugStore_proofs, for the diff as it is *)

\* With it the invariant of AugStore_proofs holds without a condition on the diff.
LEMMA StoreInductive == Spec => []IInv
  BY DiffAlwaysApplies, Inductive, PTL

\* The two trees stay trees of nodes and instances, however the moves went: augds_store_diff_r
\* never leaves the types.
THEOREM StoreTypeCorrect == Spec => []TypeOK
<1>1. IInv => TypeOK
  BY DEF IInv
<1> QED
  BY <1>1, StoreInductive, PTL

\* For files of any length and labels: the Augeas tree shows diff_data after every node that
\* augds_store_diff_r processed, until it makes a move that MoveSafe does not cover.
THEOREM TreeFollowsData == Spec => []MirrorWhileSafe
<1>1. IInv => MirrorWhileSafe
  <2>1. ASSUME IInv, ~unsafe PROVE Mirror
    BY <2>1, StateFact, ShowsIsImage DEF Mirror
  <2> QED
    BY <2>1 DEF MirrorWhileSafe
<1> QED
  BY <1>1, StoreInductive, PTL

\* For files of any length and labels: every path handed to Augeas names an existing node,
\* after safe and unsafe moves alike. So a wrong move is never reported: the store goes on
\* with the wrong node.
THEOREM StoreNeverFails == Spec => []PathsExist
<1>1. IInv => PathsExist
  BY DEF IInv, Counted, PathsExist
<1> QED
  BY <1>1, StoreInductive, PTL

\* What the store is for: if all moves were safe, the Augeas tree shows the stored data when
\* augds_store_diff_r has processed the whole diff, and no call of Augeas has failed.
THEOREM StoreReaches == Spec => [](DOMAIN diff = {} /\ ~unsafe => aug = Image(target) /\ rc = "ok")
<1>1. MirrorWhileSafe /\ PathsExist /\ DataReachesTarget =>
        (DOMAIN diff = {} /\ ~unsafe => aug = Image(target) /\ rc = "ok")
  BY DEF MirrorWhileSafe, Mirror, PathsExist, DataReachesTarget
<1> QED
  BY <1>1, TreeFollowsData, StoreNeverFails, DataArrives, PTL
=============================================================================
