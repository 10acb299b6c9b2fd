------------------------------- MODULE AugStore -------------------------------
(***************************************************************************)
(* augds_store_diff_r: applying a YANG diff to the Augeas tree of one      *)
(* configuration file.                                                     *)
(*                                                                         *)
(* The file is one implicit user-ordered list (key "_id"): each list       *)
(* instance holds one node whose label is the Augeas label and that has a  *)
(* value.  Augeas knows no keys: it addresses a node by its label and its  *)
(* index among the siblings with the same label.  The plugin keeps         *)
(* diff_data, the YANG data with the part of the diff applied so far, only *)
(* to compute these indices, so every index is right only as long as       *)
(* diff_data and the Augeas tree agree.                                    *)
(*                                                                         *)
(* The labels are those that have an index.  A sequential label (a number, *)
(* type uint64) is the only one of its kind and gets none, so index 1      *)
(* stands for it, except in a move: augds_store_diff_path_next_idx asserts *)
(* that the path ends in an index.  Such moves are left out.               *)
(*                                                                         *)
(* One step processes one list instance of the diff.                       *)
(***************************************************************************)
EXTENDS Naturals, Sequences, FiniteSets, SequencesExt

CONSTANTS
    Labels,       \* Augeas labels
    MaxLen,       \* bound: instances in the loaded file
    MaxId,        \* bound: keys, the ones above MaxLen are for new instances
    NoValue       \* value of a node that was just inserted

ASSUME StoreAssumption ==
    /\ MaxLen \in Nat /\ MaxId \in Nat /\ MaxLen <= MaxId
    /\ NoValue \notin Nat

VARIABLES
    aug,      \* Augeas nodes of the file, in order
    data,     \* diff_data, the instances in order
    diff,     \* rest of the diff: its nodes by their place in it
    target,   \* mod_data, the instances to be stored
    rc,       \* return code
    unsafe    \* history: a move was made that MoveSafe does not cover

vars == <<aug, data, diff, target, rc, unsafe>>

Ids       == 1..MaxId
Values    == 1..(2 * MaxId)
Node      == [label : Labels, val : Values \cup {NoValue}]
Instance  == [id : Ids, label : Labels, val : Values]
First     == 0  \* in place of a key: the instance is put first

TypeOK ==
    /\ aug \in Seq(Node)
    /\ data \in Seq(Instance)
    /\ target \in Seq(Instance)
    /\ rc \in {"ok", "err"}
    /\ unsafe \in BOOLEAN

IdsOf(s)    == {s[i].id : i \in DOMAIN s}
At(s, id)   == CHOOSE i \in DOMAIN s : s[i].id = id
Image(s)    == [i \in DOMAIN s |-> [label |-> s[i].label, val |-> s[i].val]]

-----------------------------------------------------------------------------
(* libyang: the diff of a user-ordered list *)

\* The instances that are gone and, for those that stay, their changes.
Altered(inst, trg) == inst.id \in IdsOf(trg) => trg[At(trg, inst.id)] # inst

DeleteOrChange(inst, trg) ==
    IF inst.id \notin IdsOf(trg) THEN [op |-> "delete", id |-> inst.id]
    ELSE LET new == trg[At(trg, inst.id)]
         IN  [op |-> "change", id |-> inst.id, label |-> new.label, val |-> new.val]

\* Then position by position.  The instances that stay and are not placed yet
\* keep their order, so the one that belongs on position p is there already if
\* no later one of the target stood before it.
InPlace(cur, trg, p) ==
    /\ trg[p].id \in IdsOf(cur)
    /\ \A q \in (p + 1)..Len(trg) :
          trg[q].id \in IdsOf(cur) => At(cur, trg[p].id) < At(cur, trg[q].id)

\* Any other is created or moved there, after the instance on the position before.
CreateOrMove(cur, trg, p) ==
    LET new   == trg[p]
        after == IF p = 1 THEN First ELSE trg[p - 1].id
    IN  IF new.id \in IdsOf(cur) THEN [op |-> "move", id |-> new.id, after |-> after]
        ELSE [op |-> "insert", id |-> new.id, after |-> after,
              label |-> new.label, val |-> new.val]

\* lyd_diff_siblings: the nodes in the order of their places.
Diff(cur, trg) ==
    LET n     == Len(cur)
        first == {i \in 1..n : Altered(cur[i], trg)}
        then  == {i \in (n + 1)..(n + Len(trg)) : ~InPlace(cur, trg, i - n)}
    IN  [i \in first \cup then |-> IF i <= n THEN DeleteOrChange(cur[i], trg)
                                             ELSE CreateOrMove(cur, trg, i - n)]

-----------------------------------------------------------------------------
(* Augeas: operations on nodes addressed by label and index *)

\* Position of label[idx], 0 if there is no such node.
Find(s, label, idx) ==
    LET At1 == {k \in DOMAIN s : /\ s[k].label = label
                                 /\ Cardinality({j \in 1..k : s[j].label = label}) = idx}
    IN  IF At1 = {} THEN 0 ELSE CHOOSE k \in At1 : TRUE

aug_insert(s, k, label, before) ==
    InsertAt(s, IF before THEN k ELSE k + 1, [label |-> label, val |-> NoValue])

aug_set(s, label, idx, val) ==
    LET k == Find(s, label, idx)
    IN  IF k = 0 THEN Append(s, [label |-> label, val |-> val])
                 ELSE [s EXCEPT ![k].val = val]

\* The source node replaces what the destination holds.
aug_mv(s, label, from, to) ==
    LET dst == Find(s, label, to)
        src == Find(s, label, from)
    IN  IF dst = 0 THEN Append(RemoveAt(s, src), s[src])
                   ELSE RemoveAt([s EXCEPT ![dst].val = s[src].val], src)

-----------------------------------------------------------------------------
(* The plugin: diff_data and the paths generated from it *)

\* Mutant: preceding nodes are counted whatever their label.
LabelIndexAny(s, k) == k

\* augds_store_label_index: one more than the preceding nodes with that label,
\* for labels that are not sequential.
LabelIndex(s, k) == Cardinality({j \in 1..k : s[j].label = s[k].label})

\* Mutant: an instance is put before the one it is to follow.
PlaceBefore(s, inst, after) ==
    InsertAt(s, IF after = First THEN 1 ELSE At(s, after), inst)

\* Mutant: the anchor is not looked for.
PlaceLast(s, inst, after) == Append(s, inst)

\* augds_store_find_anchor: the position behind the instance to follow.
Position(s, after) == IF after = First THEN 1 ELSE At(s, after) + 1

\* The insertion into diff_data.
Place(s, inst, after) ==
    InsertAt(s, Position(s, after), inst)

\* augds_store_anchor: the previous instance, else the next one.
AnchorOf(k) == IF k > 1 THEN k - 1 ELSE k + 1

\* Mutant: the index counts the new node, which Augeas does not have yet.
AnchorIndexCounted(s, k) == LabelIndex(s, AnchorOf(k))

\* augds_store_diff_insert_anchor_path: the index of the anchor in the tree that
\* does not have the new node yet.
AnchorIndex(s, k) ==
    LET a == AnchorOf(k)
    IN  IF k = 1 /\ s[a].label = s[k].label THEN LabelIndex(s, k) ELSE LabelIndex(s, a)

AnchorPos(s, k) == Find(aug, s[AnchorOf(k)].label, AnchorIndex(s, k))

\* augds_store_move_direction: from the keys, not from the positions.
MovedBack(s, k) == s[k].id > s[AnchorOf(k)].id

-----------------------------------------------------------------------------
(* Behaviours *)

\* Loading numbers the instances 1, 2, ... in the order of the file.
Loaded == UNION {{[i \in 1..n |-> [id |-> i, label |-> ls[i], val |-> i]] :
                     ls \in [1..n -> Labels]} : n \in 0..MaxLen}

\* What a client may store: any instances in any order, the loaded ones as they
\* were or changed, new ones with the keys that are left.
Stored(cur) ==
    LET Version(id) == {inst \in Instance :
                          /\ inst.id = id
                          /\ inst.val \in (IF id \in IdsOf(cur) THEN {id, id + MaxId} ELSE {id})}
        Orders      == UNION {{ids \in [1..n -> Ids] : IsInjective(ids)} : n \in 0..MaxLen + 1}
    IN  UNION {{trg \in [DOMAIN ids -> UNION {Version(id) : id \in Ids}] :
                   \A i \in DOMAIN ids : trg[i].id = ids[i]} : ids \in Orders}

\* An instance that is both changed and moved is left out: whether libyang makes
\* one diff node or two of it is not visible in this code.
Separate(d) == \A i, j \in DOMAIN d : i # j => d[i].id # d[j].id

Init ==
    /\ data \in Loaded
    /\ aug = Image(data)
    /\ target \in Stored(data)
    /\ diff = Diff(data, target)
    /\ Separate(diff)
    /\ rc = "ok"
    /\ unsafe = FALSE

\* The node of the diff that is processed next, and those after it.
NextNode == diff[Min(DOMAIN diff)]
Rest     == Restrict(diff, DOMAIN diff \ {Min(DOMAIN diff)})

Node1(op) == DOMAIN diff # {} /\ rc = "ok" /\ NextNode.op = op

\* The diff node is applied to the tree if the paths it needs are there; a path
\* that is not there ends the store with an error.
Applied(ok, tree, upd, risky) ==
    /\ aug' = IF ok THEN tree ELSE aug
    /\ data' = IF ok THEN upd ELSE data
    /\ diff' = IF ok THEN Rest ELSE diff
    /\ rc' = IF ok THEN "ok" ELSE "err"
    /\ unsafe' = (unsafe \/ risky)
    /\ UNCHANGED target

\* AUGDS_OP_DELETE: the path is generated before diff_data is updated.
Delete ==
    /\ Node1("delete")
    /\ LET k   == At(data, NextNode.id)
           pos == Find(aug, data[k].label, LabelIndex(data, k))
       IN  Applied(pos # 0, RemoveAt(aug, pos), RemoveAt(data, k), FALSE)

\* Mutant: the new value goes to the label in diff_data.
ChangeMixed ==
    /\ Node1("change")
    /\ LET k == At(data, NextNode.id)
       IN  Applied(TRUE, aug, [data EXCEPT ![k].label = NextNode.val], FALSE)

\* AUGDS_OP_RENAME from the path before the update to the label after it, then
\* the value (apply #2) on the path after the update.
Change ==
    /\ Node1("change")
    /\ LET d    == NextNode
           k    == At(data, d.id)
           pos  == Find(aug, data[k].label, LabelIndex(data, k))
           upd  == [data EXCEPT ![k].label = d.label, ![k].val = d.val]
           ren  == [aug EXCEPT ![pos].label = d.label]
           set  == IF d.val = data[k].val THEN ren
                   ELSE aug_set(ren, d.label, LabelIndex(upd, k), d.val)
       IN  Applied(pos # 0, set, upd, FALSE)

\* AUGDS_OP_INSERT: diff_data first, then the label at the anchor, then the value.
Insert ==
    /\ Node1("insert")
    /\ LET d    == NextNode
           upd  == Place(data, [id |-> d.id, label |-> d.label, val |-> d.val], d.after)
           k    == At(upd, d.id)
           only == Len(upd) = 1
           pos  == AnchorPos(upd, k)
           ins  == IF only THEN aug ELSE aug_insert(aug, pos, d.label, k = 1)
       IN  Applied(only \/ pos # 0, aug_set(ins, d.label, LabelIndex(upd, k), d.val), upd, FALSE)

\* A move from position j to k in front of it keeps the indices right if it
\* passes no node with the same label and the keys tell its direction.
MoveSafe(j, upd, k) ==
    /\ \A i \in k..(j - 1) : data[i].label # data[j].label
    /\ MovedBack(upd, k)

\* AUGDS_OP_REPLACE of the list, AUGDS_OP_MOVE of the node in it: the label is
\* inserted at the anchor and the node moved there from the next index.
Move ==
    /\ Node1("move")
    /\ LET d     == NextNode
           j     == At(data, d.id)
           upd   == Place(RemoveAt(data, j), data[j], d.after)
           k     == At(upd, d.id)
           idx   == LabelIndex(upd, k)
           pos   == AnchorPos(upd, k)
           ins   == aug_insert(aug, pos, upd[k].label, k = 1)
           from  == IF MovedBack(upd, k) THEN idx + 1 ELSE idx
           to    == IF MovedBack(upd, k) THEN idx ELSE idx + 1
       IN  Applied(pos # 0 /\ Find(ins, upd[k].label, from) # 0,
                   aug_mv(ins, upd[k].label, from, to), upd, ~MoveSafe(j, upd, k))

Next == Delete \/ Change \/ Insert \/ Move

Spec == Init /\ [][Next]_vars

-----------------------------------------------------------------------------
(* Properties *)

\* The Augeas tree holds the instances of diff_data in their order, so that the
\* indices computed from diff_data name the nodes they are meant for.
Mirror == aug = Image(data)

\* This is so after every step as long as all moves were safe ones.
MirrorWhileSafe == unsafe \/ Mirror

\* Every path the store hands to Augeas names an existing node (aug_rm,
\* aug_insert, aug_rename and aug_mv do not fail), whatever was moved before.
PathsExist == rc = "ok"

\* The node of the diff that is next applies to diff_data as the nodes before
\* it have left it: an instance it deletes, changes or moves is there, one it
\* inserts is not, the instance it is put after is there, and a move is towards
\* the front.
DiffApplies ==
    DOMAIN diff # {} /\ rc = "ok" =>
        LET d == NextNode
        IN  /\ d.op \in {"delete", "change", "insert", "move"} /\ d.id \in Ids
            /\ d.op = "insert" <=> d.id \notin IdsOf(data)
            /\ d.op \in {"change", "insert"} => d.label \in Labels /\ d.val \in Values
            /\ d.op \in {"insert", "move"} /\ d.after # First => d.after \in IdsOf(data)
            /\ d.op = "move" => Position(data, d.after) < At(data, d.id)

\* When the diff is used up, diff_data is the data to be stored.
DataReachesTarget == DOMAIN diff = {} /\ rc = "ok" => data = target
=============================================================================
