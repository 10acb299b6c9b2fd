# Verification of sysrepo-augeas

TLA+ models of sysrepo-augeas ("augyang"): YANG access to configuration files through
Augeas lenses. The models are checked with TLC on small instances; the central ones are
proved with TLAPS for every instance.

## The system

| part | source | state | operations |
|---|---|---|---|
| datastore plugin `srds_augeas` | `srds_augeas.c` | one `static struct auginfo` per process (Augeas handle, registered modules, shared uint64 pattern); configuration files and `.augsave` backups on disk | store, recover, load, uninstall, access_set/get/check, last_modif (init, install, copy and the candidate callbacks keep no state) |
| cache of the plugin | `srdsa_init.c`, `srds_augeas.h` | modules with their lens and tree of `augnode`s | `augds_init`, `augds_destroy` |
| storing a diff | `srdsa_store.c` | Augeas tree, `diff_data` | `augds_store_diff_r`: insert, delete, rename, set, move |
| loading | `srdsa_load.c` | YANG data under construction | `augds_aug2yang_augnode_labels_r` and what it calls |
| helpers | `srdsa_common.c` | - | error nodes, config files, copying, owners and permissions |
| runtime plugin `srplgd_augeas` | `srplgd_augeas.c`, `srplgda_common.c` | subscriptions | start, cleanup, one change callback per kind of daemon |
| generator `augyang` | `src/augyang.c`, `terms.c`, `common.c` | tree of `ynode`s made from the lens | the tree transformations of `ay_ynode_transformations` |
| patterns | `src/parse_regex.c` | - | regular expressions of lenses to names and YANG patterns |
| printing | `src/print_yang.c` | - | the finished tree as YANG text |
| `ay_startup`, command line, debug output | `ay_startup.c`, `main.c`, `debug.c` | - | one load and print; options; dumps |

How the parts interact. `augyang` turns a lens into a YANG module once, at build time.
sysrepo calls the datastore plugin for the startup datastore of such a module, from every
process that uses sysrepo, while it holds the lock of the module (shared for load,
exclusive for store and recover, none for the rest). A store loads the
current data, computes a libyang diff, applies it node by node to the Augeas tree and calls
`aug_save`, which puts the file aside as `.augsave` and renames the new text to its place.
If a process dies with the exclusive lock, sysrepo calls `srpds_aug_recover` before
the next use. Around the store sysrepo sends `SR_EV_CHANGE` and then `SR_EV_DONE` or
`SR_EV_ABORT` to `srplgd_augeas`, whose callbacks restart or signal the daemons.

What is hard here:

* crashes and failing calls between the steps of a save and of a recovery;
* several processes with a cache each, external edits, and threads that share one cache;
* cache lifetime: one module's failure or uninstall destroys the cache of all;
* Augeas addresses a node by label and index, so each diff node moves the ground under the
  next one;
* a load walks the file along the schema, takes labels one after the other and never gives one
  back; counters of recursive lists outlive the load;
* the generator edits one array of nodes in some thirty passes; parents and neighbours are
  derived from numbers of descendants, references are identifiers that copies repeat, and each
  pass must announce how many nodes it will insert;
* callbacks that are several commands long, with one thread for all events and daemons that
  act on signals when they please.

What makes each part correct:

* datastore: no content is lost (but to a torn file that parses); success means saved; a save writes what was asked; a load
  reports committed data; a recovery repairs what needs it and nothing else; calls return;
* store: the path computed for a node names that node; at the end the file holds the data;
* runtime plugin: running daemons use what is stored;
* load: what the schema describes is loaded whole and in order, the rest is reported, and the
  generated keys are the same for the same file;
* generator: it ends without a failed assertion; every path of labels of the lens leads to a
  node and no other does; branches of a choice stay together; every `when` and `uses` leads
  somewhere; nothing is mandatory and optional.

## Modules

| module | content |
|---|---|
| `AugDs` | the datastore plugin: disk, caches, running callbacks, crashes, edits |
| `AugDs_proofs` | its inductive invariant and theorems |
| `MCAugDs` + `AugDs_*.cfg` | instances |
| `AugStore` | applying a diff to the Augeas tree of one file |
| `AugStore_proofs` | the tree follows `diff_data`, for files of any length |
| `AugStoreDiff_proofs` | the diff always applies and leads to the target; with it the theorems about the store |
| `MCAugStore` + `AugStore.cfg` | instance |
| `AugLoad` | augnodes from a schema, YANG data from an Augeas tree |
| `MCAugLoad` + `AugLoad.cfg` | schemas and files |
| `SrplgdAugeas` | the runtime plugin, events, daemons |
| `SrplgdAugeas_proofs` | its inductive invariant and theorems |
| `MCSrplgdAugeas` + `SrplgdAugeas.cfg` | instance |
| `AyYnode` | the array of ynodes and its edits |
| `AyTree` | any sequence of these edits |
| `AyPreorder` | lemmas: numbers of descendants as a profile, and what edits do to it |
| `AyTree_proofs` | every edit leaves a tree, for arrays of any length |
| `AyWhen_proofs` | a `when` inside a copied subtree refers into the copy |
| `AyForest` | the abstract specification: edits of an ordered tree |
| `MCAyTree` + `AyTree.cfg` | instance and refinement mapping |
| `AyLnode` | the tree of lenses |
| `AyShape`, `AyMerge`, `AyOrder`, `AyMandatory`, `AyGroup` | the transformations, in the order of the pipeline |
| `Augyang` | the generator: the pipeline as a state machine |
| `MCAugyang` + `Augyang*.cfg` | families of lenses |

Operators marked "Mutant" are wrong versions of the definition that follows them. They show
for each property which mistake in the code it would notice, and no specification uses them.

### AugDs

A file's content is abstracted to a version (`Vals`), `Absent`, `Corrupt` (the lens does not
parse it) or `Partial` (an empty or cut off text that the lens does parse, as most lenses do
with an empty file). `RecoverTruncate` leaves one of the last two in the file, until the copy of the backup is
complete.

* `file`, `backup`: disk. `mods`, `tree`, `dirty`, `pcode`: `auginfo` of a process;
  `tree` is what Augeas has under `/files`, with `Corrupt` for an error node, `dirty` the
  files changed and not saved. `pc`, `op`, `mod`, `new`, `todo`, `cur`, `rc`: the locals of a running
  callback. `dead`: modules whose lock belongs to a dead process.
* history: `last[f]` is the content deliberately given to a file last (by a save, an edit,
  or a recovery's decision to go back to the backup); `edited[t]` the files edited while a
  callback ran.
* One action per system or Augeas call that touches shared state, in the order of the code:
  `InitFound/InitNew/InitFail` (`augds_init`), `LoadOk/LoadFail` (`srpds_aug_load`, which
  store, recover and last_modif call), `NoChange/Apply/ApplyFail` (diff), `Save`,
  `SaveBackup/SavePutFail/SaveWrite/SaveWriteFail`, `SaveEnd` (`aug_save`, file by file),
  `RecoverSkip/Truncate/OpenFail/Copy/CopyFail/Unlink/UnlinkFail/End`, `Return`,
  `Uninstall`, `Crash`, `Edit`. Each kind of failure is a member of `Faults`; "files" is a recovery that cannot list
  the files of the module, "exists" a backup that `augds_file_exists` reports as missing because `access` failed for another
  reason.

Two details that a reader of the code may miss. `augds_check_erraug` looks for any error node
of the handle, so a broken file of one module fails the operations of all modules of that
process. `srpds_aug_last_modif` calls `stat` on `/files/...` (`fs_path` is 0), so it fails for every module that
has a file (`LoadOk`). The comment of `srds_augeas.c` line 196 speaks of removing a corrupted
file; the code leaves it (`RecoverSkip`).

External behaviour assumed: `aug_save` with backups renames the file to `.augsave` and then
the temporary file to the file; a put fails when the original no longer parses, and the
other files are still saved; `aug_load` discards changes that were not saved; sysrepo's
locks and its recovery after a dead writer, as above. The use of a freed pattern is recorded (`"freed"`, `"twice"`) and
otherwise has no effect in the model; a handle closed by another thread in the middle of a
store stops that thread until the process crashes.

### AugStore

The file is one implicit user-ordered list with key `_id`. `Diff` is libyang's diff of a
user-ordered list (external). Each step handles one instance of the diff as
`augds_store_diff_r` does: path from `diff_data` before or after the update, anchor, insert,
move from or to the next index, value. An instance both changed and moved in one diff is left out.
`DiffApplies` states what the code relies on in libyang: the next node of the diff fits
`diff_data` as the nodes before it left it. It is an
invariant of the run and a theorem. `Diff` is written in closed form: what is deleted or changed (`Altered`),
followed by one creation or move for each position of the target that does not have its instance yet.

The labels are the ones that get an index. `augds_store_label_index` gives none to a sequential label (a number of
type uint64, lines 280-283), which is unique among its siblings, so that index 1 stands for it. A move of a node with
such a label meets `assert(ptr)` in line 758, which looks for the index; these moves are not in the model, and
`PathsExist` and `StoreNeverFails` do not speak of them.

### SrplgdAugeas

A callback is a sequence of commands (`aug_..._change_cb`), run one at a time by
the single handler thread. A command that fails ends the callback, except for samba. sysrepo
keeps one event per module, and withdraws it after a timeout (external). `missed` holds the
modules whose last change was lost or handled with a failure; a reader can see from it
exactly when the plugin gives no guarantee: after a failed command, a timeout before the
handler got to the event, a change made while the plugin was down. Commands that rebuild a table (`exportfs`,
`ldconfig`, `netplan`, `sysctl`, `postmap`) are treated as the reload of a daemon that is
"down" if the table is not there. A daemon starts and writes its PID file in one step; the
reuse of a PID by another program is not modelled.

Two things in `Callback` are as in the code and a reader may take them for slips. `postfix_passwordmap` is
subscribed with the table of `access` (lines 580-582), so that a change of the password map rebuilds that table and not its own;
`conf` only says that the command ran after the change. And twelve of the names that `sr_plugin_init_cb` looks for have
a `_` (`pg_hba`, `cron_user`, `postfix_main`, ...), while `augyang` makes modules with `-` in its place (`src/main.c:403`,
`tests/yang_expected/pg-hba.yang`): for a module made by it the plugin then subscribes to nothing, as for `hosts` in the
instance. `postfix_access` in the instance is a module that comes from elsewhere.

### AugLoad

A module is a record of the schema (`kind`, `name`, the extension arguments `data-path` and
`value-yang-path`, key, type, `mandatory`, `when`, children), the trees its files may hold, and
those of them the lens could have made (`lang`). `Augnodes` is `augds_init_auginfo_siblings_r`;
`AugnodeR`, `LabelsR`, `ValueR`, `ListR`, `CaseR` and `RecursiveR` are the functions of
`srdsa_load.c`, each from and to a record of the YANG data made so far, the labels used (with the schema node that took
each), the counters and whether the assertions held. A pattern is the groups of label sets it matches, some of them inverted. `Load` is one
`srpds_aug_load`, `Edit` (external) gives the file another content; `next_idx` is the counter in
the augnode of a recursive list and lives as long as the module is registered.

`RoundTrip` compares with `Unload`, which reads the Augeas tree off the data and the schema and shares
nothing with the walk. `Accounted` is an exact account of the nodes of a file: they are in the data, below a label
the load warned about, or among what the code drops without a word (`Dropped`): the children of a node whose
augnode has none (lines 781-784), and an optional leaf without a value, which makes no data although its label is used
up (94-97, 381). The files of the instance have both.

### AyYnode, AyTree, AyForest

The tree of the generator is an array in preorder; a node has the number of its descendants,
and the pointers `parent`, `child` and `next` are recomputed from these numbers after every edit
(`ay_ynode_tree_correction`). `AyYnode` defines the array and its edits: inserting, deleting,
moving, copying subtrees and exchanging a node with its parent. `AyForest` says what they are
meant to be: six edits of an ordered tree (group, ungroup, cut, move, copy, exchange).
`MCAyTree!Refinement` maps the array to the nested tree (`Nested`) and shows that every edit of
`AyTree` implements one of the six. `TypeOK` of `AyTree` is `TreeOK`: the array is the preorder of
one tree (`WellFormed`), inside its memory, no assertion on that memory failed and no identifier in
use will be handed out again.

### AyLnode to Augyang

A lens is a term; `str` stands for its pattern or string, `ids` for what `parse_regex.c` makes of
the pattern of a key (a regular expression, one name or a list of n names). `CreateLnodes` is
`ay_lnode_create_tree`, `CreateTree` is `ay_ynode_create_tree`.

`Augyang` has the state `lens`, `tree`, `phase` (the transformation that runs) and `i` (the index
of its loop). An action is one iteration of the loop of one transformation, with all its edits of the
array, or `Turn`, which goes to the next transformation, counts the nodes it announces and makes
room for them (`ay_ynode_trans_insert`). A failed assertion, a NULL that would be
followed and a write behind the reserved memory set `ok` to false and end in phase `abort`. The five modules
between define the iterations as operators of the tree and the index:

| module | transformations |
|---|---|
| `AyShape` | implicit lists, types, nodes without a type, doubled lists, uniting choices, labels and values, several keys, cases |
| `AyMerge` | equal cases, merging of cases that start with the same label, useless choices |
| `AyOrder` | list of files, ordered entries, recursive form, leafs for keys and values, dependence on values |
| `AyMandatory` | the five loops of `ay_ynode_tree_set_mandatory`, `when` with `not()` |
| `AyGroup` | copies for recursion, references, groupings, splitting of nodes, order of the groupings |

Two quirks of the code are modelled as they are. `ay_dnode_insert` gives `memmove` a number of
items where bytes are meant (`common.c:298`), so a value for a key that is not the last one overwrites the next key
(`InsertValue`). `ay_ynode_insert_case` reads the value of the root, which is the dictionary of
values (`InsertCase`).

`SameTypes` (the assertion of `ay_ynode_snode_unset_pnode`) is asked of all nodes with a lens; the code asks it of those whose
lens has a name in the source of the module, which the model does not have.

The operators were compared with the compiled `augyang.c` on some thousand random lenses, given to
both as terms: the trees after each transformation, or the failed assertion, were the same, but for a lens on which
that assumption about names matters.

What the properties of the mandatory flags and of the groupings say, and what they do not. When two branches with the same label are
merged and only one has nodes below, the merged node may get `AY_CHILDREN_MAND_FALSE` (line 4245) while one
of its nodes has `AY_HINT_MAND_TRUE` (4234), and `ay_ynode_tree_set_mandatory` then sets both flags (3072, 3090-3091).
`OneMandatory` allows both only where two such hints meet (`ContraryHints`), which happens in the instance. When
splitting copies a subtree with a recursive lens, the copies of its grouping have one identifier. A `uses` finds the first of
them; `GroupingsAgree` says that it makes no difference. The names of groupings are not in the model, and so not whether
the printed module has one of them twice.

## Runs

Passing:

| run | question | instance |
|---|---|---|
| `crash` | `TypeOK`, `LostOnlyToTorn`, `LoadSeesCommitted`, `CallsReturn` | one file, two processes, every call may fail, 3 calls, 2 crashes or edits: a store that dies, a recovery that fails behind `O_TRUNC`, and a store on what it left; no symmetry, because of the liveness |
| `concurrent` | `StoreOkSaved`, `SaveWritesTarget` | two modules with a file each, two processes, 2 calls, 2 upsets: a failed store followed by another module's store in the same cache, or two at once |
| `store` | `MirrorWhileSafe`, `PathsExist`, `DiffApplies`, `DataReachesTarget`, `TypeOK` | every file of up to 3 nodes with 2 labels and every target of up to 4 instances |
| `load` | `RoundTrip`, `Accounted`, `KeysDense`, `TypeOK` | four schemas after those of xendconfsxp (nested arrays by leafref), pg_hba (cases told apart by `when`), automounter (optional nodes before a nested choice) and httpd (recursive sections, an inverted pattern, leafs that may be empty); all small files the lens makes, those with a node left out, moved or repeated, and those with leafs without a value or with nodes below them; loaded, edited, loaded again |
| `tree` | `InnerWhenFollows`, `Refinement`, `TypeOK` | every array of 4 nodes, bare, with a choice (branches as cases or not), with key and value, with a `when`; any two edits; the abstract tree as PROPERTY |
| `generate` | `Asserted`, `PathsKept`, `NoPathInvented`, `ChoiceTogether`, `OneMandatory`, `WhenResolved`, `UsesResolved`, `GroupingsAgree`, `Terminates`, `TypeOK` | 9 kinds of records (leaf, value, alternative values, nodes that depend on a value, pattern, two names, nodes below) and 2 with two keys, each two of them in 10 shapes (neighbours, `lns . (sep . lns)*`, alternatives with and without a common start, with different values of the common start, repeated subtrees, sequences), as entries of a file and below two equal nodes; a pattern with a node that depends on the value, before and behind the others in the same shapes; alternatives with one label of which one has nodes, with and without values, in both orders; 3 recursive lenses, at the top and below a node that is split; 389,699 states |
| `apply` | `Applied`, `Converges`, `TypeOK` | 8 contexts with every kind of callback, two modules sharing a service, a module without callback; 3 commits, 2 upsets |

Deadlock is not checked: the bounds on calls let every system come to rest. Symmetry is used
only in runs without liveness, for versions, processes with their threads and modules with their files.

Violations, each a disagreement of the code with its own comments or assertions:

| run | property | what happens |
|---|---|---|
| `restores` | `RecoverRestores` | after a crash inside `aug_save` the file is missing and the load sees no error, so the backup is not restored; in a fresh process `augds_init` fails on the very file that needs recovery |
| `torn` | `CommittedSurvives` | a recovery dies behind `O_TRUNC`, the lens parses the empty file, the next recovery finds "data are valid, nothing to do", and the next save renames the empty file over the backup |
| `threads` | `StoreOkSaved` | a load of another module in another thread discards the changes between apply and save; the store returns `SR_ERR_OK` |
| `room` | `Asserted` | `ay_ynode_rule_ordered_entries` reserves a list per star, but a record with two keys has cut the run of lists under the star in two: the assertion on the size of the array fails |
| `when` | `WhenResolved` | the children of two equal nodes become a grouping while a `when` among them refers to the value of the node, which stays outside |

TLC shows the shortest violation. `RoomLenses` has two more lenses that violate `Asserted`, each for another reason (taking the
others out of the set shows it). A recursive lens that splitting has copied makes
`ay_ynode_create_groupings_recursive_form` insert a `uses` as the first child of a node; the code then takes the child of that
new node (`augyang.c:5382`), which has none, and follows the NULL in line 5391 (`UsesFrom`). And `ay_ynode_delete_useless_choice` walks
as many nodes from the target on as its parent has descendants (4613): with seven nodes in front of the target the walk ends
behind the memory of the array (`DeleteUselessAt`). In `WhenLenses`, too, another lens violates the property alone: a
record whose node depends on its value, followed by a pattern with the same node.

The violations of `room` and `when` were confirmed with the compiled generator: the assertion, a crash in line 5391, a read
behind the heap block in line 4620, and the `when` references in the finished trees.

What the passing runs assume, because the code does not keep the property without it:

* The passing `AugDs` runs use one thread per process (`threads` shows why). `LostOnlyToTorn` and `LoadSeesCommitted` say exactly what
  is left of the guarantee that `torn` refutes: the content is lost only when a save moves the parsable rest of an
  interrupted recovery over the backup, and until then the backup has it, also while loads report the rest.
* `MirrorWhileSafe` says which moves are right: those that pass no node with the same label
  (otherwise the next index names the wrong node, `srdsa_store.c:937`) and whose
  direction the keys tell (otherwise the node is replaced by the empty new one, line 1053).
* `InnerWhenFollows` asks that the nodes with the identifier of the copied one are true copies of it and that the
  target carries `AY_WHEN_TARGET`. Both are needed. After three edits (copy a subtree in front of itself, delete the target of a
  `when` from that copy, copy the original again) the lookup by identifier may end in the
  edited copy, where the target is not found; the search then ends with the last node and the reference is set to it, as it is
  for a target without the flag. The proof found this; the
  run `tree`, with two edits, does not reach it.
* A recovery overwrites the valid files of a module when another file does not parse, and
  `augds_destroy` keeps the pointer to the freed uint64 pattern. The model does both and no property objects.
* The lenses of `generate` leave out those of `room` and `when`, and those with more than one key with several values in
  the dictionaries.
* `Accounted`, `OneMandatory` and `GroupingsAgree` name the cases in which the code does otherwise, see the modules.

## Fairness

`AugDs`: weak fairness of the steps of each running callback, since a thread that was called runs on.
Calls, crashes and edits need not happen, and a fault may happen every time it can.
`SrplgdAugeas`: weak fairness of the handler thread (sysrepo's subscription thread) and
of daemons acting on a signal. Commits, sysrepo's timeouts and the administrator have none.
`Converges` relies on the bound on commits: when commits end, the daemons catch up.
`Augyang`: the generator is one sequential program that runs until it ends. `Progress` is weak
fairness of `Transform`, written without `ENABLED`: as long as the phase is not an end, steps that change
something go on happening. A pass of `ay_ynode_groupings_ahead` that resolves nothing is such a step, so its
endless loop would be a counterexample of `Terminates`.
`AugStore`, `AugLoad` and `AyTree` have no liveness property.

## Proofs

All theorems hold for every value of the constants that satisfies the named assumptions of the
modules (`ConstantsAssumption`, `StoreAssumption`, `PluginAssumption`, `TreeAssumption`), which TLC evaluates in the runs. What a theorem needs beyond that is a hypothesis of it.

| module | theorem | states | hypotheses |
|---|---|---|---|
| `AugDs_proofs` | `TypeCorrect` | `TypeOK` | - |
| | `StoreWritesOwn` | `SaveWritesTarget` | one thread per process |
| | `StoreDurable` | `StoreOkSaved` | one thread per process |
| | `ContentSurvives` | `LostOnlyToTorn` | one thread per process |
| | `LoadCommitted` | `LoadSeesCommitted` | one thread per process |
| `AugStoreDiff_proofs` | `DiffAlwaysApplies` | `DiffApplies` | - |
| | `DataArrives` | `DataReachesTarget` | - |
| | `StoreTypeCorrect` | `TypeOK` | - |
| | `TreeFollowsData` | `MirrorWhileSafe` | - |
| | `StoreNeverFails` | `PathsExist` | - |
| | `StoreReaches` | at the end of a store without an unsafe move the tree shows the target | - |
| `SrplgdAugeas_proofs` | `PluginTypeCorrect` | `TypeOK` | - |
| | `ChangesApplied` | `Applied` | - |
| `AyTree_proofs` | `TreeTypeCorrect` | `TypeOK` | - |
| `AyWhen_proofs` | `WhenFollows` | `InnerWhenFollows` | - |

None of the properties is inductive by itself.

### AugDs

For any number of threads, processes, modules, files, versions and any bounds. `IInv` is the
conjunction of

* `TypeOK` and `Control` (what `pc` says about the operation),
* `Exclusion` (module locks): the files of a module are written by one callback at a time,
* `Ownership`: during a save all that is dirty in the cache belongs to this store and equals its target.
  It is true because each store begins with `aug_load`, which drops what a
  failed store left behind, and needs one thread per process,
* `Locality`: the files an operation goes through belong to the module it has locked,
* `Saved`: at each point of a store, the files not in `todo` (or `dirty`, or at hand) are
  already as they should be, which gives `StoreOkSaved` at the end,
* `Disk`: where the last content is. A file holds it, or is torn or missing and the backup
  has it, or a save has just moved the parsable rest of a torn file over the backup; a backup is deleted only after the copy.
  `ContentSurvives` and `LoadCommitted` follow, whatever a torn file parses as.

Each conjunct has a lemma `...Step` with one case per action, so that a change of one action
breaks one case.

### AugStore

For files of any length, any labels and any targets. `IInv` adds to `TypeOK`

* `Distinct`: the keys of `diff_data` are unique, without which "the instance with this key" means nothing;
* `Following`: the tree shows `diff_data` until a move is unsafe. The key lemma is `FindIndex`: an index
  counted in `diff_data` finds the node on the same position if the nodes up to it have the same labels. Each
  operation then edits both on the same position (`DeleteMirrors`, `ChangeMirrors`,
  `InsertMirrors`, `MoveMirrors`); the anchor needs the special index of a new first instance (`AnchorMirrors`),
  the move needs that no node with its label is passed;
* `Counted`: tree and `diff_data` have as many nodes of each label, and no path has failed. This survives
  the unsafe moves: both nodes of `aug_mv` exist in whichever direction the keys say (`MoveEven`), and
  every index up to the number of nodes with the label is found (`FindExists`). `PathsExist` follows, with an
  unwelcome reading: a move of the wrong node is never reported as an error.

These two (`AugStore_proofs`) rest on `DiffApplies`, which `AugStoreDiff_proofs` proves. `Progress` ties what is
left of the diff to the data: `diff` is the part of `Diff(C, target)` after a place `t` of the loaded list `C`, and
`Reached` says what `diff_data` is at `t`. Up to `Len(C)` (`Altering`) the loaded instances before `t` are as in
the target or gone and the others as loaded, all in the loaded order. From there on (`Placing`) the first
`t - Len(C)` instances are those of the target and the rest are the kept ones still to be placed, in the
loaded order. That order is what makes `InPlace`, a condition on the two lists alone, tell whether the next instance of the
target stands on its position in the data of that moment (`InPlaceFact`). Hence each node of the diff finds
its instance and its anchor (`DiffAlwaysApplies`), and at the last place the data are the target (`DataArrives`). With
`TreeFollowsData`, `StoreReaches` follows: a store without an unsafe move leaves the tree of the target.

### SrplgdAugeas

For any modules, contexts, faults and bounds. `IInv` adds to `TypeOK`

* `Routed`: only modules with a callback have events;
* `PidFiles`: a running daemon has a PID file, so a callback that finds none has nobody to tell;
* `Handled`: a module without an unhandled change has fresh daemons (not running, or with a signal that
  makes them read their files or exit, or up to date); while its callback runs, the daemons whose command is behind
  are fresh. `Applied` is the special case of a callback that has ended.

### AyTree

For trees of any size and any sequence of edits. The only thing a node knows about its place is the number of its
descendants, so `AyPreorder` proves what edits do to this function alone: inserting a node over some of its
neighbours (`Fits`), inserting, cutting out and moving a block, with the nodes above counted up or down
(`Above`). `AyTree_proofs` shows that each edit of `AyYnode` is one of these, that the nodes it counts
are exactly the ancestors, and that nodes stay typed, the array inside its memory and identifiers below the counter.
`TreeAssumption` says that the initial trees are trees; TLC evaluates it for all arrays of the instance.

`AyWhen_proofs` proves `InnerWhenFollows`, an action property, from that invariant. The nodes of a copy keep the identifiers of the
originals, so that a reference has two possible targets. The argument: the copy has, node for
node, what the original has (`CopyNodesAre`); the lookup of the original by its identifier finds a subtree equal to
the copied one (`OriginalFound`, which needs `TrueCopies`); the search for the target in it hits a node with
the same identifier, so the correction keeps the reference (`ReferenceKept`, which needs the flag) and touches nothing
else (`CorrectionKeeps`); a reference is resolved at the nearest ancestor that has
the identifier below it (`TargetIs`), and for a target inside the subtree this ancestor is inside too, so the copy
resolves the same reference at the same offset (`TargetEchoes`).

### Only model-checked

* liveness: `CallsReturn`, `Converges`, `Terminates`;
* the refinement of `AyForest`, whose tree is built by a RECURSIVE operator;
* `AugLoad` and the modules from `AyLnode` to `Augyang`: their transformations recurse over the schema, the lens
  and the tree (RECURSIVE operators), and what they compute takes induction over that data;
* all the violations.

## Not modelled, and the plan

Next, proofs:

1. `AugDs`: what of the guarantees is left with several threads per process.
2. `Augyang`: type correctness of the parts that are not recursive, if they are moved to a module of their own.

Not modelled:

* `augyang.c`: the two transformations that depend on node names
  (`ay_ynode_insert_container_in_choice`, `ay_ynode_grouping_reduction`), the tree of
  source terms (`pnode`, `terms.c`) that names are taken from, and the check of the lens. They need the names, which are strings put together from the lens source.
* `print_yang.c`: names, types and layout of the text. Its demands on the tree are properties of `Augyang`.
* `parse_regex.c`: rewriting of regular expressions character by character; no state, no interleaving.
* `AugStore` models one implicit list; nested and recursive lists, containers without instances, moves of sequential
  labels and the text of paths are left out.
* Owners and permissions of the access callbacks, `srpds_aug_last_modif` beyond its use of the cache.
* `main.c`, `debug.c`, `ay_startup` (options, dumps, one load and a print), lens patches, generated YANG
  modules, install scripts.
