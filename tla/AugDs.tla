-------------------------------- MODULE AugDs --------------------------------
(***************************************************************************)
(* The sysrepo datastore plugin srds_augeas: the startup datastore of a    *)
(* YANG module is the set of configuration files of one Augeas lens.       *)
(*                                                                         *)
(* Every process that uses sysrepo has its own copy of the plugin with one *)
(* static `auginfo' (the Augeas handle, the registered modules, the shared *)
(* uint64 pattern); the configuration files and their .augsave backups are *)
(* shared.  An operation is a sequence of steps, each one a call that      *)
(* reads or writes shared state, so that steps of other threads, external  *)
(* edits of a file and a crash of the process can come between them.       *)
(*                                                                         *)
(* The contents of a file are abstracted to a version.  Changing a version *)
(* in the Augeas tree node by node is the subject of module AugStore.      *)
(***************************************************************************)
EXTENDS Naturals

CONSTANTS
    Threads,       \* threads that call into the plugin
    Procs,         \* processes, each with its own `static struct auginfo'
    ProcOf,        \* the process of a thread
    Mods,          \* YANG modules, one Augeas lens each
    Files,         \* configuration files
    ModOf,         \* the module whose lens includes a file
    Vals,          \* complete versions of a file, written by a store or an edit
    Absent,        \* content: there is no such file
    Corrupt,       \* content: the lens does not parse it
    Partial,       \* content: a part of a version, or nothing, that the lens does parse
    Uses64,        \* modules with a label of type uint64
    Faults,        \* calls that may fail: "init", "load", "apply", "put", "rename",
                   \* "files", "exists", "open", "copy", "unlink"
    None,          \* no module, no file
    MaxCalls,      \* bound: callbacks called in a behaviour
    MaxUpsets      \* bound: external edits and crashes in a behaviour

ASSUME ConstantsAssumption ==
    /\ ProcOf \in [Threads -> Procs]
    /\ ModOf \in [Files -> Mods]
    /\ Absent \notin Vals /\ Corrupt \notin Vals /\ Partial \notin Vals
    /\ Absent # Corrupt /\ Absent # Partial /\ Corrupt # Partial
    /\ Uses64 \subseteq Mods
    /\ None \notin Mods /\ None \notin Files
    /\ MaxCalls \in Nat /\ MaxUpsets \in Nat

VARIABLES
    (* disk *)
    file,     \* file[f]: content of the configuration file
    backup,   \* backup[f]: content of f.augsave
    (* auginfo, per process; the handle is open iff a module is registered *)
    mods,     \* mods[p]: registered modules
    tree,     \* tree[p][f]: content of f in the Augeas tree, Corrupt is an error node
    dirty,    \* dirty[p]: files whose tree was changed and not saved
    pcode,    \* pcode[p]: pcode_uint64, NULL, compiled, freed or freed twice
    (* running operations, per thread *)
    pc,       \* next step
    op,       \* operation
    mod,      \* module operated on
    new,      \* new[t][f]: content after the store (mod_data)
    todo,     \* files still to be saved or recovered
    cur,      \* file being saved or recovered
    rc,       \* return code
    (* sysrepo *)
    dead,     \* modules whose write lock belongs to a crashed process
    (* history *)
    last,     \* last[f]: content deliberately given to f last
    edited,   \* edited[t]: files edited externally since the operation began
    (* bounds *)
    calls,    \* callbacks called so far
    upsets    \* external edits and crashes so far

disk    == <<file, backup>>
auginfo == <<mods, tree, dirty, pcode>>
thread  == <<pc, op, mod, new, todo, cur, rc>>
history == <<last, edited>>
bounds  == <<calls, upsets>>
vars    == <<disk, auginfo, thread, dead, history, bounds>>

Content == Vals \cup {Absent, Corrupt, Partial}
Ops     == {"none", "load", "store", "recover", "access", "modif"}
Pcodes  == {"null", "live", "freed", "twice"}
PCs     == {"idle", "init", "load", "apply", "save", "file", "write",
            "recfile", "reccopy", "recunlink", "done"}

FilesOf(m)  == {f \in Files : ModOf[f] = m}
NoFiles     == [f \in Files |-> Absent]

TypeOK ==
    /\ file \in [Files -> Content]
    /\ backup \in [Files -> Content]
    /\ mods \in [Procs -> SUBSET Mods]
    /\ tree \in [Procs -> [Files -> Content]]
    /\ dirty \in [Procs -> SUBSET Files]
    /\ pcode \in [Procs -> Pcodes]
    /\ pc \in [Threads -> PCs]
    /\ op \in [Threads -> Ops]
    /\ mod \in [Threads -> Mods \cup {None}]
    /\ new \in [Threads -> [Files -> Content]]
    /\ todo \in [Threads -> SUBSET Files]
    /\ cur \in [Threads -> Files \cup {None}]
    /\ rc \in [Threads -> {"ok", "err"}]
    /\ dead \in SUBSET Mods
    /\ last \in [Files -> Content]
    /\ edited \in [Threads -> SUBSET Files]
    /\ calls \in 0..MaxCalls
    /\ upsets \in 0..MaxUpsets

(***************************************************************************)
(* Initially nothing runs, no process has a cache, and every file is       *)
(* missing or a version somebody wrote; a backup may be left by an earlier *)
(* save.                                                                   *)
(***************************************************************************)
Init ==
    /\ file \in [Files -> Vals \cup {Absent}]
    /\ backup \in [Files -> Vals \cup {Absent}]
    /\ mods = [p \in Procs |-> {}]
    /\ tree = [p \in Procs |-> NoFiles]
    /\ dirty = [p \in Procs |-> {}]
    /\ pcode = [p \in Procs |-> "null"]
    /\ pc = [t \in Threads |-> "idle"]
    /\ op = [t \in Threads |-> "none"]
    /\ mod = [t \in Threads |-> None]
    /\ new = [t \in Threads |-> NoFiles]
    /\ todo = [t \in Threads |-> {}]
    /\ cur = [t \in Threads |-> None]
    /\ rc = [t \in Threads |-> "ok"]
    /\ dead = {}
    /\ last = file
    /\ edited = [t \in Threads |-> {}]
    /\ calls = 0
    /\ upsets = 0

-----------------------------------------------------------------------------
(* The cache of a process *)

\* aug_load: what the tree holds afterwards when the lenses of the modules ms
\* are set.  Changes that were not saved are discarded.
AugLoad(ms) == [f \in Files |-> IF ModOf[f] \in ms THEN file[f] ELSE Absent]

\* Mutant: error nodes are not looked for.
HasErrorIgnored(tr) == FALSE

\* augds_check_erraug: an error node of any lens, not only of this module's.
HasError(tr) == \E f \in Files : tr[f] = Corrupt

\* augds_get_config_files: the parsed files of a module, corrupt ones included.
ConfigFiles(tr, m) == {f \in FilesOf(m) : tr[f] # Absent}

\* augds_init_auginfo_get_pattern: compiled by the first module that needs it.
PcodeInit(p, m) == IF m \in Uses64 /\ pcode[p] = "null" THEN "live" ELSE pcode[p]

\* augds_destroy: the pattern is freed and the pointer kept, also when it dangles.
PcodeDestroy(p) == CASE pcode[p] = "null" -> "null"
                     [] pcode[p] = "live" -> "freed"
                     [] OTHER             -> "twice"

SetCache(p, ms, tr, d, code) ==
    /\ mods'  = [mods EXCEPT ![p] = ms]
    /\ tree'  = [tree EXCEPT ![p] = tr]
    /\ dirty' = [dirty EXCEPT ![p] = d]
    /\ pcode' = [pcode EXCEPT ![p] = code]

Destroy(p) == SetCache(p, {}, NoFiles, {}, PcodeDestroy(p))

-----------------------------------------------------------------------------
(* Control of an operation *)

Goto(t, l) == /\ pc' = [pc EXCEPT ![t] = l]
              /\ UNCHANGED <<op, mod, new, todo, cur, rc>>

Finish(t, r) == /\ pc' = [pc EXCEPT ![t] = "done"]
                /\ rc' = [rc EXCEPT ![t] = r]
                /\ UNCHANGED <<op, mod, new, todo, cur>>

\* sysrepo holds the lock of the module around a callback: shared for a load,
\* exclusive for a store and a recovery, none for the access and time callbacks.
User(m)   == \E t \in Threads : mod[t] = m /\ op[t] \in {"load", "store", "recover"}
Writer(m) == \E t \in Threads : mod[t] = m /\ op[t] \in {"store", "recover"}

Begin(t, o, m) ==
    /\ pc[t] = "idle"
    /\ calls < MaxCalls
    /\ calls' = calls + 1
    /\ pc' = [pc EXCEPT ![t] = "init"]
    /\ op' = [op EXCEPT ![t] = o]
    /\ mod' = [mod EXCEPT ![t] = m]
    /\ UNCHANGED <<disk, auginfo, new, todo, cur, rc, dead, history, upsets>>

\* Mutant: the module is not locked.
BeginStoreUnlocked(t, m) == m \notin dead /\ Begin(t, "store", m)

BeginLoad(t, m)    == m \notin dead /\ ~Writer(m) /\ Begin(t, "load", m)
BeginStore(t, m)   == m \notin dead /\ ~User(m) /\ Begin(t, "store", m)
\* The lock of a crashed writer is taken over and the module recovered first.
BeginRecover(t, m) == m \in dead /\ ~User(m) /\ Begin(t, "recover", m)
\* srpds_aug_access_set, _get, _check: nothing but augds_init touches this state.
BeginAccess(t, m)  == Begin(t, "access", m)
\* srpds_aug_last_modif
BeginModif(t, m)   == Begin(t, "modif", m)

\* The callback returns and the lock is released; srpds_aug_recover is void.
Return(t) ==
    /\ pc[t] = "done"
    /\ pc' = [pc EXCEPT ![t] = "idle"]
    /\ op' = [op EXCEPT ![t] = "none"]
    /\ mod' = [mod EXCEPT ![t] = None]
    /\ new' = [new EXCEPT ![t] = NoFiles]
    /\ todo' = [todo EXCEPT ![t] = {}]
    /\ cur' = [cur EXCEPT ![t] = None]
    /\ rc' = [rc EXCEPT ![t] = "ok"]
    /\ dead' = IF op[t] = "recover" THEN dead \ {mod[t]} ELSE dead
    /\ edited' = [edited EXCEPT ![t] = {}]
    /\ UNCHANGED <<disk, auginfo, last, bounds>>

-----------------------------------------------------------------------------
(* augds_init and srpds_aug_load, the first steps of every operation *)

AfterInit(t) == IF op[t] = "access" THEN "done" ELSE "load"

InitFound(t) ==
    /\ pc[t] = "init"
    /\ mod[t] \in mods[ProcOf[t]]
    /\ Goto(t, AfterInit(t))
    /\ UNCHANGED <<disk, auginfo, dead, history, bounds>>

InitNew(t) ==
    LET p  == ProcOf[t]
        ms == mods[p] \cup {mod[t]}
    IN  /\ pc[t] = "init"
        /\ mod[t] \notin mods[p]
        /\ ~HasError(AugLoad(ms))
        /\ SetCache(p, ms, AugLoad(ms), {}, PcodeInit(p, mod[t]))
        /\ Goto(t, AfterInit(t))
        /\ UNCHANGED <<disk, dead, history, bounds>>

\* A failure destroys the cache of every module of the process.
InitFail(t) ==
    LET p  == ProcOf[t]
        ms == mods[p] \cup {mod[t]}
    IN  /\ pc[t] = "init"
        /\ mod[t] \notin mods[p]
        /\ HasError(AugLoad(ms)) \/ "init" \in Faults
        /\ Destroy(p)
        /\ Finish(t, "err")
        /\ UNCHANGED <<disk, dead, history, bounds>>

\* The data a client may store: other versions of the files that were loaded.
Targets(tr, m) ==
    {nw \in [Files -> Content] :
        \A f \in Files : IF f \in ConfigFiles(tr, m) THEN nw[f] \in Vals
                                                    ELSE nw[f] = tr[f]}

\* srpds_aug_load calls augds_init itself, which registers the module again if
\* another thread of the process destroyed the cache meanwhile.
\* srpds_aug_last_modif begins in the same way and then calls stat with the
\* Augeas path /files/..., which names no file.
LoadOk(t) ==
    LET p  == ProcOf[t]
        ms == mods[p] \cup {mod[t]}
        tr == AugLoad(ms)
    IN  /\ pc[t] = "load"
        /\ ~HasError(tr)
        /\ SetCache(p, ms, tr, {}, IF mod[t] \in mods[p] THEN pcode[p]
                                                        ELSE PcodeInit(p, mod[t]))
        /\ \/ /\ op[t] = "store"
              /\ \E nw \in Targets(tr, mod[t]) :
                    /\ new' = [new EXCEPT ![t] = nw]
                    /\ todo' = [todo EXCEPT ![t] = {f \in Files : nw[f] # tr[f]}]
              /\ pc' = [pc EXCEPT ![t] = "apply"]
              /\ UNCHANGED <<op, mod, cur, rc>>
           \/ /\ op[t] \in {"load", "recover"}
              /\ Finish(t, "ok")
           \/ /\ op[t] = "modif"
              /\ Finish(t, IF ConfigFiles(tr, mod[t]) = {} THEN "ok" ELSE "err")
        /\ UNCHANGED <<disk, dead, history, bounds>>

\* srpds_aug_recover goes on with the files that were parsed, if
\* augds_get_config_files can list them.
LoadFail(t) ==
    LET p  == ProcOf[t]
        ms == mods[p] \cup {mod[t]}
        tr == AugLoad(ms)
    IN  /\ pc[t] = "load"
        /\ HasError(tr) \/ "load" \in Faults
        /\ IF mod[t] \in mods[p] THEN SetCache(p, ms, tr, {}, pcode[p])
                                 ELSE Destroy(p)
        /\ \/ /\ op[t] = "recover"
              /\ mod[t] \in mods[p]
              /\ todo' = [todo EXCEPT ![t] = ConfigFiles(tr, mod[t])]
              /\ pc' = [pc EXCEPT ![t] = "recfile"]
              /\ UNCHANGED <<op, mod, new, cur, rc>>
           \/ /\ op[t] = "recover"
              /\ mod[t] \in mods[p]
              /\ "files" \in Faults
              /\ Finish(t, "err")
           \/ /\ op[t] \in {"load", "store", "modif"}
              /\ Finish(t, "err")
        /\ UNCHANGED <<disk, dead, history, bounds>>

-----------------------------------------------------------------------------
(* srpds_aug_store *)

\* While the diff is applied, todo holds the changed files.  A handle closed by
\* another thread of the process is not used further: the process crashes.

NoChange(t) ==
    /\ pc[t] = "apply"
    /\ todo[t] = {}
    /\ Finish(t, "ok")
    /\ UNCHANGED <<disk, auginfo, dead, history, bounds>>

\* The diff of each changed file is applied to the tree, not to the disk.
Apply(t) ==
    LET p == ProcOf[t]
    IN  /\ pc[t] = "apply"
        /\ todo[t] # {} /\ mods[p] # {}
        /\ SetCache(p, mods[p],
                    [f \in Files |-> IF f \in todo[t] THEN new[t][f] ELSE tree[p][f]],
                    dirty[p] \cup todo[t], pcode[p])
        /\ Goto(t, "save")
        /\ UNCHANGED <<disk, dead, history, bounds>>

\* Mutant: the error is ignored and the partly changed tree saved.
ApplyFailIgnored(t) ==
    LET p == ProcOf[t]
    IN  /\ pc[t] = "apply"
        /\ "apply" \in Faults /\ mods[p] # {}
        /\ \E f \in todo[t] :
              SetCache(p, mods[p], [tree[p] EXCEPT ![f] = Partial], dirty[p] \cup {f}, pcode[p])
        /\ Goto(t, "save")
        /\ UNCHANGED <<disk, dead, history, bounds>>

\* augds_store_diff_r fails: some files are changed in the tree, the last one
\* of them in part, and nothing is undone.
ApplyFail(t) ==
    LET p == ProcOf[t]
    IN  /\ pc[t] = "apply"
        /\ "apply" \in Faults /\ mods[p] # {}
        /\ \E done \in SUBSET todo[t], f \in todo[t] :
              SetCache(p, mods[p],
                       [g \in Files |-> IF g = f THEN Partial
                                        ELSE IF g \in done THEN new[t][g]
                                        ELSE tree[p][g]],
                       dirty[p] \cup done \cup {f}, pcode[p])
        /\ Finish(t, "err")
        /\ UNCHANGED <<disk, dead, history, bounds>>

\* aug_save walks over all the changed files of the handle.
Save(t) ==
    /\ pc[t] = "save"
    /\ mods[ProcOf[t]] # {}
    /\ todo' = [todo EXCEPT ![t] = dirty[ProcOf[t]]]
    /\ pc' = [pc EXCEPT ![t] = "file"]
    /\ UNCHANGED <<disk, auginfo, op, mod, new, cur, rc, dead, history, bounds>>

\* The new text is put to a temporary file, and the original is renamed to the
\* backup.
SaveBackup(t, f) ==
    /\ pc[t] = "file"
    /\ f \in todo[t]
    /\ file[f] # Corrupt
    /\ IF file[f] = Absent THEN UNCHANGED disk
       ELSE /\ backup' = [backup EXCEPT ![f] = file[f]]
            /\ file' = [file EXCEPT ![f] = Absent]
    /\ todo' = [todo EXCEPT ![t] = @ \ {f}]
    /\ cur' = [cur EXCEPT ![t] = f]
    /\ pc' = [pc EXCEPT ![t] = "write"]
    /\ UNCHANGED <<auginfo, op, mod, new, rc, dead, history, bounds>>

\* The put does not go through; aug_save goes on with the other files.
SavePutFail(t, f) ==
    /\ pc[t] = "file"
    /\ f \in todo[t]
    /\ file[f] = Corrupt \/ "put" \in Faults
    /\ todo' = [todo EXCEPT ![t] = @ \ {f}]
    /\ rc' = [rc EXCEPT ![t] = "err"]
    /\ UNCHANGED <<disk, auginfo, pc, op, mod, new, cur, dead, history, bounds>>

\* The temporary file is renamed to the configuration file.
SaveWrite(t) ==
    LET p == ProcOf[t]
        f == cur[t]
    IN  /\ pc[t] = "write"
        /\ file' = [file EXCEPT ![f] = tree[p][f]]
        /\ last' = [last EXCEPT ![f] = tree[p][f]]
        /\ dirty' = [dirty EXCEPT ![p] = @ \ {f}]
        /\ pc' = [pc EXCEPT ![t] = "file"]
        /\ cur' = [cur EXCEPT ![t] = None]
        /\ UNCHANGED <<backup, mods, tree, pcode, op, mod, new, todo, rc, dead, edited, bounds>>

SaveWriteFail(t) ==
    /\ pc[t] = "write"
    /\ "rename" \in Faults
    /\ pc' = [pc EXCEPT ![t] = "file"]
    /\ cur' = [cur EXCEPT ![t] = None]
    /\ rc' = [rc EXCEPT ![t] = "err"]
    /\ UNCHANGED <<disk, auginfo, op, mod, new, todo, dead, history, bounds>>

SaveEnd(t) ==
    /\ pc[t] = "file"
    /\ todo[t] = {}
    /\ Finish(t, rc[t])
    /\ UNCHANGED <<disk, auginfo, dead, history, bounds>>

-----------------------------------------------------------------------------
(* srpds_aug_recover, after the load failed: each file that has a backup *)

\* Mutant: a file without a backup is tried again and again.
RecoverSkipStays(t, f) ==
    /\ pc[t] = "recfile"
    /\ f \in todo[t]
    /\ backup[f] = Absent
    /\ UNCHANGED vars

\* augds_file_exists: an error other than ENOENT passes for a missing backup.
RecoverSkip(t, f) ==
    /\ pc[t] = "recfile"
    /\ f \in todo[t]
    /\ backup[f] = Absent \/ "exists" \in Faults
    /\ todo' = [todo EXCEPT ![t] = @ \ {f}]
    /\ UNCHANGED <<disk, auginfo, pc, op, mod, new, cur, rc, dead, history, bounds>>

\* augds_cp_path opens the file with O_TRUNC and writes piece by piece.  Until the
\* copy is complete the file holds nothing or a part of the backup, which the lens
\* may parse (a lens (...)* does) or not.  From here on the backup is the content
\* that the file is meant to have.
RecoverTruncate(t, f) ==
    /\ pc[t] = "recfile"
    /\ f \in todo[t]
    /\ backup[f] # Absent
    /\ file[f] # Absent
    /\ \E c \in {Corrupt, Partial} : file' = [file EXCEPT ![f] = c]
    /\ last' = [last EXCEPT ![f] = backup[f]]
    /\ todo' = [todo EXCEPT ![t] = @ \ {f}]
    /\ cur' = [cur EXCEPT ![t] = f]
    /\ pc' = [pc EXCEPT ![t] = "reccopy"]
    /\ UNCHANGED <<backup, auginfo, op, mod, new, rc, dead, edited, bounds>>

\* An open without O_CREAT fails for a file that is gone; any failure ends the
\* recovery of the module.
RecoverOpenFail(t, f) ==
    /\ pc[t] = "recfile"
    /\ f \in todo[t]
    /\ backup[f] # Absent
    /\ file[f] = Absent \/ "open" \in Faults
    /\ Finish(t, "err")
    /\ UNCHANGED <<disk, auginfo, dead, history, bounds>>

RecoverCopy(t) ==
    LET f == cur[t]
    IN  /\ pc[t] = "reccopy"
        /\ file' = [file EXCEPT ![f] = backup[f]]
        /\ last' = [last EXCEPT ![f] = backup[f]]
        /\ Goto(t, "recunlink")
        /\ UNCHANGED <<backup, auginfo, dead, edited, bounds>>

\* Mutant: what augds_cp_path returns is ignored.
RecoverCopyFailIgnored(t) ==
    /\ pc[t] = "reccopy"
    /\ "copy" \in Faults
    /\ Goto(t, "recunlink")
    /\ UNCHANGED <<disk, auginfo, dead, history, bounds>>

RecoverCopyFail(t) ==
    /\ pc[t] = "reccopy"
    /\ "copy" \in Faults
    /\ Finish(t, "err")
    /\ UNCHANGED <<disk, auginfo, dead, history, bounds>>

RecoverUnlink(t) ==
    /\ pc[t] = "recunlink"
    /\ backup' = [backup EXCEPT ![cur[t]] = Absent]
    /\ cur' = [cur EXCEPT ![t] = None]
    /\ pc' = [pc EXCEPT ![t] = "recfile"]
    /\ UNCHANGED <<file, auginfo, op, mod, new, todo, rc, dead, history, bounds>>

RecoverUnlinkFail(t) ==
    /\ pc[t] = "recunlink"
    /\ "unlink" \in Faults
    /\ Finish(t, "err")
    /\ UNCHANGED <<disk, auginfo, dead, history, bounds>>

RecoverEnd(t) ==
    /\ pc[t] = "recfile"
    /\ todo[t] = {}
    /\ Finish(t, "ok")
    /\ UNCHANGED <<disk, auginfo, dead, history, bounds>>

-----------------------------------------------------------------------------
(* Everything else that changes the state *)

\* srpds_aug_uninstall of any module destroys the cache of all of them.
Uninstall(t) ==
    /\ pc[t] = "idle"
    /\ calls < MaxCalls
    /\ calls' = calls + 1
    /\ Destroy(ProcOf[t])
    /\ UNCHANGED <<disk, thread, dead, history, upsets>>

\* Mutant: the module of every thread is taken for locked by the dead process.
CrashAll(p) ==
    /\ upsets < MaxUpsets
    /\ upsets' = upsets + 1
    /\ SetCache(p, {}, NoFiles, {}, "null")
    /\ dead' = dead \cup {mod[t] : t \in {s \in Threads : ProcOf[s] = p}}
    /\ UNCHANGED <<disk, thread, history, calls>>

\* A process dies in the middle of whatever its threads do and is started anew.
Crash(p) ==
    LET ts == {t \in Threads : ProcOf[t] = p}
        Reset(fn, v) == [t \in Threads |-> IF t \in ts THEN v ELSE fn[t]]
    IN  /\ upsets < MaxUpsets
        /\ upsets' = upsets + 1
        /\ SetCache(p, {}, NoFiles, {}, "null")
        /\ pc' = Reset(pc, "idle")
        /\ op' = Reset(op, "none")
        /\ mod' = Reset(mod, None)
        /\ new' = Reset(new, NoFiles)
        /\ todo' = Reset(todo, {})
        /\ cur' = Reset(cur, None)
        /\ rc' = Reset(rc, "ok")
        /\ edited' = Reset(edited, {})
        /\ dead' = dead \cup {mod[t] : t \in {s \in ts : op[s] \in {"store", "recover"}}}
        /\ UNCHANGED <<disk, last, calls>>

\* An administrator or another program writes, spoils or removes the file.
Edit(f, c) ==
    /\ upsets < MaxUpsets
    /\ upsets' = upsets + 1
    /\ file[f] # c
    /\ file' = [file EXCEPT ![f] = c]
    /\ last' = [last EXCEPT ![f] = c]
    /\ edited' = [t \in Threads |-> IF pc[t] = "idle" THEN edited[t]
                                                     ELSE edited[t] \cup {f}]
    /\ UNCHANGED <<backup, auginfo, thread, dead, calls>>

Step(t) ==
    \/ InitFound(t) \/ InitNew(t) \/ InitFail(t)
    \/ LoadOk(t) \/ LoadFail(t)
    \/ NoChange(t) \/ Apply(t) \/ ApplyFail(t)
    \/ Save(t) \/ SaveWrite(t) \/ SaveWriteFail(t) \/ SaveEnd(t)
    \/ \E f \in Files : SaveBackup(t, f) \/ SavePutFail(t, f)
    \/ \E f \in Files : RecoverSkip(t, f) \/ RecoverTruncate(t, f) \/ RecoverOpenFail(t, f)
    \/ RecoverCopy(t) \/ RecoverCopyFail(t)
    \/ RecoverUnlink(t) \/ RecoverUnlinkFail(t) \/ RecoverEnd(t)
    \/ Return(t)

Next ==
    \/ \E t \in Threads : Step(t) \/ Uninstall(t)
    \/ \E t \in Threads, m \in Mods :
          \/ BeginLoad(t, m) \/ BeginStore(t, m) \/ BeginRecover(t, m)
          \/ BeginAccess(t, m) \/ BeginModif(t, m)
    \/ \E p \in Procs : Crash(p)
    \/ \E f \in Files, c \in Vals \cup {Absent, Corrupt} : Edit(f, c)

\* A callback that was called runs on; nothing else has to happen.
Fairness == \A t \in Threads : WF_vars(Step(t))

Spec == Init /\ [][Next]_vars /\ Fairness

-----------------------------------------------------------------------------
(* Properties *)

\* Expected of srpds_aug_recover by its comments; the run torn shows where the code
\* differs.
\* "data are valid, nothing to do": the content last given to a file deliberately
\* (by a store, an edit or the decision of a recovery to go back to the backup) is
\* in the file or in its backup, whichever calls failed and wherever a process
\* crashed.  When augds_cp_path was interrupted and the lens parses what is there,
\* the next recovery finds nothing to do and the next save replaces the backup.
CommittedSurvives == \A f \in Files : last[f] \in {file[f], backup[f]}

\* That is the only way to lose it: a content is in neither place only while a
\* save has moved the remains of an interrupted augds_cp_path to the backup and not
\* written the file yet.  No other failed call or crash of a store or a recovery,
\* at any step, leaves a file and its backup without it.
LostOnlyToTorn ==
    \A f \in Files :
        \/ last[f] \in {file[f], backup[f]}
        \/ file[f] = Absent /\ backup[f] = Partial

\* A store that returns SR_ERR_OK left every file of its module with the stored
\* content, unless the file was edited externally meanwhile.
StoreOkSaved ==
    \A t \in Threads :
        pc[t] = "done" /\ op[t] = "store" /\ rc[t] = "ok" =>
            \A f \in FilesOf(mod[t]) \ edited[t] : file[f] = new[t][f]

\* aug_save writes what this store asked for, in files of its own module:
\* never a change that an earlier, failed store left in the tree.
SaveWritesTarget ==
    \A t \in Threads :
        pc[t] \in {"save", "file", "write"} =>
            \A f \in dirty[ProcOf[t]] :
                ModOf[f] = mod[t] /\ tree[ProcOf[t]][f] = new[t][f]

\* A successful load reports for a file what was last given to it, or misses the
\* file.  If it reports the remains of an interrupted augds_cp_path, then the backup
\* still has the content: the data can be recovered until the next store.
LoadSeesCommitted ==
    [][\A t \in Threads : LoadOk(t) =>
          \A f \in FilesOf(mod[t]) :
              \/ tree'[ProcOf[t]][f] \in {last[f], Absent}
              \/ tree'[ProcOf[t]][f] = Partial /\ backup[f] = last[f]]_vars

\* Expected of srpds_aug_recover by its comments; the run restores shows where the
\* code differs.
\* "restore the backup data": a recovery ends with the content that was last given
\* to the file, also if a crash took the file away in the middle of a save or left
\* it truncated in the middle of an earlier recovery.
RecoverRestores ==
    \A t \in Threads :
        pc[t] = "done" /\ op[t] = "recover" =>
            \A f \in FilesOf(mod[t]) \ edited[t] : file[f] = last[f]

\* Every callback returns (or its process crashes).
CallsReturn == \A t \in Threads : pc[t] # "idle" ~> pc[t] = "idle"
=============================================================================
