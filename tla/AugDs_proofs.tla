---------------------------- MODULE AugDs_proofs ----------------------------
(***************************************************************************)
(* Proofs about AugDs, for any number of processes, modules, files and     *)
(* versions and any bounds.                                                *)
(***************************************************************************)
EXTENDS AugDs, TLAPS

(***************************************************************************)
(* The inductive invariant.                                                *)
(***************************************************************************)

\* Where a thread is tells what it does: only a store applies and saves, only a
\* recovery copies backups.
Control ==
    \A t \in Threads :
        /\ pc[t] = "idle" <=> mod[t] = None
        /\ pc[t] = "idle" <=> op[t] = "none"
        /\ pc[t] \in {"apply", "save", "file", "write"} => op[t] = "store"
        /\ pc[t] \in {"recfile", "reccopy", "recunlink"} => op[t] = "recover"
        /\ pc[t] \in {"write", "reccopy", "recunlink"} => cur[t] \in Files

\* The module lock: a store and a recovery are alone on their module.
Exclusion ==
    \A s, t \in Threads :
        s # t /\ mod[s] = mod[t] /\ mod[s] # None /\ op[s] \in {"store", "recover"} =>
            op[t] \in {"access", "modif"}

\* While a store runs, the tree differs from the disk only in what it changed.
Ownership ==
    \A t \in Threads :
        /\ pc[t] = "apply" => dirty[ProcOf[t]] = {}
        /\ pc[t] \in {"save", "file", "write"} =>
              \A f \in dirty[ProcOf[t]] :
                  ModOf[f] = mod[t] /\ tree[ProcOf[t]][f] = new[t][f]
        /\ pc[t] \in {"file", "write"} => todo[t] \subseteq dirty[ProcOf[t]]
        /\ pc[t] = "write" => cur[t] \in dirty[ProcOf[t]] \ todo[t]

\* The files that an operation goes through belong to the module it has locked.
Locality ==
    \A t \in Threads :
        /\ pc[t] \in {"apply", "file", "write", "recfile", "reccopy", "recunlink"} =>
              \A f \in todo[t] : ModOf[f] = mod[t]
        /\ pc[t] \in {"write", "reccopy", "recunlink"} => ModOf[cur[t]] = mod[t]

\* What a store has still to do covers every file that is not as it should be:
\* todo before the tree is changed, dirty after it, then todo and the file at hand.
Saved ==
    \A t \in Threads :
        /\ pc[t] = "apply" =>
              \A f \in FilesOf(mod[t]) \ (edited[t] \cup todo[t]) : file[f] = new[t][f]
        /\ pc[t] = "save" =>
              \A f \in FilesOf(mod[t]) \ (edited[t] \cup dirty[ProcOf[t]]) : file[f] = new[t][f]
        /\ pc[t] = "file" /\ rc[t] = "ok" =>
              \A f \in FilesOf(mod[t]) \ (edited[t] \cup todo[t]) : file[f] = new[t][f]
        /\ pc[t] = "write" /\ rc[t] = "ok" =>
              \A f \in FilesOf(mod[t]) \ (edited[t] \cup todo[t] \cup {cur[t]}) :
                  file[f] = new[t][f]
        /\ pc[t] = "done" /\ op[t] = "store" /\ rc[t] = "ok" =>
              \A f \in FilesOf(mod[t]) \ edited[t] : file[f] = new[t][f]

\* A file that is not what it was last made is missing, unparsable or torn, and its
\* backup is, unless a save has moved a torn file there; a recovery deletes a backup
\* only after the file is right again.
Disk ==
    /\ \A f \in Files :
          file[f] # last[f] =>
              \/ file[f] \in {Absent, Corrupt, Partial} /\ backup[f] = last[f]
              \/ file[f] = Absent /\ backup[f] = Partial
    /\ \A t \in Threads : pc[t] = "recunlink" => file[cur[t]] = last[cur[t]]

\* Without assumptions; with one thread per process; and with the disk.
Basic  == TypeOK /\ Control /\ Exclusion
Cached == Basic /\ Ownership /\ Locality /\ Saved
IInv   == Cached /\ Disk

\* Assumption of the safety theorems: no two threads of a process use the plugin.
OneThreadPerProcess == \A s, t \in Threads : ProcOf[s] = ProcOf[t] => s = t

-----------------------------------------------------------------------------
(* Type correctness *)

\* aug_load fills the tree with contents.
LEMMA AugLoadType ==
    ASSUME TypeOK, NEW ms
    PROVE  AugLoad(ms) \in [Files -> Content]
BY DEF TypeOK, AugLoad, Content

\* Every step keeps the types; Control gives the module of a running thread.
LEMMA TypeStep ==
    ASSUME TypeOK, Control, [Next]_vars
    PROVE  TypeOK'
<1> USE ConstantsAssumption
<1>1. ASSUME NEW t \in Threads, Step(t) PROVE TypeOK'
  <2>1. CASE InitFound(t)
    BY <2>1 DEF TypeOK, Content, PCs, Ops, InitFound, Goto, AfterInit,
        NoFiles, disk, auginfo, thread, history, bounds
  <2>2. CASE InitNew(t)
    <3>1. mod[t] \in Mods /\ ProcOf[t] \in Procs
      BY <2>2 DEF TypeOK, Control, InitNew
    <3>2. AugLoad(mods[ProcOf[t]] \cup {mod[t]}) \in [Files -> Content]
      BY AugLoadType
    <3>3. PcodeInit(ProcOf[t], mod[t]) \in Pcodes
      BY <3>1 DEF TypeOK, Pcodes, PcodeInit
    <3> QED
      BY <2>2, <3>1, <3>2, <3>3 DEF TypeOK, PCs, InitNew, Goto, AfterInit, SetCache,
          disk, history, bounds
  <2>3. CASE InitFail(t)
    <3>1. NoFiles \in [Files -> Content] /\ ProcOf[t] \in Procs
      BY DEF NoFiles, Content
    <3>2. PcodeDestroy(ProcOf[t]) \in Pcodes
      BY <3>1 DEF TypeOK, Pcodes, PcodeDestroy
    <3> QED
      BY <2>3, <3>1, <3>2 DEF TypeOK, PCs, InitFail, Finish, Destroy, SetCache,
          disk, history, bounds
  <2>4. CASE LoadOk(t)
    <3> DEFINE ms == mods[ProcOf[t]] \cup {mod[t]}
               code == IF mod[t] \in mods[ProcOf[t]] THEN pcode[ProcOf[t]]
                       ELSE PcodeInit(ProcOf[t], mod[t])
    <3>1. mod[t] \in Mods /\ ProcOf[t] \in Procs
      BY <2>4 DEF TypeOK, Control, LoadOk
    <3>2. AugLoad(ms) \in [Files -> Content]
      BY AugLoadType
    <3>3. code \in Pcodes
      BY <3>1 DEF TypeOK, Pcodes, PcodeInit
    <3>4. SetCache(ProcOf[t], ms, AugLoad(ms), {}, code) /\ UNCHANGED <<disk, dead, history, bounds>>
      BY <2>4 DEF LoadOk
    <3>5. pc' \in [Threads -> PCs] /\ rc' \in [Threads -> {"ok", "err"}]
      BY <2>4 DEF LoadOk, Finish, TypeOK, PCs
    <3>6. new' \in [Threads -> [Files -> Content]] /\ todo' \in [Threads -> SUBSET Files]
      <4>1. CASE op[t] = "store"
        <5>1. PICK nw \in Targets(AugLoad(ms), mod[t]) :
                 /\ new' = [new EXCEPT ![t] = nw]
                 /\ todo' = [todo EXCEPT ![t] = {f \in Files : nw[f] # AugLoad(ms)[f]}]
          BY <2>4, <4>1 DEF LoadOk
        <5>2. nw \in [Files -> Content]
          BY DEF Targets
        <5> QED BY <5>1, <5>2 DEF TypeOK
      <4>2. CASE op[t] # "store"
        BY <2>4, <4>2 DEF LoadOk, Finish, TypeOK
      <4> QED BY <4>1, <4>2
    <3>7. UNCHANGED <<op, mod, cur>>
      BY <2>4 DEF LoadOk, Finish
    <3> HIDE DEF ms, code
    <3>8. mods' \in [Procs -> SUBSET Mods] /\ tree' \in [Procs -> [Files -> Content]]
          /\ dirty' \in [Procs -> SUBSET Files] /\ pcode' \in [Procs -> Pcodes]
      <4>1. ms \in SUBSET Mods
        BY <3>1 DEF ms, TypeOK
      <4> QED BY <3>1, <3>2, <3>3, <3>4, <4>1 DEF TypeOK, SetCache
    <3> QED
      BY <3>4, <3>5, <3>6, <3>7, <3>8 DEF TypeOK, disk, history, bounds
  <2>5. CASE LoadFail(t)
    <3> DEFINE p == ProcOf[t]
               ms == mods[p] \cup {mod[t]}
    <3>1. mod[t] \in Mods /\ p \in Procs
      BY <2>5 DEF TypeOK, Control, LoadFail
    <3>2. AugLoad(ms) \in [Files -> Content] /\ NoFiles \in [Files -> Content]
      BY AugLoadType DEF NoFiles, Content
    <3>3. PcodeDestroy(p) \in Pcodes /\ pcode[p] \in Pcodes
      BY <3>1 DEF TypeOK, Pcodes, PcodeDestroy
    <3>4. mods' \in [Procs -> SUBSET Mods] /\ tree' \in [Procs -> [Files -> Content]]
          /\ dirty' \in [Procs -> SUBSET Files] /\ pcode' \in [Procs -> Pcodes]
      <4>1. CASE mod[t] \in mods[p]
        <5>1. SetCache(p, ms, AugLoad(ms), {}, pcode[p])
          BY <2>5, <4>1 DEF LoadFail
        <5> QED BY <3>1, <3>2, <3>3, <5>1 DEF TypeOK, SetCache
      <4>2. CASE mod[t] \notin mods[p]
        <5>1. Destroy(p)
          BY <2>5, <4>2 DEF LoadFail
        <5> QED BY <3>1, <3>2, <3>3, <5>1 DEF TypeOK, Destroy, SetCache
      <4> QED BY <4>1, <4>2
    <3>5. pc' \in [Threads -> PCs] /\ rc' \in [Threads -> {"ok", "err"}]
          /\ todo' \in [Threads -> SUBSET Files]
      <4>1. ConfigFiles(AugLoad(ms), mod[t]) \in SUBSET Files
        BY DEF ConfigFiles, FilesOf
      <4>2. CASE op[t] = "recover"
        <5>1. \/ /\ pc' = [pc EXCEPT ![t] = "recfile"]
                 /\ rc' = rc
                 /\ todo' = [todo EXCEPT ![t] = ConfigFiles(AugLoad(ms), mod[t])]
              \/ Finish(t, "err")
          BY <2>5, <4>2 DEF LoadFail
        <5>2. CASE Finish(t, "err")
          BY <5>2 DEF TypeOK, PCs, Finish
        <5>3. CASE /\ pc' = [pc EXCEPT ![t] = "recfile"]
                   /\ rc' = rc
                   /\ todo' = [todo EXCEPT ![t] = ConfigFiles(AugLoad(ms), mod[t])]
          BY <4>1, <5>3 DEF TypeOK, PCs
        <5> QED BY <5>1, <5>2, <5>3
      <4>3. CASE op[t] # "recover"
        BY <2>5, <4>3 DEF LoadFail, Finish, TypeOK, PCs
      <4> QED BY <4>2, <4>3
    <3>6. UNCHANGED <<op, mod, new, cur, disk, dead, history, bounds>>
      BY <2>5 DEF LoadFail, Finish
    <3> QED
      BY <3>4, <3>5, <3>6 DEF TypeOK, disk, history, bounds
  <2>6. CASE NoChange(t)
    BY <2>6 DEF TypeOK, Content, PCs, Ops, NoChange, Finish, NoFiles,
        disk, auginfo, thread, history, bounds
  <2>7. CASE Apply(t)
    BY <2>7 DEF TypeOK, Content, PCs, Ops, Apply, Goto, SetCache, NoFiles,
        disk, auginfo, thread, history, bounds
  <2>8. CASE ApplyFail(t)
    BY <2>8 DEF TypeOK, Content, PCs, Ops, ApplyFail, Finish, SetCache,
        NoFiles, disk, auginfo, thread, history, bounds
  <2>9. CASE Save(t)
    BY <2>9 DEF TypeOK, Content, PCs, Ops, Save, NoFiles, disk, auginfo,
        thread, history, bounds
  <2>10. CASE SaveWrite(t)
    <3>1. ProcOf[t] \in Procs /\ cur[t] \in Files
      BY <2>10 DEF Control, SaveWrite
    <3>2. tree[ProcOf[t]][cur[t]] \in Content
      BY <3>1 DEF TypeOK
    <3> QED
      BY <2>10, <3>1, <3>2 DEF TypeOK, PCs, SaveWrite, bounds
  <2>11. CASE SaveWriteFail(t)
    BY <2>11 DEF TypeOK, Content, PCs, Ops, SaveWriteFail, NoFiles, disk,
        auginfo, thread, history, bounds
  <2>12. CASE SaveEnd(t)
    BY <2>12 DEF TypeOK, Content, PCs, Ops, SaveEnd, Finish, NoFiles,
        disk, auginfo, thread, history, bounds
  <2>13. ASSUME NEW f \in Files, SaveBackup(t, f) PROVE TypeOK'
    <3>1. file' \in [Files -> Content] /\ backup' \in [Files -> Content]
      <4>1. CASE file[f] = Absent
        BY <2>13, <4>1 DEF TypeOK, SaveBackup, disk
      <4>2. CASE file[f] # Absent
        <5>1. Absent \in Content /\ file[f] \in Content
          BY DEF TypeOK, Content
        <5>2. /\ backup' = [backup EXCEPT ![f] = file[f]]
              /\ file' = [file EXCEPT ![f] = Absent]
          BY <2>13, <4>2 DEF SaveBackup
        <5> QED BY <5>1, <5>2 DEF TypeOK
      <4> QED BY <4>1, <4>2
    <3> QED
      BY <2>13, <3>1 DEF TypeOK, PCs, SaveBackup, auginfo, history, bounds
  <2>14. ASSUME NEW f \in Files, SavePutFail(t, f) PROVE TypeOK'
    BY <2>14 DEF TypeOK, Content, PCs, Ops, SavePutFail, NoFiles, disk,
        auginfo, thread, history, bounds
  <2>15. ASSUME NEW f \in Files, RecoverSkip(t, f) PROVE TypeOK'
    BY <2>15 DEF TypeOK, Content, PCs, Ops, RecoverSkip, NoFiles, disk,
        auginfo, thread, history, bounds
  <2>16. ASSUME NEW f \in Files, RecoverTruncate(t, f) PROVE TypeOK'
    BY <2>16 DEF TypeOK, Content, PCs, Ops, RecoverTruncate, NoFiles,
        disk, auginfo, thread, history, bounds
  <2>17. ASSUME NEW f \in Files, RecoverOpenFail(t, f) PROVE TypeOK'
    BY <2>17 DEF TypeOK, Content, PCs, Ops, RecoverOpenFail, Finish,
        NoFiles, disk, auginfo, thread, history, bounds
  <2>18. CASE RecoverCopy(t)
    BY <2>18 DEF TypeOK, Content, PCs, Ops, RecoverCopy, Goto, NoFiles,
        disk, auginfo, thread, history, bounds
  <2>19. CASE RecoverCopyFail(t)
    BY <2>19 DEF TypeOK, Content, PCs, Ops, RecoverCopyFail, Finish,
        NoFiles, disk, auginfo, thread, history, bounds
  <2>20. CASE RecoverUnlink(t)
    BY <2>20 DEF TypeOK, Content, PCs, Ops, RecoverUnlink, NoFiles, disk,
        auginfo, thread, history, bounds
  <2>21. CASE RecoverUnlinkFail(t)
    BY <2>21 DEF TypeOK, Content, PCs, Ops, RecoverUnlinkFail, Finish,
        NoFiles, disk, auginfo, thread, history, bounds
  <2>22. CASE RecoverEnd(t)
    BY <2>22 DEF TypeOK, Content, PCs, Ops, RecoverEnd, Finish, NoFiles,
        disk, auginfo, thread, history, bounds
  <2>23. CASE Return(t)
    BY <2>23 DEF TypeOK, Content, PCs, Ops, Return, NoFiles, disk,
        auginfo, thread, history, bounds
  <2> QED
    BY <1>1, <2>1, <2>2, <2>3, <2>4, <2>5, <2>6, <2>7, <2>8, <2>9, <2>10,
        <2>11, <2>12, <2>13, <2>14, <2>15, <2>16, <2>17, <2>18, <2>19, <2>20,
        <2>21, <2>22, <2>23 DEF Step
<1>2. ASSUME NEW t \in Threads, Uninstall(t) PROVE TypeOK'
  <2>1. NoFiles \in [Files -> Content] /\ ProcOf[t] \in Procs
    BY DEF NoFiles, Content
  <2>2. PcodeDestroy(ProcOf[t]) \in Pcodes
    BY <2>1 DEF TypeOK, Pcodes, PcodeDestroy
  <2> QED
    BY <1>2, <2>1, <2>2 DEF TypeOK, Uninstall, Destroy, SetCache, disk, thread, history
<1>3. ASSUME NEW t \in Threads, NEW m \in Mods, BeginLoad(t, m) PROVE TypeOK'
  BY <1>3 DEF TypeOK, Content, PCs, Ops, BeginLoad, Begin, Writer,
      NoFiles, disk, auginfo, thread, history, bounds
<1>4. ASSUME NEW t \in Threads, NEW m \in Mods, BeginStore(t, m) PROVE TypeOK'
  BY <1>4 DEF TypeOK, Content, PCs, Ops, BeginStore, Begin, User, NoFiles,
      disk, auginfo, thread, history, bounds
<1>5. ASSUME NEW t \in Threads, NEW m \in Mods, BeginRecover(t, m) PROVE TypeOK'
  BY <1>5 DEF TypeOK, Content, PCs, Ops, BeginRecover, Begin, User,
      NoFiles, disk, auginfo, thread, history, bounds
<1>6. ASSUME NEW t \in Threads, NEW m \in Mods, BeginAccess(t, m) PROVE TypeOK'
  BY <1>6 DEF TypeOK, Content, PCs, Ops, BeginAccess, Begin, NoFiles,
      disk, auginfo, thread, history, bounds
<1>7. ASSUME NEW t \in Threads, NEW m \in Mods, BeginModif(t, m) PROVE TypeOK'
  BY <1>7 DEF TypeOK, Content, PCs, Ops, BeginModif, Begin, NoFiles, disk,
      auginfo, thread, history, bounds
<1>8. ASSUME NEW p \in Procs, Crash(p) PROVE TypeOK'
  <2>1. NoFiles \in [Files -> Content]
    BY DEF NoFiles, Content
  <2>2. /\ pc' \in [Threads -> PCs] /\ op' \in [Threads -> Ops]
        /\ rc' \in [Threads -> {"ok", "err"}]
        /\ mod' \in [Threads -> Mods \cup {None}] /\ cur' \in [Threads -> Files \cup {None}]
    BY <1>8 DEF TypeOK, Crash, PCs, Ops
  <2>3. /\ new' \in [Threads -> [Files -> Content]]
        /\ todo' \in [Threads -> SUBSET Files] /\ edited' \in [Threads -> SUBSET Files]
    BY <1>8, <2>1 DEF TypeOK, Crash
  <2>4. dead' \in SUBSET Mods
    <3>1. \A s \in Threads : op[s] \in {"store", "recover"} => mod[s] \in Mods
      BY DEF TypeOK, Control
    <3> QED BY <1>8, <3>1 DEF TypeOK, Crash
  <2>5. /\ mods' \in [Procs -> SUBSET Mods] /\ tree' \in [Procs -> [Files -> Content]]
        /\ dirty' \in [Procs -> SUBSET Files] /\ pcode' \in [Procs -> Pcodes]
    BY <1>8, <2>1 DEF TypeOK, Pcodes, Crash, SetCache
  <2>6. UNCHANGED <<file, backup, last, calls>> /\ upsets' \in 0..MaxUpsets
    BY <1>8 DEF TypeOK, Crash, disk
  <2> QED
    BY <2>2, <2>3, <2>4, <2>5, <2>6 DEF TypeOK
<1>9. ASSUME NEW f \in Files, NEW c \in Vals \cup {Absent, Corrupt}, Edit(f, c) PROVE TypeOK'
  BY <1>9 DEF TypeOK, Content, PCs, Ops, Edit, NoFiles, disk, auginfo,
      thread, history, bounds
<1>10. CASE UNCHANGED vars
  BY <1>10 DEF TypeOK, Content, PCs, Ops, NoFiles, vars, disk, auginfo,
      thread, history, bounds
<1> QED
  BY <1>1, <1>2, <1>3, <1>4, <1>5, <1>6, <1>7, <1>8, <1>9, <1>10 DEF Next

-----------------------------------------------------------------------------
(* Control and the module lock *)

\* Every step keeps Control.
LEMMA ControlStep ==
    ASSUME TypeOK, Control, [Next]_vars
    PROVE  Control'
<1> USE ConstantsAssumption
<1>1. ASSUME NEW t \in Threads, Step(t) PROVE Control'
  <2>1. CASE InitFound(t)
    BY <2>1 DEF TypeOK, Control, InitFound, Goto, AfterInit, disk,
        auginfo, thread, history, bounds
  <2>2. CASE InitNew(t)
    BY <2>2 DEF TypeOK, Control, InitNew, Goto, AfterInit, SetCache, disk,
        auginfo, thread, history, bounds
  <2>3. CASE InitFail(t)
    BY <2>3 DEF TypeOK, Control, InitFail, Finish, Destroy, SetCache,
        disk, auginfo, thread, history, bounds
  <2>4. CASE LoadOk(t)
    BY <2>4 DEF TypeOK, Control, LoadOk, Finish, SetCache, disk, auginfo,
        thread, history, bounds
  <2>5. CASE LoadFail(t)
    BY <2>5 DEF TypeOK, Control, LoadFail, Finish, Destroy, SetCache,
        disk, auginfo, thread, history, bounds
  <2>6. CASE NoChange(t)
    BY <2>6 DEF TypeOK, Control, NoChange, Finish, disk, auginfo, thread,
        history, bounds
  <2>7. CASE Apply(t)
    BY <2>7 DEF TypeOK, Control, Apply, Goto, SetCache, disk, auginfo,
        thread, history, bounds
  <2>8. CASE ApplyFail(t)
    BY <2>8 DEF TypeOK, Control, ApplyFail, Finish, SetCache, disk,
        auginfo, thread, history, bounds
  <2>9. CASE Save(t)
    BY <2>9 DEF TypeOK, Control, Save, disk, auginfo, thread, history,
        bounds
  <2>10. CASE SaveWrite(t)
    BY <2>10 DEF TypeOK, Control, SaveWrite, disk, auginfo, thread,
        history, bounds
  <2>11. CASE SaveWriteFail(t)
    BY <2>11 DEF TypeOK, Control, SaveWriteFail, disk, auginfo, thread,
        history, bounds
  <2>12. CASE SaveEnd(t)
    BY <2>12 DEF TypeOK, Control, SaveEnd, Finish, disk, auginfo, thread,
        history, bounds
  <2>13. ASSUME NEW f \in Files, SaveBackup(t, f) PROVE Control'
    BY <2>13 DEF TypeOK, Control, SaveBackup, disk, auginfo, thread,
        history, bounds
  <2>14. ASSUME NEW f \in Files, SavePutFail(t, f) PROVE Control'
    BY <2>14 DEF TypeOK, Control, SavePutFail, disk, auginfo, thread,
        history, bounds
  <2>15. ASSUME NEW f \in Files, RecoverSkip(t, f) PROVE Control'
    BY <2>15 DEF TypeOK, Control, RecoverSkip, disk, auginfo, thread,
        history, bounds
  <2>16. ASSUME NEW f \in Files, RecoverTruncate(t, f) PROVE Control'
    BY <2>16 DEF TypeOK, Control, RecoverTruncate, disk, auginfo, thread,
        history, bounds
  <2>17. ASSUME NEW f \in Files, RecoverOpenFail(t, f) PROVE Control'
    BY <2>17 DEF TypeOK, Control, RecoverOpenFail, Finish, disk, auginfo,
        thread, history, bounds
  <2>18. CASE RecoverCopy(t)
    BY <2>18 DEF TypeOK, Control, RecoverCopy, Goto, disk, auginfo,
        thread, history, bounds
  <2>19. CASE RecoverCopyFail(t)
    BY <2>19 DEF TypeOK, Control, RecoverCopyFail, Finish, disk, auginfo,
        thread, history, bounds
  <2>20. CASE RecoverUnlink(t)
    BY <2>20 DEF TypeOK, Control, RecoverUnlink, disk, auginfo, thread,
        history, bounds
  <2>21. CASE RecoverUnlinkFail(t)
    BY <2>21 DEF TypeOK, Control, RecoverUnlinkFail, Finish, disk,
        auginfo, thread, history, bounds
  <2>22. CASE RecoverEnd(t)
    BY <2>22 DEF TypeOK, Control, RecoverEnd, Finish, disk, auginfo,
        thread, history, bounds
  <2>23. CASE Return(t)
    BY <2>23 DEF TypeOK, Control, Return, disk, auginfo, thread, history,
        bounds
  <2> QED
    BY <1>1, <2>1, <2>2, <2>3, <2>4, <2>5, <2>6, <2>7, <2>8, <2>9, <2>10,
        <2>11, <2>12, <2>13, <2>14, <2>15, <2>16, <2>17, <2>18, <2>19, <2>20,
        <2>21, <2>22, <2>23 DEF Step
<1>2. ASSUME NEW t \in Threads, Uninstall(t) PROVE Control'
  BY <1>2 DEF TypeOK, Control, Uninstall, Destroy, SetCache, disk,
      auginfo, thread, history, bounds
<1>3. ASSUME NEW t \in Threads, NEW m \in Mods, BeginLoad(t, m) PROVE Control'
  BY <1>3 DEF TypeOK, Control, BeginLoad, Begin, Writer, disk, auginfo,
      thread, history, bounds
<1>4. ASSUME NEW t \in Threads, NEW m \in Mods, BeginStore(t, m) PROVE Control'
  BY <1>4 DEF TypeOK, Control, BeginStore, Begin, User, disk, auginfo,
      thread, history, bounds
<1>5. ASSUME NEW t \in Threads, NEW m \in Mods, BeginRecover(t, m) PROVE Control'
  BY <1>5 DEF TypeOK, Control, BeginRecover, Begin, User, disk, auginfo,
      thread, history, bounds
<1>6. ASSUME NEW t \in Threads, NEW m \in Mods, BeginAccess(t, m) PROVE Control'
  BY <1>6 DEF TypeOK, Control, BeginAccess, Begin, disk, auginfo, thread,
      history, bounds
<1>7. ASSUME NEW t \in Threads, NEW m \in Mods, BeginModif(t, m) PROVE Control'
  BY <1>7 DEF TypeOK, Control, BeginModif, Begin, disk, auginfo, thread,
      history, bounds
<1>8. ASSUME NEW p \in Procs, Crash(p) PROVE Control'
  BY <1>8 DEF TypeOK, Control, Crash, SetCache, disk, auginfo, thread,
      history, bounds
<1>9. ASSUME NEW f \in Files, NEW c \in Vals \cup {Absent, Corrupt}, Edit(f, c) PROVE Control'
  BY <1>9 DEF TypeOK, Control, Edit, disk, auginfo, thread, history,
      bounds
<1>10. CASE UNCHANGED vars
  BY <1>10 DEF TypeOK, Control, vars, disk, auginfo, thread, history,
      bounds
<1> QED
  BY <1>1, <1>2, <1>3, <1>4, <1>5, <1>6, <1>7, <1>8, <1>9, <1>10 DEF Next

\* Every step keeps Exclusion.
LEMMA ExclusionStep ==
    ASSUME TypeOK, Control, Exclusion, [Next]_vars
    PROVE  Exclusion'
<1> USE ConstantsAssumption
<1>1. ASSUME NEW t \in Threads, Step(t) PROVE Exclusion'
  <2>1. CASE InitFound(t)
    BY <2>1 DEF TypeOK, Control, Exclusion, InitFound, Goto, AfterInit,
        Ops, disk, auginfo, thread, history, bounds
  <2>2. CASE InitNew(t)
    BY <2>2 DEF TypeOK, Control, Exclusion, InitNew, Goto, AfterInit,
        SetCache, Ops, disk, auginfo, thread, history, bounds
  <2>3. CASE InitFail(t)
    BY <2>3 DEF TypeOK, Control, Exclusion, InitFail, Finish, Destroy,
        SetCache, Ops, disk, auginfo, thread, history, bounds
  <2>4. CASE LoadOk(t)
    BY <2>4 DEF TypeOK, Control, Exclusion, LoadOk, Finish, SetCache, Ops,
        disk, auginfo, thread, history, bounds
  <2>5. CASE LoadFail(t)
    BY <2>5 DEF TypeOK, Control, Exclusion, LoadFail, Finish, Destroy,
        SetCache, Ops, disk, auginfo, thread, history, bounds
  <2>6. CASE NoChange(t)
    BY <2>6 DEF TypeOK, Control, Exclusion, NoChange, Finish, Ops, disk,
        auginfo, thread, history, bounds
  <2>7. CASE Apply(t)
    BY <2>7 DEF TypeOK, Control, Exclusion, Apply, Goto, SetCache, Ops,
        disk, auginfo, thread, history, bounds
  <2>8. CASE ApplyFail(t)
    BY <2>8 DEF TypeOK, Control, Exclusion, ApplyFail, Finish, SetCache,
        Ops, disk, auginfo, thread, history, bounds
  <2>9. CASE Save(t)
    BY <2>9 DEF TypeOK, Control, Exclusion, Save, Ops, disk, auginfo,
        thread, history, bounds
  <2>10. CASE SaveWrite(t)
    BY <2>10 DEF TypeOK, Control, Exclusion, SaveWrite, Ops, disk,
        auginfo, thread, history, bounds
  <2>11. CASE SaveWriteFail(t)
    BY <2>11 DEF TypeOK, Control, Exclusion, SaveWriteFail, Ops, disk,
        auginfo, thread, history, bounds
  <2>12. CASE SaveEnd(t)
    BY <2>12 DEF TypeOK, Control, Exclusion, SaveEnd, Finish, Ops, disk,
        auginfo, thread, history, bounds
  <2>13. ASSUME NEW f \in Files, SaveBackup(t, f) PROVE Exclusion'
    BY <2>13 DEF TypeOK, Control, Exclusion, SaveBackup, Ops, disk,
        auginfo, thread, history, bounds
  <2>14. ASSUME NEW f \in Files, SavePutFail(t, f) PROVE Exclusion'
    BY <2>14 DEF TypeOK, Control, Exclusion, SavePutFail, Ops, disk,
        auginfo, thread, history, bounds
  <2>15. ASSUME NEW f \in Files, RecoverSkip(t, f) PROVE Exclusion'
    BY <2>15 DEF TypeOK, Control, Exclusion, RecoverSkip, Ops, disk,
        auginfo, thread, history, bounds
  <2>16. ASSUME NEW f \in Files, RecoverTruncate(t, f) PROVE Exclusion'
    BY <2>16 DEF TypeOK, Control, Exclusion, RecoverTruncate, Ops, disk,
        auginfo, thread, history, bounds
  <2>17. ASSUME NEW f \in Files, RecoverOpenFail(t, f) PROVE Exclusion'
    BY <2>17 DEF TypeOK, Control, Exclusion, RecoverOpenFail, Finish, Ops,
        disk, auginfo, thread, history, bounds
  <2>18. CASE RecoverCopy(t)
    BY <2>18 DEF TypeOK, Control, Exclusion, RecoverCopy, Goto, Ops, disk,
        auginfo, thread, history, bounds
  <2>19. CASE RecoverCopyFail(t)
    BY <2>19 DEF TypeOK, Control, Exclusion, RecoverCopyFail, Finish, Ops,
        disk, auginfo, thread, history, bounds
  <2>20. CASE RecoverUnlink(t)
    BY <2>20 DEF TypeOK, Control, Exclusion, RecoverUnlink, Ops, disk,
        auginfo, thread, history, bounds
  <2>21. CASE RecoverUnlinkFail(t)
    BY <2>21 DEF TypeOK, Control, Exclusion, RecoverUnlinkFail, Finish,
        Ops, disk, auginfo, thread, history, bounds
  <2>22. CASE RecoverEnd(t)
    BY <2>22 DEF TypeOK, Control, Exclusion, RecoverEnd, Finish, Ops,
        disk, auginfo, thread, history, bounds
  <2>23. CASE Return(t)
    BY <2>23 DEF TypeOK, Control, Exclusion, Return, Ops, disk, auginfo,
        thread, history, bounds
  <2> QED
    BY <1>1, <2>1, <2>2, <2>3, <2>4, <2>5, <2>6, <2>7, <2>8, <2>9, <2>10,
        <2>11, <2>12, <2>13, <2>14, <2>15, <2>16, <2>17, <2>18, <2>19, <2>20,
        <2>21, <2>22, <2>23 DEF Step
<1>2. ASSUME NEW t \in Threads, Uninstall(t) PROVE Exclusion'
  BY <1>2 DEF TypeOK, Control, Exclusion, Uninstall, Destroy, SetCache,
      Ops, disk, auginfo, thread, history, bounds
<1>3. ASSUME NEW t \in Threads, NEW m \in Mods, BeginLoad(t, m) PROVE Exclusion'
  BY <1>3 DEF TypeOK, Control, Exclusion, BeginLoad, Begin, Writer, Ops,
      disk, auginfo, thread, history, bounds
<1>4. ASSUME NEW t \in Threads, NEW m \in Mods, BeginStore(t, m) PROVE Exclusion'
  BY <1>4 DEF TypeOK, Control, Exclusion, BeginStore, Begin, User, Ops,
      disk, auginfo, thread, history, bounds
<1>5. ASSUME NEW t \in Threads, NEW m \in Mods, BeginRecover(t, m) PROVE Exclusion'
  BY <1>5 DEF TypeOK, Control, Exclusion, BeginRecover, Begin, User, Ops,
      disk, auginfo, thread, history, bounds
<1>6. ASSUME NEW t \in Threads, NEW m \in Mods, BeginAccess(t, m) PROVE Exclusion'
  BY <1>6 DEF TypeOK, Control, Exclusion, BeginAccess, Begin, Ops, disk,
      auginfo, thread, history, bounds
<1>7. ASSUME NEW t \in Threads, NEW m \in Mods, BeginModif(t, m) PROVE Exclusion'
  BY <1>7 DEF TypeOK, Control, Exclusion, BeginModif, Begin, Ops, disk,
      auginfo, thread, history, bounds
<1>8. ASSUME NEW p \in Procs, Crash(p) PROVE Exclusion'
  BY <1>8 DEF TypeOK, Control, Exclusion, Crash, SetCache, Ops, disk,
      auginfo, thread, history, bounds
<1>9. ASSUME NEW f \in Files, NEW c \in Vals \cup {Absent, Corrupt}, Edit(f, c) PROVE Exclusion'
  BY <1>9 DEF TypeOK, Control, Exclusion, Edit, Ops, disk, auginfo,
      thread, history, bounds
<1>10. CASE UNCHANGED vars
  BY <1>10 DEF TypeOK, Control, Exclusion, Ops, vars, disk, auginfo,
      thread, history, bounds
<1> QED
  BY <1>1, <1>2, <1>3, <1>4, <1>5, <1>6, <1>7, <1>8, <1>9, <1>10 DEF Next

-----------------------------------------------------------------------------
(* What a store changes in the tree *)

\* Every step keeps Ownership: aug_load discards what an earlier store left, and
\* no other thread touches the cache of this process.
LEMMA OwnershipStep ==
    ASSUME OneThreadPerProcess, TypeOK, Control, Locality, Ownership, [Next]_vars
    PROVE  Ownership'
<1> USE ConstantsAssumption
<1>1. ASSUME NEW t \in Threads, Step(t) PROVE Ownership'
  <2>1. CASE InitFound(t)
    BY <2>1 DEF OneThreadPerProcess, TypeOK, Control, Locality, Ownership,
        InitFound, Goto, AfterInit, disk, auginfo, thread, history, bounds
  <2>2. CASE InitNew(t)
    BY <2>2 DEF OneThreadPerProcess, TypeOK, Control, Locality, Ownership,
        InitNew, Goto, AfterInit, SetCache, disk, auginfo, thread, history,
        bounds
  <2>3. CASE InitFail(t)
    BY <2>3 DEF OneThreadPerProcess, TypeOK, Control, Locality, Ownership,
        InitFail, Finish, Destroy, SetCache, disk, auginfo, thread, history,
        bounds
  <2>4. CASE LoadOk(t)
    <3>1. /\ UNCHANGED <<mod, cur>> /\ ProcOf[t] \in Procs
          /\ dirty' = [dirty EXCEPT ![ProcOf[t]] = {}]
          /\ \A s \in Threads : s # t => new'[s] = new[s] /\ todo'[s] = todo[s]
                                        /\ pc'[s] = pc[s] /\ tree'[ProcOf[s]] = tree[ProcOf[s]]
          /\ pc'[t] \in {"apply", "done"}
      BY <2>4 DEF OneThreadPerProcess, TypeOK, LoadOk, Finish, SetCache
    <3>2. \A s \in Threads : s # t => dirty'[ProcOf[s]] = dirty[ProcOf[s]]
      BY <3>1 DEF OneThreadPerProcess, TypeOK
    <3>3. dirty'[ProcOf[t]] = {}
      BY <3>1 DEF TypeOK
    <3> QED BY <3>1, <3>2, <3>3 DEF Ownership
  <2>5. CASE LoadFail(t)
    <3>1. /\ UNCHANGED <<mod, cur, new>> /\ ProcOf[t] \in Procs
          /\ dirty' = [dirty EXCEPT ![ProcOf[t]] = {}]
          /\ pc'[t] \in {"recfile", "done"}
      BY <2>5 DEF TypeOK, LoadFail, Finish, Destroy, SetCache
    <3>2. \A s \in Threads : s # t => todo'[s] = todo[s] /\ pc'[s] = pc[s]
      BY <2>5 DEF TypeOK, LoadFail, Finish
    <3>3. \A s \in Threads : s # t => tree'[ProcOf[s]] = tree[ProcOf[s]]
      BY <2>5 DEF OneThreadPerProcess, TypeOK, LoadFail, Destroy, SetCache
    <3>4. \A s \in Threads : s # t => dirty'[ProcOf[s]] = dirty[ProcOf[s]]
      BY <3>1 DEF OneThreadPerProcess, TypeOK
    <3> QED BY <3>1, <3>2, <3>3, <3>4 DEF Ownership
  <2>6. CASE NoChange(t)
    BY <2>6 DEF OneThreadPerProcess, TypeOK, Control, Locality, Ownership,
        NoChange, Finish, disk, auginfo, thread, history, bounds
  <2>7. CASE Apply(t)
    BY <2>7 DEF OneThreadPerProcess, TypeOK, Control, Locality, Ownership,
        Apply, Goto, SetCache, disk, auginfo, thread, history, bounds
  <2>8. CASE ApplyFail(t)
    BY <2>8 DEF OneThreadPerProcess, TypeOK, Control, Locality, Ownership,
        ApplyFail, Finish, SetCache, disk, auginfo, thread, history, bounds
  <2>9. CASE Save(t)
    BY <2>9 DEF OneThreadPerProcess, TypeOK, Control, Locality, Ownership,
        Save, disk, auginfo, thread, history, bounds
  <2>10. CASE SaveWrite(t)
    <3>1. ProcOf[t] \in Procs /\ cur[t] \notin todo[t]
      BY <2>10 DEF Ownership, SaveWrite
    <3>2. /\ dirty' = [dirty EXCEPT ![ProcOf[t]] = @ \ {cur[t]}]
          /\ pc' = [pc EXCEPT ![t] = "file"] /\ pc[t] = "write"
          /\ cur' = [cur EXCEPT ![t] = None]
          /\ UNCHANGED <<tree, mod, new, todo>>
      BY <2>10 DEF SaveWrite
    <3> SUFFICES ASSUME NEW s \in Threads PROVE Ownership!(s)'
      BY DEF Ownership
    <3>3. CASE s = t
      BY <3>1, <3>2, <3>3 DEF TypeOK, Ownership
    <3>4. CASE s # t
      <4>1. dirty'[ProcOf[s]] = dirty[ProcOf[s]]
        BY <3>1, <3>2, <3>4 DEF OneThreadPerProcess, TypeOK
      <4> QED BY <3>2, <3>4, <4>1 DEF TypeOK, Ownership
    <3> QED BY <3>3, <3>4
  <2>11. CASE SaveWriteFail(t)
    BY <2>11 DEF OneThreadPerProcess, TypeOK, Control, Locality,
        Ownership, SaveWriteFail, disk, auginfo, thread, history, bounds
  <2>12. CASE SaveEnd(t)
    BY <2>12 DEF OneThreadPerProcess, TypeOK, Control, Locality,
        Ownership, SaveEnd, Finish, disk, auginfo, thread, history, bounds
  <2>13. ASSUME NEW f \in Files, SaveBackup(t, f) PROVE Ownership'
    BY <2>13 DEF OneThreadPerProcess, TypeOK, Control, Locality,
        Ownership, SaveBackup, disk, auginfo, thread, history, bounds
  <2>14. ASSUME NEW f \in Files, SavePutFail(t, f) PROVE Ownership'
    BY <2>14 DEF OneThreadPerProcess, TypeOK, Control, Locality,
        Ownership, SavePutFail, disk, auginfo, thread, history, bounds
  <2>15. ASSUME NEW f \in Files, RecoverSkip(t, f) PROVE Ownership'
    BY <2>15 DEF OneThreadPerProcess, TypeOK, Control, Locality,
        Ownership, RecoverSkip, disk, auginfo, thread, history, bounds
  <2>16. ASSUME NEW f \in Files, RecoverTruncate(t, f) PROVE Ownership'
    BY <2>16 DEF OneThreadPerProcess, TypeOK, Control, Locality,
        Ownership, RecoverTruncate, disk, auginfo, thread, history, bounds
  <2>17. ASSUME NEW f \in Files, RecoverOpenFail(t, f) PROVE Ownership'
    BY <2>17 DEF OneThreadPerProcess, TypeOK, Control, Locality,
        Ownership, RecoverOpenFail, Finish, disk, auginfo, thread, history,
        bounds
  <2>18. CASE RecoverCopy(t)
    BY <2>18 DEF OneThreadPerProcess, TypeOK, Control, Locality,
        Ownership, RecoverCopy, Goto, disk, auginfo, thread, history, bounds
  <2>19. CASE RecoverCopyFail(t)
    BY <2>19 DEF OneThreadPerProcess, TypeOK, Control, Locality,
        Ownership, RecoverCopyFail, Finish, disk, auginfo, thread, history,
        bounds
  <2>20. CASE RecoverUnlink(t)
    BY <2>20 DEF OneThreadPerProcess, TypeOK, Control, Locality,
        Ownership, RecoverUnlink, disk, auginfo, thread, history, bounds
  <2>21. CASE RecoverUnlinkFail(t)
    BY <2>21 DEF OneThreadPerProcess, TypeOK, Control, Locality,
        Ownership, RecoverUnlinkFail, Finish, disk, auginfo, thread, history,
        bounds
  <2>22. CASE RecoverEnd(t)
    BY <2>22 DEF OneThreadPerProcess, TypeOK, Control, Locality,
        Ownership, RecoverEnd, Finish, disk, auginfo, thread, history, bounds
  <2>23. CASE Return(t)
    BY <2>23 DEF OneThreadPerProcess, TypeOK, Control, Locality,
        Ownership, Return, disk, auginfo, thread, history, bounds
  <2> QED
    BY <1>1, <2>1, <2>2, <2>3, <2>4, <2>5, <2>6, <2>7, <2>8, <2>9, <2>10,
        <2>11, <2>12, <2>13, <2>14, <2>15, <2>16, <2>17, <2>18, <2>19, <2>20,
        <2>21, <2>22, <2>23 DEF Step
<1>2. ASSUME NEW t \in Threads, Uninstall(t) PROVE Ownership'
  BY <1>2 DEF OneThreadPerProcess, TypeOK, Control, Locality, Ownership,
      Uninstall, Destroy, SetCache, disk, auginfo, thread, history, bounds
<1>3. ASSUME NEW t \in Threads, NEW m \in Mods, BeginLoad(t, m) PROVE Ownership'
  BY <1>3 DEF OneThreadPerProcess, TypeOK, Control, Locality, Ownership,
      BeginLoad, Begin, Writer, disk, auginfo, thread, history, bounds
<1>4. ASSUME NEW t \in Threads, NEW m \in Mods, BeginStore(t, m) PROVE Ownership'
  BY <1>4 DEF OneThreadPerProcess, TypeOK, Control, Locality, Ownership,
      BeginStore, Begin, User, disk, auginfo, thread, history, bounds
<1>5. ASSUME NEW t \in Threads, NEW m \in Mods, BeginRecover(t, m) PROVE Ownership'
  BY <1>5 DEF OneThreadPerProcess, TypeOK, Control, Locality, Ownership,
      BeginRecover, Begin, User, disk, auginfo, thread, history, bounds
<1>6. ASSUME NEW t \in Threads, NEW m \in Mods, BeginAccess(t, m) PROVE Ownership'
  BY <1>6 DEF OneThreadPerProcess, TypeOK, Control, Locality, Ownership,
      BeginAccess, Begin, disk, auginfo, thread, history, bounds
<1>7. ASSUME NEW t \in Threads, NEW m \in Mods, BeginModif(t, m) PROVE Ownership'
  BY <1>7 DEF OneThreadPerProcess, TypeOK, Control, Locality, Ownership,
      BeginModif, Begin, disk, auginfo, thread, history, bounds
<1>8. ASSUME NEW p \in Procs, Crash(p) PROVE Ownership'
  BY <1>8 DEF OneThreadPerProcess, TypeOK, Control, Locality, Ownership,
      Crash, SetCache, disk, auginfo, thread, history, bounds
<1>9. ASSUME NEW f \in Files, NEW c \in Vals \cup {Absent, Corrupt}, Edit(f, c) PROVE Ownership'
  BY <1>9 DEF OneThreadPerProcess, TypeOK, Control, Locality, Ownership,
      Edit, disk, auginfo, thread, history, bounds
<1>10. CASE UNCHANGED vars
  BY <1>10 DEF OneThreadPerProcess, TypeOK, Control, Locality, Ownership,
      vars, disk, auginfo, thread, history, bounds
<1> QED
  BY <1>1, <1>2, <1>3, <1>4, <1>5, <1>6, <1>7, <1>8, <1>9, <1>10 DEF Next

\* Every step keeps Locality: aug_save finds only the changes of this store.
LEMMA LocalityStep ==
    ASSUME TypeOK, Control, Ownership, Locality, [Next]_vars
    PROVE  Locality'
<1> USE ConstantsAssumption
<1>1. ASSUME NEW t \in Threads, Step(t) PROVE Locality'
  <2>1. CASE InitFound(t)
    BY <2>1 DEF TypeOK, Control, Locality, InitFound, Goto, AfterInit,
        disk, auginfo, thread, history, bounds
  <2>2. CASE InitNew(t)
    BY <2>2 DEF TypeOK, Control, Locality, InitNew, Goto, AfterInit,
        SetCache, disk, auginfo, thread, history, bounds
  <2>3. CASE InitFail(t)
    BY <2>3 DEF TypeOK, Control, Locality, InitFail, Finish, Destroy,
        SetCache, disk, auginfo, thread, history, bounds
  <2>4. CASE LoadOk(t)
    <3> DEFINE tr == AugLoad(mods[ProcOf[t]] \cup {mod[t]})
    <3>1. UNCHANGED <<op, mod, cur>>
      BY <2>4 DEF LoadOk, Finish
    <3>2. CASE op[t] = "store"
      <4>1. PICK nw \in Targets(tr, mod[t]) :
               todo' = [todo EXCEPT ![t] = {f \in Files : nw[f] # tr[f]}]
        BY <2>4, <3>2 DEF LoadOk
      <4>2. \A f \in Files : nw[f] # tr[f] => ModOf[f] = mod[t]
        BY DEF Targets, ConfigFiles, FilesOf
      <4>3. pc' = [pc EXCEPT ![t] = "apply"] /\ pc[t] = "load"
        BY <2>4, <3>2 DEF LoadOk
      <4> HIDE DEF tr
      <4> QED BY <3>1, <3>2, <4>1, <4>2, <4>3 DEF TypeOK, Control, Locality
    <3>3. CASE op[t] # "store"
      <4>1. pc' = [pc EXCEPT ![t] = "done"] /\ pc[t] = "load" /\ todo' = todo
        BY <2>4, <3>3 DEF LoadOk, Finish
      <4> QED BY <3>1, <4>1 DEF TypeOK, Control, Locality
    <3> QED BY <3>2, <3>3
  <2>5. CASE LoadFail(t)
    <3>1. UNCHANGED <<op, mod, cur>> /\ pc[t] = "load"
      BY <2>5 DEF LoadFail, Finish
    <3>2. CASE ~Finish(t, "err")
      <4>1. /\ pc' = [pc EXCEPT ![t] = "recfile"]
            /\ todo' = [todo EXCEPT ![t] = ConfigFiles(AugLoad(mods[ProcOf[t]] \cup {mod[t]}), mod[t])]
        BY <2>5, <3>2 DEF LoadFail
      <4>2. \A f \in ConfigFiles(AugLoad(mods[ProcOf[t]] \cup {mod[t]}), mod[t]) : ModOf[f] = mod[t]
        BY DEF ConfigFiles, FilesOf
      <4> QED BY <3>1, <4>1, <4>2 DEF TypeOK, Control, Locality
    <3>3. CASE Finish(t, "err")
      <4>1. pc' = [pc EXCEPT ![t] = "done"] /\ todo' = todo
        BY <3>3 DEF Finish
      <4> QED BY <3>1, <4>1 DEF TypeOK, Control, Locality
    <3> QED BY <3>2, <3>3
  <2>6. CASE NoChange(t)
    BY <2>6 DEF TypeOK, Control, Locality, NoChange, Finish, disk,
        auginfo, thread, history, bounds
  <2>7. CASE Apply(t)
    BY <2>7 DEF TypeOK, Control, Locality, Apply, Goto, SetCache, disk,
        auginfo, thread, history, bounds
  <2>8. CASE ApplyFail(t)
    BY <2>8 DEF TypeOK, Control, Locality, ApplyFail, Finish, SetCache,
        disk, auginfo, thread, history, bounds
  <2>9. CASE Save(t)
    BY <2>9 DEF TypeOK, Control, Ownership, Locality, Save
  <2>10. CASE SaveWrite(t)
    BY <2>10 DEF TypeOK, Control, Locality, SaveWrite, disk, auginfo,
        thread, history, bounds
  <2>11. CASE SaveWriteFail(t)
    BY <2>11 DEF TypeOK, Control, Locality, SaveWriteFail, disk, auginfo,
        thread, history, bounds
  <2>12. CASE SaveEnd(t)
    BY <2>12 DEF TypeOK, Control, Locality, SaveEnd, Finish, disk,
        auginfo, thread, history, bounds
  <2>13. ASSUME NEW f \in Files, SaveBackup(t, f) PROVE Locality'
    BY <2>13 DEF TypeOK, Control, Locality, SaveBackup, disk, auginfo,
        thread, history, bounds
  <2>14. ASSUME NEW f \in Files, SavePutFail(t, f) PROVE Locality'
    BY <2>14 DEF TypeOK, Control, Locality, SavePutFail, disk, auginfo,
        thread, history, bounds
  <2>15. ASSUME NEW f \in Files, RecoverSkip(t, f) PROVE Locality'
    BY <2>15 DEF TypeOK, Control, Locality, RecoverSkip, disk, auginfo,
        thread, history, bounds
  <2>16. ASSUME NEW f \in Files, RecoverTruncate(t, f) PROVE Locality'
    BY <2>16 DEF TypeOK, Control, Locality, RecoverTruncate, disk,
        auginfo, thread, history, bounds
  <2>17. ASSUME NEW f \in Files, RecoverOpenFail(t, f) PROVE Locality'
    BY <2>17 DEF TypeOK, Control, Locality, RecoverOpenFail, Finish, disk,
        auginfo, thread, history, bounds
  <2>18. CASE RecoverCopy(t)
    BY <2>18 DEF TypeOK, Control, Locality, RecoverCopy, Goto, disk,
        auginfo, thread, history, bounds
  <2>19. CASE RecoverCopyFail(t)
    BY <2>19 DEF TypeOK, Control, Locality, RecoverCopyFail, Finish, disk,
        auginfo, thread, history, bounds
  <2>20. CASE RecoverUnlink(t)
    BY <2>20 DEF TypeOK, Control, Locality, RecoverUnlink, disk, auginfo,
        thread, history, bounds
  <2>21. CASE RecoverUnlinkFail(t)
    BY <2>21 DEF TypeOK, Control, Locality, RecoverUnlinkFail, Finish,
        disk, auginfo, thread, history, bounds
  <2>22. CASE RecoverEnd(t)
    BY <2>22 DEF TypeOK, Control, Locality, RecoverEnd, Finish, disk,
        auginfo, thread, history, bounds
  <2>23. CASE Return(t)
    BY <2>23 DEF TypeOK, Control, Locality, Return, disk, auginfo, thread,
        history, bounds
  <2> QED
    BY <1>1, <2>1, <2>2, <2>3, <2>4, <2>5, <2>6, <2>7, <2>8, <2>9, <2>10,
        <2>11, <2>12, <2>13, <2>14, <2>15, <2>16, <2>17, <2>18, <2>19, <2>20,
        <2>21, <2>22, <2>23 DEF Step
<1>2. ASSUME NEW t \in Threads, Uninstall(t) PROVE Locality'
  BY <1>2 DEF TypeOK, Control, Locality, Uninstall, Destroy, SetCache,
      disk, auginfo, thread, history, bounds
<1>3. ASSUME NEW t \in Threads, NEW m \in Mods, BeginLoad(t, m) PROVE Locality'
  BY <1>3 DEF TypeOK, Control, Locality, BeginLoad, Begin, Writer, disk,
      auginfo, thread, history, bounds
<1>4. ASSUME NEW t \in Threads, NEW m \in Mods, BeginStore(t, m) PROVE Locality'
  BY <1>4 DEF TypeOK, Control, Locality, BeginStore, Begin, User, disk,
      auginfo, thread, history, bounds
<1>5. ASSUME NEW t \in Threads, NEW m \in Mods, BeginRecover(t, m) PROVE Locality'
  BY <1>5 DEF TypeOK, Control, Locality, BeginRecover, Begin, User, disk,
      auginfo, thread, history, bounds
<1>6. ASSUME NEW t \in Threads, NEW m \in Mods, BeginAccess(t, m) PROVE Locality'
  BY <1>6 DEF TypeOK, Control, Locality, BeginAccess, Begin, disk,
      auginfo, thread, history, bounds
<1>7. ASSUME NEW t \in Threads, NEW m \in Mods, BeginModif(t, m) PROVE Locality'
  BY <1>7 DEF TypeOK, Control, Locality, BeginModif, Begin, disk, auginfo,
      thread, history, bounds
<1>8. ASSUME NEW p \in Procs, Crash(p) PROVE Locality'
  BY <1>8 DEF TypeOK, Control, Locality, Crash, SetCache, disk, auginfo,
      thread, history, bounds
<1>9. ASSUME NEW f \in Files, NEW c \in Vals \cup {Absent, Corrupt}, Edit(f, c) PROVE Locality'
  BY <1>9 DEF TypeOK, Control, Locality, Edit, disk, auginfo, thread,
      history, bounds
<1>10. CASE UNCHANGED vars
  BY <1>10 DEF TypeOK, Control, Locality, vars, disk, auginfo, thread,
      history, bounds
<1> QED
  BY <1>1, <1>2, <1>3, <1>4, <1>5, <1>6, <1>7, <1>8, <1>9, <1>10 DEF Next

-----------------------------------------------------------------------------
(* The disk *)

\* Every step keeps Disk.
LEMMA DiskStep ==
    ASSUME TypeOK, Control, Exclusion, Locality, Disk, [Next]_vars
    PROVE  Disk'
<1> USE ConstantsAssumption
<1>1. ASSUME NEW t \in Threads, Step(t) PROVE Disk'
  <2>1. CASE InitFound(t)
    BY <2>1 DEF TypeOK, Control, Exclusion, Locality, Disk,
        InitFound, Goto, AfterInit, disk, auginfo, thread, history, bounds
  <2>2. CASE InitNew(t)
    BY <2>2 DEF TypeOK, Control, Exclusion, Locality, Disk,
        InitNew, Goto, AfterInit, SetCache, disk, auginfo, thread, history,
        bounds
  <2>3. CASE InitFail(t)
    BY <2>3 DEF TypeOK, Control, Exclusion, Locality, Disk,
        InitFail, Finish, Destroy, SetCache, disk, auginfo, thread, history,
        bounds
  <2>4. CASE LoadOk(t)
    BY <2>4 DEF TypeOK, Control, Exclusion, Locality, Disk,
        LoadOk, Finish, SetCache, disk, auginfo, thread, history, bounds
  <2>5. CASE LoadFail(t)
    BY <2>5 DEF TypeOK, Control, Exclusion, Locality, Disk,
        LoadFail, Finish, Destroy, SetCache, disk, auginfo, thread, history,
        bounds
  <2>6. CASE NoChange(t)
    BY <2>6 DEF TypeOK, Control, Exclusion, Locality, Disk,
        NoChange, Finish, disk, auginfo, thread, history, bounds
  <2>7. CASE Apply(t)
    BY <2>7 DEF TypeOK, Control, Exclusion, Locality, Disk,
        Apply, Goto, SetCache, disk, auginfo, thread, history, bounds
  <2>8. CASE ApplyFail(t)
    BY <2>8 DEF TypeOK, Control, Exclusion, Locality, Disk,
        ApplyFail, Finish, SetCache, disk, auginfo, thread, history, bounds
  <2>9. CASE Save(t)
    BY <2>9 DEF TypeOK, Control, Exclusion, Locality, Disk,
        Save, disk, auginfo, thread, history, bounds
  <2>10. CASE SaveWrite(t)
    BY <2>10 DEF TypeOK, Control, Exclusion, Locality,
        Disk, SaveWrite, disk, auginfo, thread, history, bounds
  <2>11. CASE SaveWriteFail(t)
    BY <2>11 DEF TypeOK, Control, Exclusion, Locality,
        Disk, SaveWriteFail, disk, auginfo, thread, history, bounds
  <2>12. CASE SaveEnd(t)
    BY <2>12 DEF TypeOK, Control, Exclusion, Locality,
        Disk, SaveEnd, Finish, disk, auginfo, thread, history, bounds
  <2>13. ASSUME NEW f \in Files, SaveBackup(t, f) PROVE Disk'
    <3>1. /\ pc[t] = "file" /\ op[t] = "store" /\ ModOf[f] = mod[t] /\ mod[t] # None
          /\ file[f] # Corrupt
          /\ pc' = [pc EXCEPT ![t] = "write"] /\ cur' = [cur EXCEPT ![t] = f]
          /\ UNCHANGED last
      BY <2>13 DEF Control, Locality, SaveBackup, history
    <3>2. \A s \in Threads : pc[s] = "recunlink" => cur[s] \in Files /\ cur[s] # f
      BY <3>1 DEF Control, Locality, Exclusion
    <3>3. CASE file[f] = Absent
      BY <2>13, <3>1, <3>3 DEF TypeOK, Disk, SaveBackup, disk
    <3>4. CASE file[f] # Absent
      <4>1. /\ backup' = [backup EXCEPT ![f] = file[f]]
            /\ file' = [file EXCEPT ![f] = Absent]
        BY <2>13, <3>4 DEF SaveBackup
      <4> QED BY <3>1, <3>2, <3>4, <4>1 DEF TypeOK, Disk
    <3> QED BY <3>3, <3>4
  <2>14. ASSUME NEW f \in Files, SavePutFail(t, f) PROVE Disk'
    BY <2>14 DEF TypeOK, Control, Exclusion, Locality,
        Disk, SavePutFail, disk, auginfo, thread, history, bounds
  <2>15. ASSUME NEW f \in Files, RecoverSkip(t, f) PROVE Disk'
    BY <2>15 DEF TypeOK, Control, Exclusion, Locality,
        Disk, RecoverSkip, disk, auginfo, thread, history, bounds
  <2>16. ASSUME NEW f \in Files, RecoverTruncate(t, f) PROVE Disk'
    <3>1. /\ op[t] = "recover" /\ ModOf[f] = mod[t] /\ mod[t] # None
          /\ \E c \in {Corrupt, Partial} : file' = [file EXCEPT ![f] = c]
          /\ last' = [last EXCEPT ![f] = backup[f]]
          /\ backup' = backup
          /\ pc' = [pc EXCEPT ![t] = "reccopy"] /\ cur' = [cur EXCEPT ![t] = f]
          /\ pc[t] = "recfile"
      BY <2>16 DEF Control, Locality, RecoverTruncate
    <3>2. \A s \in Threads : pc[s] = "recunlink" => cur[s] \in Files /\ cur[s] # f
      BY <3>1 DEF Control, Locality, Exclusion
    <3> QED BY <3>1, <3>2 DEF TypeOK, Disk
  <2>17. ASSUME NEW f \in Files, RecoverOpenFail(t, f) PROVE Disk'
    BY <2>17 DEF TypeOK, Control, Exclusion, Locality,
        Disk, RecoverOpenFail, Finish, disk, auginfo, thread, history, bounds
  <2>18. CASE RecoverCopy(t)
    BY <2>18 DEF TypeOK, Control, Exclusion, Locality,
        Disk, RecoverCopy, Goto, disk, auginfo, thread, history, bounds
  <2>19. CASE RecoverCopyFail(t)
    BY <2>19 DEF TypeOK, Control, Exclusion, Locality,
        Disk, RecoverCopyFail, Finish, disk, auginfo, thread, history, bounds
  <2>20. CASE RecoverUnlink(t)
    BY <2>20 DEF TypeOK, Control, Exclusion, Locality,
        Disk, RecoverUnlink, disk, auginfo, thread, history, bounds
  <2>21. CASE RecoverUnlinkFail(t)
    BY <2>21 DEF TypeOK, Control, Exclusion, Locality,
        Disk, RecoverUnlinkFail, Finish, disk, auginfo, thread, history,
        bounds
  <2>22. CASE RecoverEnd(t)
    BY <2>22 DEF TypeOK, Control, Exclusion, Locality,
        Disk, RecoverEnd, Finish, disk, auginfo, thread, history, bounds
  <2>23. CASE Return(t)
    BY <2>23 DEF TypeOK, Control, Exclusion, Locality,
        Disk, Return, disk, auginfo, thread, history, bounds
  <2> QED
    BY <1>1, <2>1, <2>2, <2>3, <2>4, <2>5, <2>6, <2>7, <2>8, <2>9, <2>10,
        <2>11, <2>12, <2>13, <2>14, <2>15, <2>16, <2>17, <2>18, <2>19, <2>20,
        <2>21, <2>22, <2>23 DEF Step
<1>2. ASSUME NEW t \in Threads, Uninstall(t) PROVE Disk'
  BY <1>2 DEF TypeOK, Control, Exclusion, Locality, Disk,
      Uninstall, Destroy, SetCache, disk, auginfo, thread, history, bounds
<1>3. ASSUME NEW t \in Threads, NEW m \in Mods, BeginLoad(t, m) PROVE Disk'
  BY <1>3 DEF TypeOK, Control, Exclusion, Locality, Disk,
      BeginLoad, Begin, Writer, disk, auginfo, thread, history, bounds
<1>4. ASSUME NEW t \in Threads, NEW m \in Mods, BeginStore(t, m) PROVE Disk'
  BY <1>4 DEF TypeOK, Control, Exclusion, Locality, Disk,
      BeginStore, Begin, User, disk, auginfo, thread, history, bounds
<1>5. ASSUME NEW t \in Threads, NEW m \in Mods, BeginRecover(t, m) PROVE Disk'
  BY <1>5 DEF TypeOK, Control, Exclusion, Locality, Disk,
      BeginRecover, Begin, User, disk, auginfo, thread, history, bounds
<1>6. ASSUME NEW t \in Threads, NEW m \in Mods, BeginAccess(t, m) PROVE Disk'
  BY <1>6 DEF TypeOK, Control, Exclusion, Locality, Disk,
      BeginAccess, Begin, disk, auginfo, thread, history, bounds
<1>7. ASSUME NEW t \in Threads, NEW m \in Mods, BeginModif(t, m) PROVE Disk'
  BY <1>7 DEF TypeOK, Control, Exclusion, Locality, Disk,
      BeginModif, Begin, disk, auginfo, thread, history, bounds
<1>8. ASSUME NEW p \in Procs, Crash(p) PROVE Disk'
  BY <1>8 DEF TypeOK, Control, Exclusion, Locality, Disk,
      Crash, SetCache, disk, auginfo, thread, history, bounds
<1>9. ASSUME NEW f \in Files, NEW c \in Vals \cup {Absent, Corrupt}, Edit(f, c) PROVE Disk'
  BY <1>9 DEF TypeOK, Control, Exclusion, Locality, Disk,
      Edit, disk, auginfo, thread, history, bounds
<1>10. CASE UNCHANGED vars
  BY <1>10 DEF TypeOK, Control, Exclusion, Locality, Disk,
      vars, disk, auginfo, thread, history, bounds
<1> QED
  BY <1>1, <1>2, <1>3, <1>4, <1>5, <1>6, <1>7, <1>8, <1>9, <1>10 DEF Next

-----------------------------------------------------------------------------
(* What a successful store leaves on the disk *)

\* A store is not disturbed by another thread that writes files of the module
\* which that thread has locked.
LEMMA SavedOthers ==
    ASSUME Control, Exclusion, Saved,
           NEW t \in Threads, NEW s \in Threads, s # t,
           op[t] \in {"store", "recover"}, mod[t] # None,
           \A g \in Files : ModOf[g] # mod[t] => file'[g] = file[g],
           /\ pc'[s] = pc[s] /\ op'[s] = op[s] /\ mod'[s] = mod[s] /\ new'[s] = new[s]
           /\ todo'[s] = todo[s] /\ cur'[s] = cur[s] /\ rc'[s] = rc[s]
           /\ edited'[s] = edited[s] /\ dirty'[ProcOf[s]] = dirty[ProcOf[s]]
    PROVE  Saved!(s)'
<1>1. CASE op[s] = "store"
  <2>1. mod[s] # mod[t]
    BY <1>1 DEF Control, Exclusion
  <2>2. \A g \in FilesOf(mod[s]) : file'[g] = file[g]
    BY <2>1 DEF FilesOf
  <2> QED BY <2>2 DEF Saved
<1>2. CASE op[s] # "store"
  BY <1>2 DEF Control
<1> QED BY <1>1, <1>2

\* Every step keeps Saved: nobody but this store writes files of its module.
LEMMA SavedStep ==
    ASSUME OneThreadPerProcess, TypeOK, Control, Exclusion, Ownership, Locality, Saved, [Next]_vars
    PROVE  Saved'
<1> USE ConstantsAssumption
<1>1. ASSUME NEW t \in Threads, Step(t) PROVE Saved'
  <2>1. CASE InitFound(t)
    BY <2>1 DEF OneThreadPerProcess, TypeOK, Control, Exclusion,
        Ownership, Locality, Saved, InitFound, Goto, AfterInit, FilesOf, disk,
        auginfo, thread, history, bounds
  <2>2. CASE InitNew(t)
    BY <2>2 DEF OneThreadPerProcess, TypeOK, Control, Exclusion,
        Ownership, Locality, Saved, InitNew, Goto, AfterInit, SetCache,
        FilesOf, disk, auginfo, thread, history, bounds
  <2>3. CASE InitFail(t)
    BY <2>3 DEF OneThreadPerProcess, TypeOK, Control, Exclusion,
        Ownership, Locality, Saved, InitFail, Finish, Destroy, SetCache,
        FilesOf, disk, auginfo, thread, history, bounds
  <2>4. CASE LoadOk(t)
    <3>1. \A s \in Threads : s # t =>
             /\ pc'[s] = pc[s] /\ op'[s] = op[s] /\ mod'[s] = mod[s] /\ new'[s] = new[s]
             /\ todo'[s] = todo[s] /\ cur'[s] = cur[s] /\ rc'[s] = rc[s]
             /\ edited'[s] = edited[s] /\ dirty'[ProcOf[s]] = dirty[ProcOf[s]]
      BY <2>4 DEF OneThreadPerProcess, TypeOK, LoadOk, Finish, SetCache, history
    <3>2. file' = file
      BY <2>4 DEF LoadOk, disk
    <3>3. ASSUME op[t] = "store" PROVE Saved!(t)'
      <4> DEFINE tr == AugLoad(mods[ProcOf[t]] \cup {mod[t]})
      <4>1. PICK nw \in Targets(tr, mod[t]) :
               /\ new' = [new EXCEPT ![t] = nw]
               /\ todo' = [todo EXCEPT ![t] = {f \in Files : nw[f] # tr[f]}]
        BY <2>4, <3>3 DEF LoadOk
      <4>2. pc' = [pc EXCEPT ![t] = "apply"] /\ mod' = mod
        BY <2>4, <3>3 DEF LoadOk
      <4>3. \A f \in FilesOf(mod[t]) : tr[f] = file[f]
        BY DEF AugLoad, FilesOf
      <4> HIDE DEF tr
      <4> QED BY <3>2, <4>1, <4>2, <4>3 DEF TypeOK, FilesOf
    <3>4. ASSUME op[t] # "store" PROVE Saved!(t)'
      BY <2>4, <3>4 DEF TypeOK, LoadOk, Finish
    <3>5. ASSUME NEW s \in Threads, s # t PROVE Saved!(s)'
      BY <3>1, <3>2, <3>5 DEF Saved
    <3> QED BY <3>3, <3>4, <3>5 DEF Saved
  <2>5. CASE LoadFail(t)
    <3>1. \A s \in Threads : s # t =>
             /\ pc'[s] = pc[s] /\ op'[s] = op[s] /\ mod'[s] = mod[s] /\ new'[s] = new[s]
             /\ todo'[s] = todo[s] /\ cur'[s] = cur[s] /\ rc'[s] = rc[s]
             /\ edited'[s] = edited[s] /\ dirty'[ProcOf[s]] = dirty[ProcOf[s]]
      BY <2>5 DEF OneThreadPerProcess, TypeOK, LoadFail, Finish, Destroy, SetCache, history
    <3>2. file' = file
      BY <2>5 DEF LoadFail, disk
    <3>3. pc'[t] \in {"recfile", "done"} /\ (pc'[t] = "done" => rc'[t] = "err")
      BY <2>5 DEF TypeOK, LoadFail, Finish
    <3>4. ASSUME NEW s \in Threads, s # t PROVE Saved!(s)'
      BY <3>1, <3>2, <3>4 DEF Saved
    <3> QED BY <3>3, <3>4 DEF Saved
  <2>6. CASE NoChange(t)
    BY <2>6 DEF OneThreadPerProcess, TypeOK, Control, Exclusion,
        Ownership, Locality, Saved, NoChange, Finish, FilesOf, disk, auginfo,
        thread, history, bounds
  <2>7. CASE Apply(t)
    BY <2>7 DEF OneThreadPerProcess, TypeOK, Control, Exclusion,
        Ownership, Locality, Saved, Apply, Goto, SetCache, FilesOf, disk,
        auginfo, thread, history, bounds
  <2>8. CASE ApplyFail(t)
    BY <2>8 DEF OneThreadPerProcess, TypeOK, Control, Exclusion,
        Ownership, Locality, Saved, ApplyFail, Finish, SetCache, FilesOf,
        disk, auginfo, thread, history, bounds
  <2>9. CASE Save(t)
    BY <2>9 DEF OneThreadPerProcess, TypeOK, Control, Exclusion,
        Ownership, Locality, Saved, Save, FilesOf, disk, auginfo, thread,
        history, bounds
  <2>10. CASE SaveWrite(t)
    <3>1. op[t] \in {"store", "recover"} /\ mod[t] # None
      BY <2>10 DEF Control, SaveWrite
    <3>2. \A g \in Files : ModOf[g] # mod[t] => file'[g] = file[g]
      BY <2>10 DEF TypeOK, Control, Locality, SaveWrite, disk
    <3>3. \A s \in Threads : s # t =>
             /\ pc'[s] = pc[s] /\ op'[s] = op[s] /\ mod'[s] = mod[s] /\ new'[s] = new[s]
             /\ todo'[s] = todo[s] /\ cur'[s] = cur[s] /\ rc'[s] = rc[s]
             /\ edited'[s] = edited[s] /\ dirty'[ProcOf[s]] = dirty[ProcOf[s]]
      BY <2>10 DEF TypeOK, SaveWrite, OneThreadPerProcess, auginfo, history
    <3>4. ASSUME NEW s \in Threads, s # t PROVE Saved!(s)'
      BY <3>1, <3>2, <3>3, <3>4, SavedOthers
    <3>5. Saved!(t)'
      <4>1. file'[cur[t]] = new[t][cur[t]] /\ \A g \in Files : g # cur[t] => file'[g] = file[g]
        BY <2>10 DEF TypeOK, Control, Ownership, SaveWrite
      <4>2. pc'[t] = "file" /\ UNCHANGED <<mod, new, todo, rc, edited>>
        BY <2>10 DEF TypeOK, SaveWrite
      <4> QED BY <2>10, <4>1, <4>2 DEF Saved, SaveWrite, FilesOf
    <3> QED BY <3>4, <3>5 DEF Saved
  <2>11. CASE SaveWriteFail(t)
    BY <2>11 DEF OneThreadPerProcess, TypeOK, Control, Exclusion,
        Ownership, Locality, Saved, SaveWriteFail, FilesOf, disk, auginfo,
        thread, history, bounds
  <2>12. CASE SaveEnd(t)
    BY <2>12 DEF OneThreadPerProcess, TypeOK, Control, Exclusion,
        Ownership, Locality, Saved, SaveEnd, Finish, FilesOf, disk, auginfo,
        thread, history, bounds
  <2>13. ASSUME NEW f \in Files, SaveBackup(t, f) PROVE Saved'
    <3>1. op[t] \in {"store", "recover"} /\ mod[t] # None
      BY <2>13 DEF Control, SaveBackup
    <3>2. \A g \in Files : ModOf[g] # mod[t] => file'[g] = file[g]
      BY <2>13 DEF TypeOK, Control, Locality, SaveBackup, disk
    <3>3. \A s \in Threads : s # t =>
             /\ pc'[s] = pc[s] /\ op'[s] = op[s] /\ mod'[s] = mod[s] /\ new'[s] = new[s]
             /\ todo'[s] = todo[s] /\ cur'[s] = cur[s] /\ rc'[s] = rc[s]
             /\ edited'[s] = edited[s] /\ dirty'[ProcOf[s]] = dirty[ProcOf[s]]
      BY <2>13 DEF TypeOK, SaveBackup, auginfo, history
    <3>4. ASSUME NEW s \in Threads, s # t PROVE Saved!(s)'
      BY <3>1, <3>2, <3>3, <3>4, SavedOthers
    <3>5. Saved!(t)'
      <4>1. \A g \in Files : g # f => file'[g] = file[g]
        BY <2>13 DEF TypeOK, SaveBackup, disk
      <4> QED BY <2>13, <4>1 DEF TypeOK, Saved, SaveBackup, FilesOf, history
    <3> QED BY <3>4, <3>5 DEF Saved
  <2>14. ASSUME NEW f \in Files, SavePutFail(t, f) PROVE Saved'
    BY <2>14 DEF OneThreadPerProcess, TypeOK, Control, Exclusion,
        Ownership, Locality, Saved, SavePutFail, FilesOf, disk, auginfo,
        thread, history, bounds
  <2>15. ASSUME NEW f \in Files, RecoverSkip(t, f) PROVE Saved'
    BY <2>15 DEF OneThreadPerProcess, TypeOK, Control, Exclusion,
        Ownership, Locality, Saved, RecoverSkip, FilesOf, disk, auginfo,
        thread, history, bounds
  <2>16. ASSUME NEW f \in Files, RecoverTruncate(t, f) PROVE Saved'
    <3>1. op[t] \in {"store", "recover"} /\ mod[t] # None
      BY <2>16 DEF Control, RecoverTruncate
    <3>2. \A g \in Files : ModOf[g] # mod[t] => file'[g] = file[g]
      BY <2>16 DEF TypeOK, Control, Locality, RecoverTruncate, disk
    <3>3. \A s \in Threads : s # t =>
             /\ pc'[s] = pc[s] /\ op'[s] = op[s] /\ mod'[s] = mod[s] /\ new'[s] = new[s]
             /\ todo'[s] = todo[s] /\ cur'[s] = cur[s] /\ rc'[s] = rc[s]
             /\ edited'[s] = edited[s] /\ dirty'[ProcOf[s]] = dirty[ProcOf[s]]
      BY <2>16 DEF TypeOK, RecoverTruncate, auginfo, history
    <3>4. ASSUME NEW s \in Threads, s # t PROVE Saved!(s)'
      BY <3>1, <3>2, <3>3, <3>4, SavedOthers
    <3>5. Saved!(t)'
      BY <2>16 DEF TypeOK, RecoverTruncate
    <3> QED BY <3>4, <3>5 DEF Saved
  <2>17. ASSUME NEW f \in Files, RecoverOpenFail(t, f) PROVE Saved'
    BY <2>17 DEF OneThreadPerProcess, TypeOK, Control, Exclusion,
        Ownership, Locality, Saved, RecoverOpenFail, Finish, FilesOf, disk,
        auginfo, thread, history, bounds
  <2>18. CASE RecoverCopy(t)
    <3>1. op[t] \in {"store", "recover"} /\ mod[t] # None
      BY <2>18 DEF Control, RecoverCopy
    <3>2. \A g \in Files : ModOf[g] # mod[t] => file'[g] = file[g]
      BY <2>18 DEF TypeOK, Control, Locality, RecoverCopy, disk
    <3>3. \A s \in Threads : s # t =>
             /\ pc'[s] = pc[s] /\ op'[s] = op[s] /\ mod'[s] = mod[s] /\ new'[s] = new[s]
             /\ todo'[s] = todo[s] /\ cur'[s] = cur[s] /\ rc'[s] = rc[s]
             /\ edited'[s] = edited[s] /\ dirty'[ProcOf[s]] = dirty[ProcOf[s]]
      BY <2>18 DEF TypeOK, RecoverCopy, Goto, auginfo, history
    <3>4. ASSUME NEW s \in Threads, s # t PROVE Saved!(s)'
      BY <3>1, <3>2, <3>3, <3>4, SavedOthers
    <3>5. Saved!(t)'
      BY <2>18 DEF TypeOK, RecoverCopy, Goto
    <3> QED BY <3>4, <3>5 DEF Saved
  <2>19. CASE RecoverCopyFail(t)
    BY <2>19 DEF OneThreadPerProcess, TypeOK, Control, Exclusion,
        Ownership, Locality, Saved, RecoverCopyFail, Finish, FilesOf, disk,
        auginfo, thread, history, bounds
  <2>20. CASE RecoverUnlink(t)
    BY <2>20 DEF OneThreadPerProcess, TypeOK, Control, Exclusion,
        Ownership, Locality, Saved, RecoverUnlink, FilesOf, disk, auginfo,
        thread, history, bounds
  <2>21. CASE RecoverUnlinkFail(t)
    BY <2>21 DEF OneThreadPerProcess, TypeOK, Control, Exclusion,
        Ownership, Locality, Saved, RecoverUnlinkFail, Finish, FilesOf, disk,
        auginfo, thread, history, bounds
  <2>22. CASE RecoverEnd(t)
    BY <2>22 DEF OneThreadPerProcess, TypeOK, Control, Exclusion,
        Ownership, Locality, Saved, RecoverEnd, Finish, FilesOf, disk,
        auginfo, thread, history, bounds
  <2>23. CASE Return(t)
    BY <2>23 DEF OneThreadPerProcess, TypeOK, Control, Exclusion,
        Ownership, Locality, Saved, Return, FilesOf, disk, auginfo, thread,
        history, bounds
  <2> QED
    BY <1>1, <2>1, <2>2, <2>3, <2>4, <2>5, <2>6, <2>7, <2>8, <2>9, <2>10,
        <2>11, <2>12, <2>13, <2>14, <2>15, <2>16, <2>17, <2>18, <2>19, <2>20,
        <2>21, <2>22, <2>23 DEF Step
<1>2. ASSUME NEW t \in Threads, Uninstall(t) PROVE Saved'
  BY <1>2 DEF OneThreadPerProcess, TypeOK, Control, Exclusion, Ownership,
      Locality, Saved, Uninstall, Destroy, SetCache, FilesOf, disk, auginfo,
      thread, history, bounds
<1>3. ASSUME NEW t \in Threads, NEW m \in Mods, BeginLoad(t, m) PROVE Saved'
  BY <1>3 DEF OneThreadPerProcess, TypeOK, Control, Exclusion, Ownership,
      Locality, Saved, BeginLoad, Begin, Writer, FilesOf, disk, auginfo,
      thread, history, bounds
<1>4. ASSUME NEW t \in Threads, NEW m \in Mods, BeginStore(t, m) PROVE Saved'
  BY <1>4 DEF OneThreadPerProcess, TypeOK, Control, Exclusion, Ownership,
      Locality, Saved, BeginStore, Begin, User, FilesOf, disk, auginfo,
      thread, history, bounds
<1>5. ASSUME NEW t \in Threads, NEW m \in Mods, BeginRecover(t, m) PROVE Saved'
  BY <1>5 DEF OneThreadPerProcess, TypeOK, Control, Exclusion, Ownership,
      Locality, Saved, BeginRecover, Begin, User, FilesOf, disk, auginfo,
      thread, history, bounds
<1>6. ASSUME NEW t \in Threads, NEW m \in Mods, BeginAccess(t, m) PROVE Saved'
  BY <1>6 DEF OneThreadPerProcess, TypeOK, Control, Exclusion, Ownership,
      Locality, Saved, BeginAccess, Begin, FilesOf, disk, auginfo, thread,
      history, bounds
<1>7. ASSUME NEW t \in Threads, NEW m \in Mods, BeginModif(t, m) PROVE Saved'
  BY <1>7 DEF OneThreadPerProcess, TypeOK, Control, Exclusion, Ownership,
      Locality, Saved, BeginModif, Begin, FilesOf, disk, auginfo, thread,
      history, bounds
<1>8. ASSUME NEW p \in Procs, Crash(p) PROVE Saved'
  BY <1>8 DEF OneThreadPerProcess, TypeOK, Control, Exclusion, Ownership,
      Locality, Saved, Crash, SetCache, FilesOf, disk, auginfo, thread,
      history, bounds
<1>9. ASSUME NEW f \in Files, NEW c \in Vals \cup {Absent, Corrupt}, Edit(f, c) PROVE Saved'
  BY <1>9 DEF OneThreadPerProcess, TypeOK, Control, Exclusion, Ownership,
      Locality, Saved, Edit, FilesOf, disk, auginfo, thread, history, bounds
<1>10. CASE UNCHANGED vars
  BY <1>10 DEF OneThreadPerProcess, TypeOK, Control, Exclusion, Ownership,
      Locality, Saved, FilesOf, vars, disk, auginfo, thread, history, bounds
<1> QED
  BY <1>1, <1>2, <1>3, <1>4, <1>5, <1>6, <1>7, <1>8, <1>9, <1>10 DEF Next

-----------------------------------------------------------------------------
(* Initial states *)

\* The initial states satisfy every part of the invariant.
LEMMA InitInv ==
    ASSUME Init
    PROVE  IInv
<1> USE ConstantsAssumption
<1>1. TypeOK
  BY DEF Init, TypeOK, Content, PCs, Ops, Pcodes, NoFiles
<1>2. Control /\ Exclusion /\ Ownership /\ Locality /\ Saved
  BY DEF Init, Control, Exclusion, Ownership, Locality, Saved
<1>3. Disk
  BY DEF Init, Disk
<1> QED
  BY <1>1, <1>2, <1>3 DEF Basic, Cached, IInv

-----------------------------------------------------------------------------
(* Theorems *)

\* The variables keep their types, for any number of threads in any processes:
\* the order in which the steps of the callbacks interleave never makes a thread
\* go on without a module or without a file at hand.
THEOREM TypeCorrect == Spec => []TypeOK
<1>1. Init => Basic
  BY InitInv DEF IInv, Cached
<1>2. Basic /\ [Next]_vars => Basic'
  BY TypeStep, ControlStep, ExclusionStep DEF Basic
<1>3. Basic => TypeOK
  BY DEF Basic
<1> QED
  BY <1>1, <1>2, <1>3, PTL DEF Spec

\* With one thread per process, aug_save in srpds_aug_store writes nothing but
\* what this store asked for.
THEOREM StoreWritesOwn ==
    ASSUME OneThreadPerProcess
    PROVE  Spec => []SaveWritesTarget
<1>1. Init => Cached
  BY InitInv DEF IInv
<1>2. Cached /\ [Next]_vars => Cached'
  BY TypeStep, ControlStep, ExclusionStep, OwnershipStep, LocalityStep, SavedStep
  DEF Basic, Cached
<1>3. Cached => SaveWritesTarget
  BY DEF Cached, Ownership, SaveWritesTarget
<1> QED
  BY <1>1, <1>2, <1>3, PTL DEF Spec

\* With one thread per process, SR_ERR_OK of srpds_aug_store means that the data
\* are in the files, whatever other processes do and whichever calls fail.
THEOREM StoreDurable ==
    ASSUME OneThreadPerProcess
    PROVE  Spec => []StoreOkSaved
<1>1. Init => Cached
  BY InitInv DEF IInv
<1>2. Cached /\ [Next]_vars => Cached'
  BY TypeStep, ControlStep, ExclusionStep, OwnershipStep, LocalityStep, SavedStep
  DEF Basic, Cached
<1>3. Cached => StoreOkSaved
  BY DEF Cached, Saved, StoreOkSaved
<1> QED
  BY <1>1, <1>2, <1>3, PTL DEF Spec

\* The whole invariant is inductive.
LEMMA Inductive ==
    ASSUME OneThreadPerProcess
    PROVE  Spec => []IInv
<1>1. Init => IInv
  BY InitInv
<1>2. IInv /\ [Next]_vars => IInv'
  BY TypeStep, ControlStep, ExclusionStep, OwnershipStep, LocalityStep, SavedStep, DiskStep
  DEF Basic, Cached, IInv
<1> QED
  BY <1>1, <1>2, PTL DEF Spec

\* No crash, failed call or external edit loses the content last given to a file:
\* it is in the file or in its .augsave backup, unless a store found the file torn
\* and parsable and its save has moved the remains over the backup.
THEOREM ContentSurvives ==
    ASSUME OneThreadPerProcess
    PROVE  Spec => []LostOnlyToTorn
<1>1. IInv => LostOnlyToTorn
  BY DEF IInv, Disk, LostOnlyToTorn
<1> QED
  BY <1>1, Inductive, PTL

\* srpds_aug_load hands out what was last given to a file; the remains of an
\* interrupted overwrite only while the backup still has the content.
THEOREM LoadCommitted ==
    ASSUME OneThreadPerProcess
    PROVE  Spec => LoadSeesCommitted
<1> USE ConstantsAssumption
<1>1. ASSUME IInv, NEW t \in Threads, LoadOk(t), NEW f \in FilesOf(mod[t])
      PROVE  \/ tree'[ProcOf[t]][f] \in {last[f], Absent}
             \/ tree'[ProcOf[t]][f] = Partial /\ backup[f] = last[f]
  <2> DEFINE tr == AugLoad(mods[ProcOf[t]] \cup {mod[t]})
  <2>1. f \in Files /\ tr[f] = file[f]
    BY DEF AugLoad, FilesOf
  <2>2. file[f] # Corrupt
    BY <1>1, <2>1 DEF LoadOk, HasError
  <2>3. file[f] \in {last[f], Absent} \/ (file[f] = Partial /\ backup[f] = last[f])
    BY <1>1, <2>1, <2>2 DEF IInv, Disk
  <2>4. tree'[ProcOf[t]] = tr
    BY <1>1 DEF LoadOk, SetCache, IInv, Cached, Basic, TypeOK
  <2> QED BY <2>1, <2>3, <2>4
<1>2. IInv =>
        [\A t \in Threads : LoadOk(t) =>
            \A f \in FilesOf(mod[t]) :
                \/ tree'[ProcOf[t]][f] \in {last[f], Absent}
                \/ tree'[ProcOf[t]][f] = Partial /\ backup[f] = last[f]]_vars
  BY <1>1
<1> QED
  BY <1>2, Inductive, PTL DEF LoadSeesCommitted
=============================================================================
