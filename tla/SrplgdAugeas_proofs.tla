------------------------ MODULE SrplgdAugeas_proofs ------------------------
(***************************************************************************)
(* Proofs about SrplgdAugeas, for any modules, contexts, faults and bounds. *)
(***************************************************************************)
EXTENDS SrplgdAugeas, TLAPS

(***************************************************************************)
(* The inductive invariant.                                                *)
(***************************************************************************)

\* Only modules with a callback are subscribed, so only these have events.
Routed == \A m \in Mods : event[m] # "none" => m \in Supported

\* A running daemon has a PID file: one without is not running.
PidFiles == \A d \in Daemons : state[d] = "up" => pidfile[d]

\* Daemon d does not run, or has a signal that makes it read its configuration
\* or exit, or uses what is stored for module m.
Fresh(d, m) == state[d] = "up" /\ sig[d] = "none" => conf[d][m] = stored[m]

\* A module without an unhandled change has fresh daemons; while its callback
\* runs, those whose command is behind.  Reading a PID file tells no daemon.
HandledFor(m) ==
    m \notin missed /\ event[m] # "done" =>
        \A i \in DOMAIN CallbackOf[m] :
            (cb = m => i < pos /\ CallbackOf[m][i].kind # "pidfile") =>
                Fresh(CallbackOf[m][i].daemon, m)

Handled == \A m \in Mods : HandledFor(m)

IInv == TypeOK /\ Routed /\ PidFiles /\ Handled

-----------------------------------------------------------------------------
(* The callbacks *)

Kinds == {"try-restart", "restart", "reload", "kill", "start", "pidfile", "hup", "term"}

\* What the proofs need of a callback c: a PID file is read for the only daemon
\* of the callback, which a later command tells about its configuration.
GoodCallback(c) ==
    /\ Len(c) \in Nat /\ DOMAIN c = 1..Len(c)
    /\ c # <<>> => 1 \in DOMAIN c
    /\ \A i \in DOMAIN c : /\ c[i].kind \in Kinds
                           /\ c[i] = Do(c[i].kind, c[i].daemon)
    /\ \A i \in DOMAIN c : c[i].kind = "pidfile" =>
          /\ \A j \in DOMAIN c : c[j].daemon = c[i].daemon
          /\ \E j \in DOMAIN c : c[j].kind # "pidfile"
          /\ i # Len(c)

\* Every callback function of the plugin is such a sequence.
LEMMA CallbacksGood == \A m : GoodCallback(Callback(m))
<1> USE DEF GoodCallback, Do, Kinds
<1>1. \A s : GoodCallback(aug_service_change_cb(s))
  BY DEF aug_service_change_cb
<1>2. GoodCallback(aug_actimemq_change_cb)
  BY DEF aug_actimemq_change_cb
<1>3. GoodCallback(aug_avahi_change_cb)
  BY DEF aug_avahi_change_cb
<1>4. GoodCallback(aug_cachefilesd_change_cb)
  BY DEF aug_cachefilesd_change_cb
<1>5. GoodCallback(aug_clamav_change_cb)
  BY DEF aug_clamav_change_cb
<1>6. GoodCallback(aug_carbon_change_cb)
  BY DEF aug_carbon_change_cb
<1>7. GoodCallback(aug_dhcpd_change_cb)
  BY DEF aug_dhcpd_change_cb
<1>8. GoodCallback(aug_exports_change_cb)
  BY DEF aug_exports_change_cb
<1>9. GoodCallback(aug_ldso_change_cb)
  BY DEF aug_ldso_change_cb
<1>10. GoodCallback(aug_netplan_change_cb)
  BY DEF aug_netplan_change_cb
<1>11. GoodCallback(aug_pg_hba_change_cb)
  BY DEF aug_pg_hba_change_cb
<1>12. GoodCallback(aug_postfix_change_cb)
  BY DEF aug_postfix_change_cb
<1>13. \A etc, local : GoodCallback(aug_postmap_change_cb(etc, local))
  BY DEF aug_postmap_change_cb
<1>14. GoodCallback(aug_rtadvd_change_cb)
  BY DEF aug_rtadvd_change_cb
<1>15. GoodCallback(aug_samba_change_cb)
  BY DEF aug_samba_change_cb
<1>16. GoodCallback(aug_sysctl_change_cb)
  BY DEF aug_sysctl_change_cb
<1>17. GoodCallback(aug_webmin_change_cb)
  BY DEF aug_webmin_change_cb
<1>18. GoodCallback(<<>>)
  OBVIOUS
<1> HIDE DEF GoodCallback, Do, Kinds
<1> QED
  BY <1>1, <1>2, <1>3, <1>4, <1>5, <1>6, <1>7, <1>8, <1>9, <1>10, <1>11, <1>12,
     <1>13, <1>14, <1>15, <1>16, <1>17, <1>18 DEF Callback

LEMMA CallbackOfGood ==
    ASSUME NEW m \in Mods
    PROVE  /\ GoodCallback(CallbackOf[m])
           /\ CallbackOf[m] # <<>> <=> m \in Supported
           /\ \A i \in DOMAIN CallbackOf[m] : CallbackOf[m][i].daemon \in DaemonsOf(m)
           /\ DaemonsOf(m) \subseteq Daemons
BY CallbacksGood DEF CallbackOf, Supported, DaemonsOf, Daemons

-----------------------------------------------------------------------------
(* Types *)

\* What the handler changes.
HandlerOK ==
    /\ cb \in Mods \cup {None}
    /\ pos \in Nat
    /\ cb # None => pos \in DOMAIN CallbackOf[cb]
    /\ pid \in {"none", "live", "gone"}
    /\ event \in [Mods -> {"none", "change", "done", "abort", "busy"}]

\* A command belongs to the callback that runs and to one of its daemons.
LEMMA CommandOf ==
    ASSUME TypeOK, NEW kind, NEW d, Cmd(kind, d)
    PROVE  /\ cb \in Mods /\ pos \in DOMAIN CallbackOf[cb]
           /\ CallbackOf[cb][pos].kind = kind /\ CallbackOf[cb][pos].daemon = d
           /\ d \in DaemonsOf(cb) /\ d \in Daemons
<1>1. cb \in Mods /\ pos \in DOMAIN CallbackOf[cb]
  BY DEF TypeOK, Cmd
<1>2. CallbackOf[cb][pos].kind = kind /\ CallbackOf[cb][pos].daemon = d
  BY DEF Cmd, Do
<1> QED
  BY <1>1, <1>2, CallbackOfGood

\* The callback returns.
LEMMA FinishType ==
    ASSUME TypeOK, Routed, cb \in Mods, Finish
    PROVE  HandlerOK' /\ Routed'
BY DEF TypeOK, Routed, HandlerOK, Finish

\* The callback goes on, or returns at its end.
LEMMA GoOnType ==
    ASSUME TypeOK, Routed, cb \in Mods, NEW p \in {"none", "live", "gone"}, GoOn(p)
    PROVE  HandlerOK' /\ Routed'
<1>1. CASE pos = Len(CallbackOf[cb])
  BY <1>1, FinishType DEF GoOn
<1>2. CASE pos # Len(CallbackOf[cb])
  <2>1. /\ DOMAIN CallbackOf[cb] = 1..Len(CallbackOf[cb])
        /\ Len(CallbackOf[cb]) \in Nat
    BY CallbackOfGood DEF GoodCallback
  <2>2. pos + 1 \in DOMAIN CallbackOf[cb]
    BY <1>2, <2>1, PluginAssumption DEF TypeOK
  <2> QED
    BY <1>2, <2>2 DEF GoOn, TypeOK, Routed, HandlerOK
<1> QED
  BY <1>1, <1>2

\* What a command leaves alone, and what it makes of the handler.
CommandOK ==
    /\ HandlerOK' /\ Routed'
    /\ missed' \subseteq Mods
    /\ UNCHANGED <<plugind, context, commit, stored, bounds>>

\* The command is carried out.
LEMMA SucceedType ==
    ASSUME TypeOK, Routed, cb \in Mods, Succeed
    PROVE  CommandOK
BY GoOnType DEF TypeOK, Succeed, CommandOK

\* The command fails.
LEMMA FailType ==
    ASSUME TypeOK, Routed, cb \in Mods, Fail
    PROVE  CommandOK
BY GoOnType, FinishType DEF TypeOK, Fail, CommandOK

\* A daemon starts and reads its configuration.
LEMMA StartsType ==
    ASSUME TypeOK, NEW d \in Daemons, Starts(d)
    PROVE  /\ state' \in [Daemons -> {"up", "down"}]
           /\ pidfile' \in [Daemons -> BOOLEAN]
           /\ sig' \in [Daemons -> {"none", "hup", "term"}]
           /\ conf' \in [Daemons -> [Mods -> Nat]]
BY DEF TypeOK, Starts, Reads

\* The daemons in use are among the daemons.
LEMMA InUseDaemons ==
    ASSUME TypeOK
    PROVE  InUse \subseteq Daemons
BY DEF TypeOK, InUse, Daemons

\* Every step keeps the types, and the events for modules with a callback.
LEMMA TypeStep ==
    ASSUME TypeOK, Routed, [Next]_vars
    PROVE  TypeOK' /\ Routed'
<1> USE PluginAssumption
<1> USE DEF plugind, handler, sysrepo, daemon, bounds
<1>1. CASE PluginStart
  BY <1>1 DEF TypeOK, Routed, PluginStart
<1>2. CASE InitDone
  BY <1>2 DEF TypeOK, Routed, InitDone
<1>3. CASE Cleanup
  BY <1>3 DEF TypeOK, Routed, Cleanup, Unsubscribe
<1>4. ASSUME NEW m \in Mods, Subscribe(m) PROVE TypeOK' /\ Routed'
  BY <1>4 DEF TypeOK, Routed, Subscribe
<1>5. ASSUME NEW m \in Mods, SubscribeFail(m) PROVE TypeOK' /\ Routed'
  BY <1>5 DEF TypeOK, Routed, SubscribeFail, Unsubscribe
<1>6. ASSUME NEW m \in Mods, Commit(m) PROVE TypeOK' /\ Routed'
  BY <1>6 DEF TypeOK, Routed, Commit, Publish
<1>7. ASSUME NEW m \in Mods, Store(m) PROVE TypeOK' /\ Routed'
  BY <1>7 DEF TypeOK, Routed, Store, Publish
<1>8. ASSUME NEW m \in Mods, Abort(m) PROVE TypeOK' /\ Routed'
  BY <1>8 DEF TypeOK, Routed, Abort, Publish
<1>9. ASSUME NEW m \in Mods, Timeout(m) PROVE TypeOK' /\ Routed'
  BY <1>9 DEF TypeOK, Routed, Timeout
<1>10. ASSUME NEW m \in Mods, HandleOther(m) PROVE TypeOK' /\ Routed'
  BY <1>10 DEF TypeOK, Routed, HandleOther
<1>11. ASSUME NEW m \in Mods, HandleDone(m) PROVE TypeOK' /\ Routed'
  <2>1. 1 \in DOMAIN CallbackOf[m]
    BY <1>11, CallbackOfGood DEF Routed, HandleDone, GoodCallback
  <2> QED
    BY <1>11, <2>1 DEF TypeOK, Routed, HandleDone
<1>12. ASSUME NEW d \in InUse, TryRestart(d) PROVE TypeOK' /\ Routed'
  <2>1. cb \in Mods /\ d \in Daemons
    BY <1>12, CommandOf DEF TryRestart
  <2>2. CommandOK
    BY <1>12, <2>1, SucceedType DEF TryRestart
  <2> QED
    BY <1>12, <2>1, <2>2, StartsType DEF TypeOK, CommandOK, HandlerOK, TryRestart
<1>13. ASSUME NEW d \in InUse, Restart(d) PROVE TypeOK' /\ Routed'
  <2>1. cb \in Mods /\ d \in Daemons
    BY <1>13, CommandOf DEF Restart
  <2>2. CommandOK
    BY <1>13, <2>1, SucceedType DEF Restart
  <2> QED
    BY <1>13, <2>1, <2>2, StartsType DEF TypeOK, CommandOK, HandlerOK, Restart
<1>14. ASSUME NEW d \in InUse, Reload(d) PROVE TypeOK' /\ Routed'
  <2>1. cb \in Mods /\ d \in Daemons
    BY <1>14, CommandOf DEF Reload
  <2>2. CommandOK
    BY <1>14, <2>1, SucceedType DEF Reload
  <2> QED
    BY <1>14, <2>1, <2>2 DEF TypeOK, CommandOK, HandlerOK, Reload, Reads
<1>15. ASSUME NEW d \in InUse, Start(d) PROVE TypeOK' /\ Routed'
  <2>1. cb \in Mods /\ d \in Daemons
    BY <1>15, CommandOf DEF Start
  <2>2. CommandOK
    BY <1>15, <2>1, SucceedType DEF Start
  <2> QED
    BY <1>15, <2>1, <2>2, StartsType DEF TypeOK, CommandOK, HandlerOK, Start
<1>16. ASSUME NEW d \in InUse, ExecFail(d) PROVE TypeOK' /\ Routed'
  <2>1. cb \in Mods /\ d \in Daemons
    BY <1>16, CommandOf DEF ExecFail
  <2>2. CommandOK
    BY <1>16, <2>1, FailType DEF ExecFail
  <2>3. state' \in [Daemons -> {"up", "down"}]
    BY <1>16 DEF ExecFail, TypeOK
  <2> QED
    BY <1>16, <2>2, <2>3 DEF TypeOK, CommandOK, HandlerOK, ExecFail
<1>17. ASSUME NEW d \in InUse, PidFound(d) PROVE TypeOK' /\ Routed'
  <2>1. cb \in Mods /\ d \in Daemons
    BY <1>17, CommandOf DEF PidFound
  <2>2. HandlerOK' /\ Routed'
    BY <1>17, <2>1, GoOnType DEF PidFound
  <2> QED
    BY <1>17, <2>2 DEF TypeOK, HandlerOK, PidFound
<1>18. ASSUME NEW d \in InUse, PidNotFound(d) PROVE TypeOK' /\ Routed'
  <2>1. cb \in Mods /\ d \in Daemons
    BY <1>18, CommandOf DEF PidNotFound
  <2>2. HandlerOK' /\ Routed'
    BY <1>18, <2>1, FinishType DEF PidNotFound
  <2> QED
    BY <1>18, <2>2 DEF TypeOK, HandlerOK, PidNotFound
<1>19. ASSUME NEW d \in InUse, PidFail(d) PROVE TypeOK' /\ Routed'
  <2>1. cb \in Mods /\ d \in Daemons
    BY <1>19, CommandOf DEF PidFail
  <2>2. CommandOK
    BY <1>19, <2>1, FailType DEF PidFail
  <2> QED
    BY <1>19, <2>2 DEF TypeOK, CommandOK, HandlerOK, PidFail
<1>20. ASSUME NEW d \in InUse, Kill(d) PROVE TypeOK' /\ Routed'
  <2>1. cb \in Mods /\ d \in Daemons
    BY <1>20, CommandOf DEF Kill
  <2>2. CommandOK
    BY <1>20, <2>1, SucceedType DEF Kill
  <2>3. sig' \in [Daemons -> {"none", "hup", "term"}]
    BY <1>20, <2>1 DEF Kill, Signal, TypeOK
  <2> QED
    BY <1>20, <2>2, <2>3 DEF TypeOK, CommandOK, HandlerOK, Kill
<1>21. ASSUME NEW d \in InUse, KillFail(d) PROVE TypeOK' /\ Routed'
  <2>1. cb \in Mods /\ d \in Daemons
    BY <1>21, CommandOf DEF KillFail
  <2>2. CommandOK
    BY <1>21, <2>1, FailType DEF KillFail
  <2> QED
    BY <1>21, <2>2 DEF TypeOK, CommandOK, HandlerOK, KillFail
<1>22. ASSUME NEW d \in InUse, DaemonActs(d) PROVE TypeOK' /\ Routed'
  <2>1. d \in Daemons
    BY InUseDaemons
  <2>2. /\ state' \in [Daemons -> {"up", "down"}]
        /\ pidfile' \in [Daemons -> BOOLEAN]
        /\ sig' \in [Daemons -> {"none", "hup", "term"}]
        /\ conf' \in [Daemons -> [Mods -> Nat]]
        /\ pid' \in {"none", "live", "gone"}
    <3>1. CASE sig[d] = "hup"
      <4>1. /\ conf' = [conf EXCEPT ![d] = stored] /\ sig' = [sig EXCEPT ![d] = "none"]
            /\ UNCHANGED <<state, pidfile, pid>>
        BY <1>22, <3>1 DEF DaemonActs, Reads
      <4> QED
        BY <2>1, <4>1 DEF TypeOK
    <3>2. CASE sig[d] = "term"
      BY <1>22, <2>1, <3>2 DEF TypeOK, DaemonActs, Exits
    <3> QED
      BY <1>22, <3>1, <3>2 DEF DaemonActs
  <2> QED
    BY <1>22, <2>2 DEF TypeOK, Routed, DaemonActs
<1>23. ASSUME NEW d \in InUse, AdminStop(d) PROVE TypeOK' /\ Routed'
  BY <1>23, InUseDaemons DEF TypeOK, Routed, AdminStop, Exits
<1>24. ASSUME NEW d \in InUse, AdminStart(d) PROVE TypeOK' /\ Routed'
  BY <1>24, InUseDaemons, StartsType DEF TypeOK, Routed, AdminStart
<1>25. CASE UNCHANGED vars
  BY <1>25 DEF TypeOK, Routed, vars
<1> QED
  BY <1>1, <1>2, <1>3, <1>4, <1>5, <1>6, <1>7, <1>8, <1>9, <1>10, <1>11, <1>12, <1>13,
     <1>14, <1>15, <1>16, <1>17, <1>18, <1>19, <1>20, <1>21, <1>22, <1>23, <1>24, <1>25
     DEF Next, Handle

-----------------------------------------------------------------------------
(* Daemons *)

\* What a step may do with daemon d, whoever takes it: it leaves d alone, d
\* reads its configuration, d goes down, or d gets a signal.
DaemonStep(d) ==
    \/ state'[d] = state[d] /\ sig'[d] = sig[d] /\ conf'[d] = conf[d]
    \/ conf'[d] = stored
    \/ state'[d] = "down"
    \/ sig'[d] # "none"

\* Every step is of that kind for every daemon, and no step takes away the PID
\* file of a daemon that goes on running.
LEMMA StepOfDaemon ==
    ASSUME TypeOK, PidFiles, [Next]_vars, NEW d \in Daemons
    PROVE  /\ DaemonStep(d)
           /\ state'[d] = "up" => pidfile'[d]
<1> USE DEF plugind, handler, sysrepo, daemon, bounds, DaemonStep
<1>1. ASSUME UNCHANGED daemon PROVE DaemonStep(d) /\ (state'[d] = "up" => pidfile'[d])
  BY <1>1 DEF PidFiles
<1>2. ASSUME NEW e \in Daemons, Starts(e)
      PROVE  DaemonStep(d) /\ (state'[d] = "up" => pidfile'[d])
  BY <1>2 DEF TypeOK, PidFiles, Starts, Reads
<1>3. ASSUME NEW e \in InUse, TryRestart(e)
      PROVE  DaemonStep(d) /\ (state'[d] = "up" => pidfile'[d])
  BY <1>3, <1>1, <1>2, InUseDaemons DEF TryRestart
<1>4. ASSUME NEW e \in InUse, Reload(e)
      PROVE  DaemonStep(d) /\ (state'[d] = "up" => pidfile'[d])
  BY <1>4, InUseDaemons DEF TypeOK, PidFiles, Reload, Reads
<1>5. ASSUME NEW e \in InUse, ExecFail(e)
      PROVE  DaemonStep(d) /\ (state'[d] = "up" => pidfile'[d])
  <2>1. state' = [state EXCEPT ![e] = "down"] \/ UNCHANGED state
    BY <1>5 DEF ExecFail
  <2> QED
    BY <1>5, <2>1, InUseDaemons DEF TypeOK, PidFiles, ExecFail
<1>6. ASSUME NEW e \in InUse, Kill(e)
      PROVE  DaemonStep(d) /\ (state'[d] = "up" => pidfile'[d])
  <2>1. Signal(e, "hup") \/ Signal(e, "term")
    BY <1>6 DEF Kill
  <2> QED
    BY <1>6, <2>1, InUseDaemons DEF TypeOK, PidFiles, Kill, Signal
<1>7. ASSUME NEW e \in InUse, DaemonActs(e)
      PROVE  DaemonStep(d) /\ (state'[d] = "up" => pidfile'[d])
  <2>1. CASE Reads(e) /\ UNCHANGED <<state, pidfile>> /\ sig' = [sig EXCEPT ![e] = "none"]
    BY <2>1, InUseDaemons DEF TypeOK, PidFiles, Reads
  <2>2. CASE Exits(e) /\ pidfile' = [pidfile EXCEPT ![e] = FALSE] /\ UNCHANGED conf
    BY <2>2, InUseDaemons DEF TypeOK, PidFiles, Exits
  <2> QED
    BY <1>7, <2>1, <2>2 DEF DaemonActs
<1>8. ASSUME NEW e \in InUse, AdminStop(e)
      PROVE  DaemonStep(d) /\ (state'[d] = "up" => pidfile'[d])
  <2>1. PICK b \in BOOLEAN : pidfile' = [pidfile EXCEPT ![e] = b]
    BY <1>8 DEF AdminStop
  <2> QED
    BY <1>8, <2>1, InUseDaemons DEF TypeOK, PidFiles, AdminStop, Exits
<1>9. ASSUME NEW e \in InUse, Restart(e) \/ Start(e) \/ AdminStart(e)
      PROVE  DaemonStep(d) /\ (state'[d] = "up" => pidfile'[d])
  BY <1>9, <1>2, InUseDaemons DEF Restart, Start, AdminStart
<1>10. ASSUME NEW e \in InUse, PidFound(e) \/ PidNotFound(e) \/ PidFail(e) \/ KillFail(e)
       PROVE  UNCHANGED daemon
  BY <1>10 DEF PidFound, PidNotFound, PidFail, KillFail
<1>11. ASSUME NEW m \in Mods,
              \/ Subscribe(m) \/ SubscribeFail(m) \/ Commit(m) \/ Store(m) \/ Abort(m)
              \/ Timeout(m) \/ HandleOther(m) \/ HandleDone(m)
       PROVE  UNCHANGED daemon
  BY <1>11 DEF Subscribe, SubscribeFail, Unsubscribe, Commit, Store, Abort, Timeout,
      HandleOther, HandleDone
<1>12. CASE PluginStart \/ InitDone \/ Cleanup \/ UNCHANGED vars
  BY <1>1, <1>12 DEF PluginStart, InitDone, Cleanup, Unsubscribe, vars
<1> QED
  BY <1>1, <1>3, <1>4, <1>5, <1>6, <1>7, <1>8, <1>9, <1>10, <1>11, <1>12 DEF Next, Handle

\* A daemon stays fresh as long as no new version is stored.
LEMMA FreshStays ==
    ASSUME TypeOK, PidFiles, [Next]_vars, NEW d \in Daemons, NEW m \in Mods,
           Fresh(d, m), stored'[m] = stored[m]
    PROVE  Fresh(d, m)'
BY StepOfDaemon DEF DaemonStep, Fresh, TypeOK

-----------------------------------------------------------------------------
(* Handled changes *)

\* The command at i of the callback of m is behind, if that callback runs.
Behind(m, i) == cb = m => i < pos /\ CallbackOf[m][i].kind # "pidfile"

\* A module keeps its fresh daemons as long as nothing is stored, its change is
\* not taken for handled, and its callback does not come further.
LEMMA HandledStays ==
    ASSUME IInv, [Next]_vars, NEW m \in Mods,
           stored'[m] = stored[m],
           m \notin missed' /\ event'[m] # "done" => m \notin missed /\ event[m] # "done",
           \A i \in DOMAIN CallbackOf[m] : Behind(m, i)' => Behind(m, i)
    PROVE  HandledFor(m)'
<1> SUFFICES ASSUME m \notin missed', event'[m] # "done",
                    NEW i \in DOMAIN CallbackOf[m], Behind(m, i)'
             PROVE  Fresh(CallbackOf[m][i].daemon, m)'
  BY DEF HandledFor, Behind
<1>1. Fresh(CallbackOf[m][i].daemon, m)
  BY DEF IInv, Handled, HandledFor, Behind
<1>2. CallbackOf[m][i].daemon \in Daemons
  BY CallbackOfGood
<1> QED
  BY <1>1, <1>2, FreshStays DEF IInv

\* A command that was carried out has made its daemon fresh: with the last
\* command, all daemons of the callback are.
LEMMA GoOnHandled ==
    ASSUME IInv, [Next]_vars, NEW m \in Mods, NEW k \in Nat, cb = m, pos = k,
           GoOn(pid) \/ GoOn("live") \/ GoOn("gone"), UNCHANGED <<stored, missed>>,
           \/ Fresh(CallbackOf[m][k].daemon, m)'
           \/ CallbackOf[m][k].kind = "pidfile"
    PROVE  Handled'
<1> DEFINE c == CallbackOf[m]
<1>1. /\ k \in 1..Len(c) /\ Len(c) \in Nat /\ DOMAIN c = 1..Len(c)
      /\ \A i \in DOMAIN c : c[i].daemon \in Daemons
  BY CallbackOfGood, PluginAssumption DEF IInv, TypeOK, GoodCallback
<1>2. ASSUME NEW n \in Mods, n # m PROVE HandledFor(n)'
  <2>1. cb' # n /\ event'[n] = event[n]
    BY <1>2, PluginAssumption DEF GoOn, Finish, IInv, TypeOK
  <2> QED
    BY <1>2, <2>1, HandledStays DEF Behind
<1>3. ASSUME NEW i \in DOMAIN c, i <= k, c[i].kind # "pidfile",
             m \notin missed, event[m] # "done"
      PROVE  Fresh(c[i].daemon, m)'
  <2>1. CASE i = k
    BY <1>3, <2>1
  <2>2. CASE i # k
    <3>1. HandledFor(m) /\ i < k
      BY <1>1, <1>3, <2>2 DEF IInv, Handled
    <3>2. Fresh(c[i].daemon, m)
      BY <1>3, <3>1 DEF HandledFor
    <3> QED
      BY <1>1, <3>2, FreshStays DEF IInv
  <2> QED
    BY <2>1, <2>2
<1>4. HandledFor(m)'
  <2>1. CASE k = Len(c)
    <3>1. /\ cb' = None
          /\ event'[m] = IF event[m] = "busy" THEN "none" ELSE event[m]
      BY <2>1 DEF GoOn, Finish, IInv, TypeOK
    <3> SUFFICES ASSUME m \notin missed, event[m] # "done", NEW i \in DOMAIN c
                 PROVE  Fresh(c[i].daemon, m)'
      BY <3>1 DEF HandledFor
    <3>2. CASE c[i].kind # "pidfile"
      BY <1>1, <1>3, <2>1, <3>2
    <3>3. CASE c[i].kind = "pidfile"
      <4>1. /\ \A j \in DOMAIN c : c[j].daemon = c[i].daemon
            /\ \E j \in DOMAIN c : c[j].kind # "pidfile"
        BY <3>3, CallbackOfGood DEF GoodCallback
      <4>2. PICK j \in DOMAIN c : c[j].kind # "pidfile" /\ c[j].daemon = c[i].daemon
        BY <4>1
      <4> QED
        BY <1>1, <1>3, <2>1, <4>2
    <3> QED
      BY <3>2, <3>3
  <2>2. CASE k # Len(c)
    <3>1. cb' = m /\ pos' = k + 1 /\ event' = event
      BY <2>2 DEF GoOn
    <3> SUFFICES ASSUME m \notin missed, event[m] # "done", NEW i \in DOMAIN c,
                        i < k + 1, c[i].kind # "pidfile"
                 PROVE  Fresh(c[i].daemon, m)'
      BY <3>1 DEF HandledFor
    <3> QED
      BY <1>1, <1>3
  <2> QED
    BY <2>1, <2>2
<1> QED
  BY <1>2, <1>4 DEF Handled

\* A command that failed leaves its module among the missed ones.
LEMMA FailHandled ==
    ASSUME IInv, [Next]_vars, cb \in Mods, Fail
    PROVE  Handled'
<1> SUFFICES ASSUME NEW m \in Mods, m # cb PROVE HandledFor(m)'
  BY DEF Handled, HandledFor, Fail
<1>1. /\ cb' # m /\ event'[m] = event[m]
      /\ m \in missed' <=> m \in missed
      /\ stored' = stored
  BY PluginAssumption DEF Fail, GoOn, Finish, IInv, TypeOK
<1> QED
  BY <1>1, HandledStays DEF Behind

\* The PID file is read before any daemon of the callback was told: without the
\* file there is nobody to tell.
LEMMA PidNotFoundHandled ==
    ASSUME IInv, [Next]_vars, NEW d \in InUse, PidNotFound(d)
    PROVE  Handled'
<1>1. /\ cb \in Mods /\ d \in Daemons /\ pos \in DOMAIN CallbackOf[cb]
      /\ CallbackOf[cb][pos].kind = "pidfile" /\ CallbackOf[cb][pos].daemon = d
  BY CommandOf DEF IInv, PidNotFound
<1>2. stored' = stored /\ missed' = missed /\ daemon' = daemon /\ cb' = None
  BY DEF PidNotFound, Finish
<1>3. PICK m \in Mods : m = cb
  BY <1>1
<1>4. ASSUME NEW n \in Mods, n # m PROVE HandledFor(n)'
  <2>1. cb' # n /\ event'[n] = event[n]
    BY <1>1, <1>2, <1>3, <1>4, PluginAssumption DEF PidNotFound, Finish, IInv, TypeOK
  <2> QED
    BY <1>2, <1>3, <1>4, <2>1, HandledStays DEF Behind
<1>5. ASSUME NEW i \in DOMAIN CallbackOf[m] PROVE Fresh(CallbackOf[m][i].daemon, m)'
  <2>1. CallbackOf[m][i].daemon = d
    BY <1>1, <1>3, CallbackOfGood DEF GoodCallback
  <2>2. state[d] # "up"
    BY <1>1 DEF PidNotFound, IInv, PidFiles
  <2> QED
    BY <1>2, <2>1, <2>2 DEF Fresh, daemon
<1> QED
  BY <1>4, <1>5 DEF Handled, HandledFor

\* A command that tells daemon d and is carried out.
LEMMA SucceedHandled ==
    ASSUME IInv, [Next]_vars, NEW kind, NEW d, Cmd(kind, d), Succeed,
           \A m \in Mods : Fresh(d, m)'
    PROVE  Handled'
<1>1. /\ cb \in Mods /\ pos \in Nat
      /\ CallbackOf[cb][pos].daemon = d
  BY CommandOf DEF IInv, TypeOK
<1>2. PICK m \in Mods, k \in Nat : m = cb /\ k = pos
  BY <1>1
<1>3. Fresh(CallbackOf[m][k].daemon, m)'
  BY <1>1, <1>2
<1>4. GoOn(pid) /\ UNCHANGED <<stored, missed>>
  BY DEF Succeed
<1> QED
  BY <1>2, <1>3, <1>4, GoOnHandled

\* A daemon that reads its configuration is fresh for every module.
LEMMA ReadsFresh ==
    ASSUME TypeOK, NEW d \in Daemons, Reads(d), UNCHANGED stored
    PROVE  \A m \in Mods : Fresh(d, m)'
BY DEF TypeOK, Reads, Fresh

\* Every step keeps the daemons of handled modules fresh.
LEMMA HandledStep ==
    ASSUME IInv, [Next]_vars
    PROVE  Handled'
<1> USE PluginAssumption
<1>1. ASSUME UNCHANGED <<cb, pos, stored, missed, event>> PROVE Handled'
  <2>1. \A m \in Mods : HandledFor(m)'
    BY <1>1, HandledStays DEF Behind
  <2> QED
    BY <2>1 DEF Handled
<1>2. CASE PluginStart \/ InitDone \/ UNCHANGED vars
  BY <1>1, <1>2 DEF PluginStart, InitDone, vars, plugind, handler, sysrepo
<1>3. ASSUME Unsubscribe PROVE Handled'
  <2> SUFFICES ASSUME NEW m \in Mods PROVE HandledFor(m)'
    BY DEF Handled
  <2>1. /\ UNCHANGED <<cb, pos, stored>>
        /\ m \notin missed' => m \notin missed /\ event[m] # "done"
    BY <1>3 DEF Unsubscribe, handler
  <2> QED
    BY <2>1, HandledStays DEF Behind
<1>4. ASSUME NEW m \in Mods, Subscribe(m) PROVE Handled'
  BY <1>1, <1>4 DEF Subscribe, handler, sysrepo
<1>5. ASSUME NEW m \in Mods, SubscribeFail(m) PROVE Handled'
  BY <1>3, <1>5 DEF SubscribeFail
<1>6. ASSUME NEW m \in Mods, Commit(m) \/ Abort(m) \/ HandleOther(m) \/ Timeout(m)
      PROVE  Handled'
  <2> SUFFICES ASSUME NEW n \in Mods PROVE HandledFor(n)'
    BY DEF Handled
  <2>1. UNCHANGED <<cb, pos, stored>>
    BY <1>6 DEF Commit, Abort, HandleOther, Timeout, handler
  <2>2. n \notin missed' /\ event'[n] # "done" => n \notin missed /\ event[n] # "done"
    <3>1. CASE Commit(m)
      BY <3>1 DEF Commit, Publish, IInv, TypeOK
    <3>2. CASE Abort(m)
      BY <3>2 DEF Abort, Publish, IInv, TypeOK
    <3>3. CASE HandleOther(m)
      BY <3>3 DEF HandleOther, IInv, TypeOK
    <3>4. CASE Timeout(m)
      BY <3>4 DEF Timeout, IInv, TypeOK
    <3> QED
      BY <1>6, <3>1, <3>2, <3>3, <3>4
  <2> QED
    BY <2>1, <2>2, HandledStays DEF Behind
<1>7. ASSUME NEW m \in Mods, Store(m) PROVE Handled'
  <2>1. HandledFor(m)'
    BY <1>7 DEF Store, Publish, HandledFor, IInv, TypeOK
  <2>2. ASSUME NEW n \in Mods, n # m PROVE HandledFor(n)'
    <3>1. /\ UNCHANGED <<cb, pos>> /\ stored'[n] = stored[n] /\ event'[n] = event[n]
          /\ n \in missed' <=> n \in missed
      BY <1>7, <2>2 DEF Store, Publish, handler, IInv, TypeOK
    <3> QED
      BY <3>1, HandledStays DEF Behind
  <2> QED
    BY <2>1, <2>2 DEF Handled
<1>8. ASSUME NEW m \in Mods, HandleDone(m) PROVE Handled'
  <2>1. HandledFor(m)'
    BY <1>8, CallbackOfGood DEF HandleDone, HandledFor, GoodCallback
  <2>2. ASSUME NEW n \in Mods, n # m PROVE HandledFor(n)'
    <3>1. cb' # n /\ cb # n /\ stored' = stored /\ event'[n] = event[n] /\ missed' = missed
      BY <1>8, <2>2 DEF HandleDone, IInv, TypeOK
    <3> QED
      BY <3>1, HandledStays DEF Behind
  <2> QED
    BY <2>1, <2>2 DEF Handled
<1>9. ASSUME NEW d \in InUse, TryRestart(d) PROVE Handled'
  <2>1. Cmd("try-restart", d) /\ Succeed /\ d \in Daemons /\ UNCHANGED stored
    BY <1>9, InUseDaemons DEF TryRestart, Succeed, IInv
  <2>2. CASE state[d] = "up"
    BY <1>9, <2>1, <2>2, ReadsFresh, SucceedHandled DEF TryRestart, Starts, IInv
  <2>3. CASE state[d] # "up"
    <3>1. \A m \in Mods : Fresh(d, m)'
      BY <1>9, <2>3 DEF TryRestart, daemon, Fresh
    <3> QED
      BY <2>1, <3>1, SucceedHandled
  <2> QED
    BY <2>2, <2>3
<1>10. ASSUME NEW d \in InUse, Restart(d) PROVE Handled'
  <2>1. Cmd("restart", d) /\ Succeed /\ d \in Daemons /\ Reads(d) /\ UNCHANGED stored
    BY <1>10, InUseDaemons DEF Restart, Starts, Succeed, IInv
  <2> QED
    BY <2>1, ReadsFresh, SucceedHandled DEF IInv
<1>11. ASSUME NEW d \in InUse, Reload(d) PROVE Handled'
  <2>1. Cmd("reload", d) /\ Succeed /\ d \in Daemons /\ Reads(d) /\ UNCHANGED stored
    BY <1>11, InUseDaemons DEF Reload, Succeed, IInv
  <2> QED
    BY <2>1, ReadsFresh, SucceedHandled DEF IInv
<1>12. ASSUME NEW d \in InUse, Start(d) PROVE Handled'
  <2>1. Cmd("start", d) /\ Succeed /\ d \in Daemons /\ Reads(d) /\ UNCHANGED stored
    BY <1>12, InUseDaemons DEF Start, Starts, Succeed, IInv
  <2> QED
    BY <2>1, ReadsFresh, SucceedHandled DEF IInv
<1>13. ASSUME NEW d \in InUse, ExecFail(d) \/ PidFail(d) \/ KillFail(d) PROVE Handled'
  <2>1. Fail /\ \E kind \in Kinds : Cmd(kind, d)
    BY <1>13 DEF ExecFail, PidFail, KillFail, Kinds
  <2> QED
    BY <2>1, CommandOf, FailHandled DEF IInv
<1>14. ASSUME NEW d \in InUse, PidFound(d) PROVE Handled'
  <2>1. /\ cb \in Mods /\ pos \in Nat /\ CallbackOf[cb][pos].kind = "pidfile"
    BY <1>14, CommandOf DEF PidFound, IInv, TypeOK
  <2>2. PICK m \in Mods, k \in Nat : m = cb /\ k = pos
    BY <2>1
  <2>3. (GoOn("live") \/ GoOn("gone")) /\ UNCHANGED <<stored, missed>>
    BY <1>14 DEF PidFound
  <2> QED
    BY <2>1, <2>2, <2>3, GoOnHandled
<1>15. ASSUME NEW d \in InUse, PidNotFound(d) PROVE Handled'
  BY <1>15, PidNotFoundHandled
<1>16. ASSUME NEW d \in InUse, Kill(d) PROVE Handled'
  <2>1. /\ Succeed /\ d \in Daemons
        /\ Signal(d, "hup") \/ Signal(d, "term")
    BY <1>16, InUseDaemons DEF Kill, IInv
  <2>2. PICK kind \in Kinds : Cmd(kind, d)
    BY <1>16 DEF Kill, Kinds
  <2>3. \A m \in Mods : Fresh(d, m)'
    BY <2>1 DEF Signal, Fresh, IInv, TypeOK
  <2> QED
    BY <2>1, <2>2, <2>3, SucceedHandled
<1>17. ASSUME NEW d \in InUse, DaemonActs(d) \/ AdminStop(d) \/ AdminStart(d) PROVE Handled'
  BY <1>1, <1>17 DEF DaemonActs, AdminStop, AdminStart, handler, sysrepo
<1>18. CASE Cleanup
  BY <1>3, <1>18 DEF Cleanup
<1> QED
  BY <1>2, <1>4, <1>5, <1>6, <1>7, <1>8, <1>9, <1>10, <1>11, <1>12, <1>13, <1>14, <1>15,
     <1>16, <1>17, <1>18 DEF Next, Handle

-----------------------------------------------------------------------------
(* Theorems *)

\* At the start nothing is stored or announced, and every daemon that runs has
\* read version 0.
LEMMA InitInv == Init => IInv
<1> SUFFICES ASSUME Init PROVE IInv
  OBVIOUS
<1>1. TypeOK
  BY PluginAssumption DEF Init, TypeOK
<1>2. Routed /\ PidFiles
  BY DEF Init, Routed, PidFiles
<1>3. Handled
  BY CallbackOfGood DEF Init, Handled, HandledFor, Fresh
<1> QED
  BY <1>1, <1>2, <1>3 DEF IInv

\* Every step keeps the invariant.
LEMMA StepInv == IInv /\ [Next]_vars => IInv'
<1> SUFFICES ASSUME IInv, [Next]_vars PROVE IInv'
  OBVIOUS
<1>1. TypeOK' /\ Routed'
  BY TypeStep DEF IInv
<1>2. PidFiles'
  BY StepOfDaemon DEF IInv, PidFiles
<1>3. Handled'
  BY HandledStep
<1> QED
  BY <1>1, <1>2, <1>3 DEF IInv

\* Type correctness: the handler is always at a command of the callback it runs.
THEOREM PluginTypeCorrect == Spec => []TypeOK
<1>1. IInv => TypeOK
  BY DEF IInv
<1> QED
  BY <1>1, InitInv, StepInv, PTL DEF Spec

\* For any modules, sequences of commits, timeouts, failures and actions of the
\* administrator: a running daemon whose module's change was handled without a
\* failure uses what is stored.
THEOREM ChangesApplied == Spec => []Applied
<1>1. IInv => Applied
  <2> SUFFICES ASSUME IInv, NEW m \in context, NEW d \in DaemonsOf(m), Announced(m),
                      event[m] \notin {"done", "busy"}, cb # m, state[d] = "up", sig[d] = "none"
               PROVE  conf[d][m] = stored[m]
    BY DEF Applied
  <2>1. m \in Mods
    BY DEF IInv, TypeOK
  <2>2. PICK i \in DOMAIN CallbackOf[m] : CallbackOf[m][i].daemon = d
    BY DEF DaemonsOf
  <2>3. Fresh(d, m)
    BY <2>1, <2>2 DEF IInv, Handled, HandledFor, Announced
  <2> QED
    BY <2>3 DEF Fresh
<1> QED
  BY <1>1, InitInv, StepInv, PTL DEF Spec
=============================================================================
