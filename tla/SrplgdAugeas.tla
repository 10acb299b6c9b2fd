---------------------------- MODULE SrplgdAugeas ----------------------------
(***************************************************************************)
(* The sysrepo-plugind plugin srplgd_augeas: when the startup data of a    *)
(* module have changed, the daemon that reads the configuration file is    *)
(* made to read it again.                                                  *)
(*                                                                         *)
(* sysrepo hands a subscriber one event per module at a time and gives up  *)
(* waiting for it after a timeout; one thread runs all the callbacks of    *)
(* the plugin.  A callback for SR_EV_DONE is a sequence of commands, and   *)
(* other commits, the daemons and an administrator act between them.       *)
(*                                                                         *)
(* A configuration is a version number; a daemon keeps the versions that   *)
(* it read last.                                                           *)
(***************************************************************************)
EXTENDS Naturals, Sequences

CONSTANTS
    Mods,        \* YANG modules
    Contexts,    \* sets of modules that may be in the context of sysrepo
    Faults,      \* what may fail: "subscribe", "exec", "pidfile", "kill"
    MaxCommits,  \* bound: stored versions
    MaxAdmin,    \* bound: actions of the administrator and of the plugin daemon
    None         \* no module

-----------------------------------------------------------------------------
(* Callbacks: what they do for SR_EV_DONE.  Where a command rebuilds a table or
   a file instead of telling a process, that table stands for the daemon; it is
   down if it is not there. *)

Do(kind, d) == [kind |-> kind, daemon |-> d]

aug_service_change_cb(service) == <<Do("try-restart", service)>>
aug_actimemq_change_cb    == <<Do("restart", "activemq")>>
aug_avahi_change_cb       == <<Do("kill", "avahi"), Do("start", "avahi")>>
aug_cachefilesd_change_cb == <<Do("pidfile", "cachefilesd"), Do("hup", "cachefilesd")>>
aug_clamav_change_cb      == <<Do("try-restart", "clamav-daemon"),
                               Do("try-restart", "clamav-freshclam")>>
aug_carbon_change_cb      == <<Do("try-restart", "carbon-cache"),
                               Do("try-restart", "carbon-relay"),
                               Do("try-restart", "carbon-aggregator")>>
aug_dhcpd_change_cb       == <<Do("pidfile", "dhcpd"), Do("term", "dhcpd"), Do("start", "dhcpd")>>
aug_exports_change_cb     == <<Do("reload", "exported-directories")>>
aug_ldso_change_cb        == <<Do("reload", "ld.so.cache")>>
aug_netplan_change_cb     == <<Do("reload", "network")>>
aug_pg_hba_change_cb      == <<Do("reload", "postgres")>>
aug_postfix_change_cb     == <<Do("reload", "postfix")>>
aug_postmap_change_cb(etc, local) == <<Do("reload", etc), Do("reload", local)>>
aug_rtadvd_change_cb      == <<Do("pidfile", "rtadvd"), Do("hup", "rtadvd")>>
aug_samba_change_cb       == <<Do("reload", "nmbd"), Do("reload", "smbd"), Do("reload", "winbindd")>>
aug_sysctl_change_cb      == <<Do("reload", "kernel-parameters")>>
aug_webmin_change_cb      == <<Do("restart", "webmin")>>

\* The modules that sr_plugin_init_cb looks for, each with its callback.  Of the
\* many with aug_service_change_cb there are only the ones of two services here;
\* the others differ in names.  postfix_passwordmap has the table of access, as in
\* the code.  A module made by augyang has '-' for '_' in its name, so the names
\* with '_' are those of modules that come from elsewhere.
Callback(m) ==
    CASE m \in {"activemq-conf", "activemq-xml", "jmxaccess", "jmxpassword"} ->
                                                     aug_actimemq_change_cb
      [] m = "avahi"                              -> aug_avahi_change_cb
      [] m = "cachefilesd"                        -> aug_cachefilesd_change_cb
      [] m = "carbon"                             -> aug_carbon_change_cb
      [] m = "clamav"                             -> aug_clamav_change_cb
      [] m \in {"cron", "cron_user"}              -> aug_service_change_cb("cron")
      [] m = "dhcpd"                              -> aug_dhcpd_change_cb
      [] m = "exports"                            -> aug_exports_change_cb
      [] m = "ldso"                               -> aug_ldso_change_cb
      [] m = "netplan"                            -> aug_netplan_change_cb
      [] m \in {"pg_hba", "postgresql"}           -> aug_pg_hba_change_cb
      [] m \in {"postfix_main", "postfix_master"} -> aug_postfix_change_cb
      [] m \in {"postfix_access", "postfix_passwordmap"} ->
             aug_postmap_change_cb("/etc/postfix/access", "/usr/local/etc/postfix/access")
      [] m = "postfix_transport" ->
             aug_postmap_change_cb("/etc/postfix/transport", "/usr/local/etc/postfix/transport")
      [] m = "postfix_virtual" ->
             aug_postmap_change_cb("/etc/postfix/virtual", "/usr/local/etc/postfix/virtual")
      [] m \in {"puppet", "puppet_auth", "puppetfileserver", "trapperkeeper"} ->
                                                     aug_service_change_cb("puppet")
      [] m = "rtadvd"                             -> aug_rtadvd_change_cb
      [] m \in {"samba", "smbusers"}              -> aug_samba_change_cb
      [] m = "sysctl"                             -> aug_sysctl_change_cb
      [] m = "webmin"                             -> aug_webmin_change_cb
      [] OTHER                                    -> <<>>

\* "ignore return value in case the daemons are not running"
IgnoresFailure(m) == m \in {"samba", "smbusers"}

CallbackOf   == [m \in Mods |-> Callback(m)]
Supported    == {m \in Mods : CallbackOf[m] # <<>>}
DaemonsOf(m) == {CallbackOf[m][i].daemon : i \in DOMAIN CallbackOf[m]}
Daemons      == UNION {DaemonsOf(m) : m \in Mods}

ASSUME PluginAssumption ==
    /\ MaxCommits \in Nat /\ MaxAdmin \in Nat
    /\ None \notin Mods
    /\ Contexts \subseteq SUBSET Mods

VARIABLES
    (* the plugin *)
    plugin,   \* "down", "init" while sr_plugin_init_cb runs, "up"
    left,     \* modules that sr_plugin_init_cb has not come to yet
    subs,     \* subscribed modules
    cb,       \* module whose SR_EV_DONE is being handled
    pos,      \* next command of its callback
    pid,      \* the process aug_pidfile found: "none", "live", "gone"
    (* sysrepo *)
    context,  \* modules in the context
    commit,   \* commit[m]: a commit waits for the answer to SR_EV_CHANGE
    event,    \* event[m]: "none", "change", "done", "abort", "busy" while handled
    stored,   \* stored[m]: version in the configuration file
    (* daemons *)
    state,    \* state[d]: "up", "down"
    pidfile,  \* pidfile[d]: there is a PID file
    sig,      \* sig[d]: "none" or a signal not acted upon yet, "hup", "term"
    conf,     \* conf[d][m]: version that d has read
    (* history *)
    missed,   \* modules whose last change was not or not entirely handled
    (* bounds *)
    commits,  \* commits so far
    admin     \* actions of the administrator and of the plugin daemon so far

\* The daemons that are installed: those of the modules in the context.
InUse == UNION {DaemonsOf(m) : m \in context}

plugind == <<plugin, left, subs>>
handler == <<cb, pos, pid>>
sysrepo == <<context, commit, event, stored>>
daemon  == <<state, pidfile, sig, conf>>
bounds  == <<commits, admin>>
vars    == <<plugind, handler, sysrepo, daemon, missed, bounds>>

TypeOK ==
    /\ plugin \in {"down", "init", "up"}
    /\ left \subseteq Mods /\ subs \subseteq Supported
    /\ cb \in Mods \cup {None}
    /\ pos \in Nat
    /\ cb # None => pos \in DOMAIN CallbackOf[cb]
    /\ pid \in {"none", "live", "gone"}
    /\ context \subseteq Mods
    /\ commit \in [Mods -> BOOLEAN]
    /\ event \in [Mods -> {"none", "change", "done", "abort", "busy"}]
    /\ stored \in [Mods -> Nat]
    /\ state \in [Daemons -> {"up", "down"}]
    /\ pidfile \in [Daemons -> BOOLEAN]
    /\ sig \in [Daemons -> {"none", "hup", "term"}]
    /\ conf \in [Daemons -> [Mods -> Nat]]
    /\ missed \subseteq Mods
    /\ commits \in Nat /\ admin \in Nat

Init ==
    /\ plugin = "down" /\ left = {} /\ subs = {}
    /\ cb = None /\ pos = 1 /\ pid = "none"
    /\ context \in Contexts
    /\ commit = [m \in Mods |-> FALSE]
    /\ event = [m \in Mods |-> "none"]
    /\ stored = [m \in Mods |-> 0]
    /\ state \in {st \in [Daemons -> {"up", "down"}] :
                    \A d \in Daemons : st[d] = "up" => d \in InUse}
    /\ pidfile = [d \in Daemons |-> state[d] = "up"]
    /\ sig = [d \in Daemons |-> "none"]
    /\ conf = [d \in Daemons |-> [m \in Mods |-> 0]]
    /\ missed = {}
    /\ commits = 0 /\ admin = 0

-----------------------------------------------------------------------------
(* sr_plugin_init_cb and sr_plugin_cleanup_cb *)

PluginStart ==
    /\ plugin = "down"
    /\ plugin' = "init"
    /\ left' = context
    /\ UNCHANGED <<subs, handler, sysrepo, daemon, missed, bounds>>

\* The subscription handler runs from the first subscription on.
Subscribe(m) ==
    /\ plugin = "init"
    /\ m \in left
    /\ left' = left \ {m}
    /\ subs' = subs \cup ({m} \cap Supported)
    /\ UNCHANGED <<plugin, handler, sysrepo, daemon, missed, bounds>>

\* sr_unsubscribe waits for the callback that runs; events not handled are lost.
Unsubscribe ==
    /\ cb = None
    /\ plugin' = "down" /\ left' = {} /\ subs' = {}
    /\ event' = [m \in Mods |-> "none"]
    /\ missed' = missed \cup {m \in Mods : event[m] = "done"}
    /\ UNCHANGED <<handler, context, commit, stored, daemon>>

SubscribeFail(m) ==
    /\ plugin = "init"
    /\ m \in left \cap Supported
    /\ "subscribe" \in Faults
    /\ admin < MaxAdmin /\ admin' = admin + 1
    /\ Unsubscribe
    /\ UNCHANGED commits

InitDone ==
    /\ plugin = "init"
    /\ left = {}
    /\ plugin' = "up"
    /\ UNCHANGED <<left, subs, handler, sysrepo, daemon, missed, bounds>>

Cleanup ==
    /\ plugin = "up"
    /\ admin < MaxAdmin /\ admin' = admin + 1
    /\ Unsubscribe
    /\ UNCHANGED commits

-----------------------------------------------------------------------------
(* sysrepo: a commit asks the subscribers, stores and tells them *)

Publish(m, e) == event' = [event EXCEPT ![m] = IF m \in subs THEN e ELSE "none"]

\* Only when the subscriber has dealt with the event before, or was given up.
Commit(m) ==
    /\ m \in context
    /\ ~commit[m]
    /\ event[m] = "none"
    /\ commits < MaxCommits /\ commits' = commits + 1
    /\ commit' = [commit EXCEPT ![m] = TRUE]
    /\ Publish(m, "change")
    /\ UNCHANGED <<plugind, handler, context, stored, daemon, missed, admin>>

Store(m) ==
    /\ commit[m]
    /\ event[m] = "none"
    /\ commit' = [commit EXCEPT ![m] = FALSE]
    /\ stored' = [stored EXCEPT ![m] = @ + 1]
    /\ Publish(m, "done")
    /\ missed' = IF m \in subs THEN missed \ {m} ELSE missed \cup {m}
    /\ UNCHANGED <<plugind, handler, context, daemon, bounds>>

\* Another subscriber refuses the change or it cannot be stored.
Abort(m) ==
    /\ commit[m]
    /\ event[m] = "none"
    /\ commit' = [commit EXCEPT ![m] = FALSE]
    /\ Publish(m, "abort")
    /\ UNCHANGED <<plugind, handler, context, stored, daemon, missed, bounds>>

\* The event is withdrawn; a callback that has begun goes on.
Timeout(m) ==
    /\ event[m] # "none"
    /\ event' = [event EXCEPT ![m] = "none"]
    /\ commit' = [commit EXCEPT ![m] = FALSE]
    /\ missed' = IF event[m] = "done" THEN missed \cup {m} ELSE missed
    /\ UNCHANGED <<plugind, handler, context, stored, daemon, bounds>>

-----------------------------------------------------------------------------
(* The subscription handler *)

\* Mutant: SR_EV_DONE is ignored, too.
HandleOtherAny(m) ==
    /\ cb = None
    /\ event[m] \in {"change", "abort", "done"}
    /\ event' = [event EXCEPT ![m] = "none"]
    /\ UNCHANGED <<plugind, handler, context, commit, stored, daemon, missed, bounds>>

\* Any event but SR_EV_DONE is answered with SR_ERR_OK.
HandleOther(m) ==
    /\ cb = None
    /\ event[m] \in {"change", "abort"}
    /\ event' = [event EXCEPT ![m] = "none"]
    /\ UNCHANGED <<plugind, handler, context, commit, stored, daemon, missed, bounds>>

HandleDone(m) ==
    /\ cb = None
    /\ event[m] = "done"
    /\ event' = [event EXCEPT ![m] = "busy"]
    /\ cb' = m
    /\ pos' = 1
    /\ pid' = "none"
    /\ UNCHANGED <<plugind, context, commit, stored, daemon, missed, bounds>>

Cmd(kind, d) == cb # None /\ CallbackOf[cb][pos] = Do(kind, d)

\* The callback returns; an event published after a timeout is kept.
Finish ==
    /\ cb' = None
    /\ pos' = 1
    /\ pid' = "none"
    /\ event' = [event EXCEPT ![cb] = IF @ = "busy" THEN "none" ELSE @]

\* Mutant: the sequence of commands has no end.
GoOnPast(p) == pos' = pos + 1 /\ pid' = p /\ UNCHANGED <<cb, event>>

GoOn(p) ==
    IF pos = Len(CallbackOf[cb]) THEN Finish
    ELSE pos' = pos + 1 /\ pid' = p /\ UNCHANGED <<cb, event>>

Succeed == GoOn(pid) /\ UNCHANGED <<plugind, context, commit, stored, missed, bounds>>

\* The first failure ends the callback.
Fail ==
    /\ IF IgnoresFailure(cb) THEN GoOn(pid) ELSE Finish
    /\ missed' = missed \cup {cb}
    /\ UNCHANGED <<plugind, context, commit, stored, bounds>>

Reads(d)  == conf' = [conf EXCEPT ![d] = stored]
Starts(d) == /\ state' = [state EXCEPT ![d] = "up"]
             /\ pidfile' = [pidfile EXCEPT ![d] = TRUE]
             /\ sig' = [sig EXCEPT ![d] = "none"]
             /\ Reads(d)

\* systemctl try-restart: a service that does not run is left alone.
TryRestart(d) ==
    /\ Cmd("try-restart", d)
    /\ IF state[d] = "up" THEN Starts(d) ELSE UNCHANGED daemon
    /\ Succeed

\* A restart that starts a daemon that was down, too.
Restart(d) ==
    /\ Cmd("restart", d)
    /\ Starts(d)
    /\ Succeed

\* A reload fails if there is nobody to reload.
Reload(d) ==
    /\ Cmd("reload", d)
    /\ state[d] = "up"
    /\ Reads(d)
    /\ UNCHANGED <<state, pidfile, sig>>
    /\ Succeed

\* aug_execl fails; a service may not have come up again.
ExecFail(d) ==
    /\ \/ \E kind \in {"try-restart", "restart"} :
             /\ Cmd(kind, d) /\ "exec" \in Faults
             /\ state' = [state EXCEPT ![d] = "down"]
       \/ \E kind \in {"try-restart", "restart", "reload", "kill", "start"} :
             /\ Cmd(kind, d) /\ "exec" \in Faults
             /\ UNCHANGED state
       \/ Cmd("reload", d) /\ state[d] = "down" /\ UNCHANGED state
       \/ Cmd("kill", d) /\ state[d] = "down" /\ UNCHANGED state
       \/ Cmd("start", d) /\ state[d] = "up" /\ UNCHANGED state
    /\ UNCHANGED <<pidfile, sig, conf>>
    /\ Fail

\* aug_pidfile: no file means that the daemon is not running.
PidFound(d) ==
    /\ Cmd("pidfile", d)
    /\ pidfile[d]
    /\ GoOn(IF state[d] = "up" THEN "live" ELSE "gone")
    /\ UNCHANGED <<plugind, context, commit, stored, daemon, missed, bounds>>

\* Mutant: the number read from the file is not returned.
PidNotFoundAlways(d) ==
    /\ Cmd("pidfile", d)
    /\ Finish
    /\ UNCHANGED <<plugind, context, commit, stored, daemon, missed, bounds>>

PidNotFound(d) ==
    /\ Cmd("pidfile", d)
    /\ ~pidfile[d]
    /\ Finish
    /\ UNCHANGED <<plugind, context, commit, stored, daemon, missed, bounds>>

PidFail(d) ==
    /\ Cmd("pidfile", d)
    /\ "pidfile" \in Faults
    /\ Fail
    /\ UNCHANGED daemon

\* aug_send_sig, or avahi-daemon --kill, which finds the process itself: neither
\* waits for the daemon.
Signal(d, s) == sig' = [sig EXCEPT ![d] = IF @ = "term" THEN @ ELSE s]

Kill(d) ==
    /\ \/ Cmd("hup", d) /\ pid = "live" /\ Signal(d, "hup")
       \/ Cmd("term", d) /\ pid = "live" /\ Signal(d, "term")
       \/ Cmd("kill", d) /\ state[d] = "up" /\ Signal(d, "term")
    /\ UNCHANGED <<state, pidfile, conf>>
    /\ Succeed

KillFail(d) ==
    /\ Cmd("hup", d) \/ Cmd("term", d)
    /\ pid = "gone" \/ "kill" \in Faults
    /\ Fail
    /\ UNCHANGED daemon

\* A daemon that still runs does not let another one start (see ExecFail).
Start(d) ==
    /\ Cmd("start", d)
    /\ state[d] = "down"
    /\ Starts(d)
    /\ Succeed

-----------------------------------------------------------------------------
(* Daemons and the administrator *)

\* The process is gone; a callback that has its PID does not know.
Exits(d) ==
    /\ state' = [state EXCEPT ![d] = "down"]
    /\ sig' = [sig EXCEPT ![d] = "none"]
    /\ pid' = IF cb # None /\ d \in DaemonsOf(cb) /\ pid = "live" THEN "gone" ELSE pid

DaemonActs(d) ==
    /\ \/ /\ sig[d] = "hup"
          /\ sig' = [sig EXCEPT ![d] = "none"]
          /\ Reads(d)
          /\ UNCHANGED <<state, pidfile, pid>>
       \/ /\ sig[d] = "term"
          /\ Exits(d)
          /\ pidfile' = [pidfile EXCEPT ![d] = FALSE]
          /\ UNCHANGED conf
    /\ UNCHANGED <<plugind, cb, pos, sysrepo, missed, bounds>>

\* A daemon dies and leaves its PID file.
AdminStop(d) ==
    /\ state[d] = "up"
    /\ admin < MaxAdmin /\ admin' = admin + 1
    /\ Exits(d)
    /\ \E b \in BOOLEAN : pidfile' = [pidfile EXCEPT ![d] = b]
    /\ UNCHANGED <<plugind, cb, pos, sysrepo, conf, missed, commits>>

AdminStart(d) ==
    /\ state[d] = "down"
    /\ admin < MaxAdmin /\ admin' = admin + 1
    /\ Starts(d)
    /\ UNCHANGED <<plugind, handler, sysrepo, missed, commits>>

Handle ==
    \/ \E m \in Mods : HandleOther(m) \/ HandleDone(m)
    \/ \E d \in InUse :
          \/ TryRestart(d) \/ Restart(d) \/ Reload(d) \/ Start(d) \/ ExecFail(d)
          \/ PidFound(d) \/ PidNotFound(d) \/ PidFail(d)
          \/ Kill(d) \/ KillFail(d)

Next ==
    \/ PluginStart \/ InitDone \/ Cleanup
    \/ \E m \in Mods : Subscribe(m) \/ SubscribeFail(m)
    \/ \E m \in Mods : Commit(m) \/ Store(m) \/ Abort(m) \/ Timeout(m)
    \/ Handle
    \/ \E d \in InUse : DaemonActs(d) \/ AdminStop(d) \/ AdminStart(d)

\* The handler thread runs and the daemons act upon their signals.
Fairness == WF_vars(Handle) /\ WF_vars(\E d \in InUse : DaemonActs(d))

Spec == Init /\ [][Next]_vars /\ Fairness

-----------------------------------------------------------------------------
(* Properties *)

\* The change of module m was announced to the plugin and was or will be handled.
Announced(m) == m \in subs \ missed

\* Once SR_EV_DONE was handled and no command failed, a running daemon uses what
\* is stored, whatever other modules, timeouts, the administrator and the
\* daemon itself did between the commands.
Applied ==
    \A m \in context : \A d \in DaemonsOf(m) :
        Announced(m) /\ event[m] \notin {"done", "busy"} /\ cb # m
            /\ state[d] = "up" /\ sig[d] = "none" => conf[d][m] = stored[m]

\* The running daemons with an old configuration that are to get the new one.
Stale == {d \in InUse :
             /\ state[d] = "up"
             /\ \E m \in context : /\ Announced(m) /\ d \in DaemonsOf(m)
                                   /\ conf[d][m] # stored[m]}

\* When no more is committed, every running daemon comes to use what is stored,
\* unless its event was lost or a command for it failed.
Converges == []<>(Stale = {})
=============================================================================
