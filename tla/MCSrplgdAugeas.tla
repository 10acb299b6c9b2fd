--------------------------- MODULE MCSrplgdAugeas ---------------------------
(* Contexts with each kind of callback and a module without one.            *)
EXTENDS SrplgdAugeas

Each == {{"avahi"}, {"clamav"}, {"puppet", "puppetfileserver"}, {"dhcpd"}, {"cron", "rtadvd"},
         {"smbusers"}, {"postfix_access"}, {"hosts", "webmin"}}
Kinds == UNION Each
AllFaults == {"subscribe", "exec", "pidfile", "kill"}
=============================================================================
