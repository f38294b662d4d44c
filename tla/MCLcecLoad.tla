----------------------------- MODULE MCLcecLoad -----------------------------
\* lcec_conf, the load of lcec and its unload, on short configurations: the
\* last Sync Unit clashes with the first.
EXTENDS LcecStartup

MCAttrs == {[kind |-> "generic", unit |-> "a", cycle |-> 1],
            [kind |-> "generic", unit |-> "b", cycle |-> 2],
            [kind |-> "plain", unit |-> "b", cycle |-> 2],
            [kind |-> "plain", unit |-> "a", cycle |-> 2]}

Leaves == {"DcConf", "Watchdog", "ModParam", "SdoConfig", "IdnConfig"}

MCMost == {[types |-> {"Master"}, n |-> 2], [types |-> {"Slave"}, n |-> 2],
           [types |-> {"Raw", "Slave"}, n |-> 3], [types |-> Leaves, n |-> 1],
           [types |-> Leaves \cup {"SyncManager"}, n |-> 2],
           [types |-> {"Master", "Slave", "SyncManager"}, n |-> 4],
           [types |-> Leaves \cup {"Slave", "Pdo"}, n |-> 3]}
=============================================================================
