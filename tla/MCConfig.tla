------------------------------- MODULE MCConfig -------------------------------
(***************************************************************************)
(* A good client and a good server file with up to two values replaced by  *)
(* ones at or beyond a bound, and lists of up to five elements.            *)
(***************************************************************************)
EXTENDS Config, Functions, TLC

CONSTANT Bases   \* the rule_priority_base values tried

\* Values at the bounds of each scalar field of both roles.
CommonTries ==
    [tunName               |-> {"", "sixteen-bytes-or-more"},
     tunMTU                |-> {0, 1111, 1400, 1401},
     privateKeyFile        |-> {""},
     probeInterval         |-> {99, 5000, 5001},
     deadAfterMissedProbes |-> {-1},
     initialRate           |-> {-1, 101},
     minRate               |-> {0, 1000, 1001},
     maxRate               |-> {-1},
     queueDelayTarget      |-> {-1},
     metricsAddr           |-> {[class |-> "v4", port |-> 1]},
     metricsAllowPublic    |-> {TRUE}]

ClientTries == CommonTries @@
    [server                |-> {[class |-> k, port |-> 1] :
                                  k \in {"none", "v6", "unspecified", "broadcast"}}
                               \cup {[class |-> "v4", port |-> 0]},
     pskFile               |-> {""},
     serverPublicKeyFile   |-> {""},
     latencyPacketMaxBytes |-> {-1},
     primaryQueueDeadline  |-> {-1},
     rekeyAfter            |-> {-1},
     ipv6Policy            |-> {"", "other"},
     tunnelTable           |-> {0, 11, 254, 40000},
     rulePriorityBase      |-> Bases,
     maxPaths              |-> {-1, 5},
     replicaQueueBudget    |-> {-1},
     dedupWindow           |-> {0, 2048, 6144},
     rekeyAfterPackets     |-> {""},
     dnsServers            |-> {"invalid"}]

ServerTries == CommonTries @@
    [listen                |-> {[class |-> "unspecified", port |-> 1],
                                [class |-> "v6", port |-> 1]},
     subnet                |-> {[fam |-> f, net |-> "a", bits |-> 24] : f \in {"none", "v6"}}
                               \cup {[fam |-> "v4", net |-> "b", bits |-> 24]},
     address               |-> {[fam |-> "none", net |-> "", bits |-> 0],
                                [fam |-> "v4", net |-> "a", bits |-> 25]},
     maxPathsPerSession    |-> {5},
     maxSessions           |-> {-1},
     maxPendingHandshakes  |-> {-1, 4},
     maxPendingPerSource   |-> {0, -1},
     sessionIdleTimeout    |-> {-1},
     retryMode             |-> {"other"},
     manageNAT             |-> {TRUE},
     wanInterface          |-> {"with/slash"}]

CommonOpt ==
    [tunName |-> "red0", tunMTU |-> 1180, privateKeyFile |-> "key",
     probeInterval |-> 0, deadAfterMissedProbes |-> 3, initialRate |-> 1,
     minRate |-> 128, maxRate |-> 100, queueDelayTarget |-> 15,
     metricsAddr |-> [class |-> "none", port |-> 0], metricsAllowPublic |-> FALSE]

ClientOpt == CommonOpt @@
    [server |-> [class |-> "v4", port |-> 1], pskFile |-> "psk",
     serverPublicKeyFile |-> "pub", ipv6Policy |-> "block", tunnelTable |-> 200,
     rulePriorityBase |-> 10000, maxPaths |-> 4, replicaQueueBudget |-> 5,
     dedupWindow |-> 65536, rekeyAfterPackets |-> "positive", dnsServers |-> "",
     latencyPacketMaxBytes |-> 0, primaryQueueDeadline |-> 50, rekeyAfter |-> 3600000]

ServerOpt == CommonOpt @@
    [listen |-> [class |-> "v4", port |-> 1],
     subnet |-> [fam |-> "v4", net |-> "a", bits |-> 24],
     address |-> [fam |-> "v4", net |-> "a", bits |-> 24],
     maxPathsPerSession |-> 4, maxSessions |-> 64, maxPendingHandshakes |-> 256,
     maxPendingPerSource |-> 8, sessionIdleTimeout |-> 120000,
     retryMode |-> "always", manageNAT |-> FALSE, wanInterface |-> ""]

\* At most one value replaced, and at most two.
OneEdit(c, tries) ==
    {c} \cup UNION {{[c EXCEPT ![f] = v] : v \in tries[f]} : f \in DOMAIN tries}
TwoEdits(c, tries) == UNION {OneEdit(d, tries) : d \in OneEdit(c, tries)}

-------------------------------------------------------------------------------
Uplink(n) == [name |-> <<"eth0", "wlan0", "wwan0", "eth1", "eth2">>[n], fwmark |-> n,
              routingTable |-> 10 + n, gateway |-> "auto", maxPacingRate |-> 10]

UplinkTries ==
    [name          |-> {"", "eth0"},
     fwmark        |-> {0, 1},
     routingTable  |-> {0, 11, 200, 255},
     gateway       |-> {"", "other"},
     maxPacingRate |-> {0}]

Client(n) == [name |-> <<"anna", "ben", "cleo", "dora", "emil">>[n],
              publicKeyFile |-> "pub", pskFile |-> "psk", maxSessions |-> 1,
              tunnelIP |-> [fam |-> "v4", net |-> "a", host |-> n]]

PeerTries ==
    [name          |-> {"", "anna"},
     publicKeyFile |-> {""},
     tunnelIP      |-> {[fam |-> "v4", net |-> "a", host |-> 1],
                        [fam |-> "v4", net |-> "b", host |-> 1],
                        [fam |-> "v6", net |-> "a", host |-> 1]},
     maxSessions   |-> {0}]

\* Two elements of which each has at most one replaced value, and lists that are
\* empty, one element long, or too long for a client.
Lists(elem(_), tries) ==
    {<<a, b>> : a \in OneEdit(elem(1), tries), b \in OneEdit(elem(2), tries)}
    \cup {[n \in 1..k |-> elem(n)] : k \in {0, 1, 4, 5}}

\* The scalars that the checks of a list read, and one that keeps checks from running.
BesideLists == {"tunnelTable", "subnet", "address", "maxRate"}

\* Two replaced scalars with a good list, or one of those beside any of the lists.
FilesOf(role, c, tries, elem(_), etries) ==
    {[role |-> role, syntax |-> "one document", opt |-> d, list |-> <<elem(1), elem(2)>>] :
        d \in TwoEdits(c, tries)}
    \cup {[role |-> role, syntax |-> "one document", opt |-> d, list |-> l] :
        d \in OneEdit(c, Restrict(tries, BesideLists \cap DOMAIN tries)), l \in Lists(elem, etries)}
    \cup {[role |-> role, syntax |-> x, opt |-> c, list |-> << >>] :
        x \in {"unreadable", "unknown field", "two documents"}}

MCConfigFiles == FilesOf("client", ClientOpt, ClientTries, Uplink, UplinkTries)
                 \cup FilesOf("server", ServerOpt, ServerTries, Client, PeerTries)

\* A base whose sum with 1000 wraps around, a rate that is not positive, and a queue
\* delay target whose check comes after that of the rates.
MCUnreported ==
    {[role |-> "client", syntax |-> "one document", list |-> <<Uplink(1), Uplink(2)>>,
      opt |-> [ClientOpt EXCEPT !.rulePriorityBase = 2^UintBits - 1, !.maxRate = -1,
                                !.queueDelayTarget = -1]]}

MCSpare ==
    [client |-> [opt |-> [ClientOpt EXCEPT !.tunnelTable = 399],
                 list |-> [n \in 1..5 |->
                    [Uplink(n) EXCEPT !.name = <<"s1", "s2", "s3", "s4", "s5">>[n],
                                      !.fwmark = 300 + n, !.routingTable = 300 + n]]],
     server |-> [opt |-> [ServerOpt EXCEPT !.maxPendingPerSource = 1, !.wanInterface = "eth0"],
                 list |-> [n \in 1..5 |->
                    [Client(n) EXCEPT !.name = <<"s1", "s2", "s3", "s4", "s5">>[n],
                                      !.tunnelIP.host = 100 + n]]]]
===============================================================================
