-------------------------------- MODULE Config --------------------------------
(***************************************************************************)
(* The loading of a client or server configuration (internal/config) by    *)
(* `check-config`, `client` and `server` (cmd/red-mpudp/config.go), and    *)
(* the operator who repairs what a refusal reported and loads again.       *)
(*                                                                         *)
(* A configuration is its scalar fields (`opt`) and its list of interfaces *)
(* or peers (`list`). Values are abstracted to what the checks tell apart: *)
(* a file reference is "" or a name, an endpoint is its class and port,    *)
(* durations are in milliseconds; fields no check reads are left out. Zero *)
(* and "" are what an absent key decodes to. A problem names the element   *)
(* of the list (0 for the scalars) and the field.                          *)
(***************************************************************************)
EXTENDS Integers, Sequences

CONSTANTS
    Files,      \* what the operator may have written at first
    Spare,      \* what the operator writes in place of a reported value
    UintBits    \* width of RulePriority: 32 in the code

Interface == [name : STRING, fwmark : Nat, routingTable : Nat, gateway : STRING,
              maxPacingRate : Int]

Addr == [fam : {"none", "v4", "v6"}, net : STRING, host : Nat]
Peer == [name : STRING, publicKeyFile : STRING, pskFile : STRING, tunnelIP : Addr,
         maxSessions : Int]

Element == [client |-> Interface, server |-> Peer]

ASSUME FilesAssumption ==
    \A f \in Files : /\ DOMAIN f = {"role", "syntax", "opt", "list"}
                     /\ f.role \in DOMAIN Element
                     /\ f.list \in Seq(Element[f.role])
                     /\ f.role = "client" => /\ "rulePriorityBase" \in DOMAIN f.opt
                                             /\ f.opt.rulePriorityBase \in Nat
                     /\ f.role = "server" => f.opt.maxPendingHandshakes \in Int

ASSUME SpareAssumption ==
    \A f \in Files : /\ Spare[f.role].list \in Seq(Element[f.role])
                     /\ Len(Spare[f.role].list) >= Len(f.list)
                     /\ f.role = "client" => Spare.client.opt.rulePriorityBase \in Nat

ASSUME WidthAssumption == UintBits \in Nat /\ 2^UintBits \in Nat

VARIABLES
    file,       \* the configuration file
    at,         \* where the load is
    opt,        \* the decoded scalar fields
    list,       \* the decoded list
    i,          \* next element of the list
    seen,       \* seenName, seenMark, seenTable, seenIP
    errs,       \* errList: the problems found so far
    reported    \* what each refusal of Validate has reported

configVars == <<file, at, opt, list, i, seen, errs, reported>>

-------------------------------------------------------------------------------
minPaths            == 1
maxPaths            == 4
rulePriorityCeiling == 32765
rtMax               == 2^(UintBits - 1) - 1
Positive            == Nat \ {0}
dedupWindows        == (4096..1048576) \cap {2^k : k \in 0..30}
Rates               == {"initialRate", "minRate", "maxRate"}

reserved(t) == t \in {0, 253, 254, 255} \/ t > rtMax

\* The checks that look at one field: a range, a sign, one of a set of words, or
\* that it is there.
required == STRING \ {""}

commonAllowed ==
    [tunMTU                |-> 1112..1400,
     probeInterval         |-> 100..5000,
     deadAfterMissedProbes |-> Positive,
     privateKeyFile        |-> required]

clientAllowed ==
    [serverPublicKeyFile   |-> required,
     pskFile               |-> required,
     ipv6Policy            |-> {"block", "passthrough"},
     maxPaths              |-> minPaths..maxPaths,
     latencyPacketMaxBytes |-> Positive,
     replicaQueueBudget    |-> Positive,
     primaryQueueDeadline  |-> Positive,
     dedupWindow           |-> dedupWindows,
     rekeyAfter            |-> Positive,
     rekeyAfterPackets     |-> {"positive"},
     dnsServers            |-> {"", "valid"}]

serverAllowed ==
    [maxPathsPerSession    |-> minPaths..maxPaths,
     maxSessions           |-> Positive,
     maxPendingHandshakes  |-> Positive,
     sessionIdleTimeout    |-> Positive,
     retryMode             |-> {"always", "auto", "never"}]

NotAllowed(c, allowed) == {f \in DOMAIN c \cap DOMAIN allowed : c[f] \notin allowed[f]}

When(bad, field) == IF bad THEN {field} ELSE {}

\* Empty, longer than IFNAMSIZ - 1, or with a slash or white space.
checkIfaceName(ifname) == ifname \notin {"", "sixteen-bytes-or-more", "with/slash"}

checkServerAddr(a) == a.class \in {"v4", "loopback"} /\ a.port # 0
checkListenAddr(a) == a.class \notin {"none", "v6"} /\ a.port # 0

\* An absent metrics address disables the listener.
checkMetricsAddr(a, allowPublic) == a.class \in {"none", "loopback"} \/ allowPublic

checkRulePriorityBase(base) ==   \* mutant: not the end of the block
    base \in 1..rulePriorityCeiling

\* base+1000 is computed in RulePriority's own width.
checkRulePriority(base) == base >= 1 /\ (base + 1000) % 2^UintBits <= rulePriorityCeiling

\* It returns at the first rate that is not positive.
validateCongestion(c) ==
    IF \E f \in Rates : c[f] <= 0
    THEN {"rates"}
    ELSE When(c.minRate > 1000 * c.initialRate, "rates")
         \cup When(c.initialRate > c.maxRate, "rates")
         \cup When(c.queueDelayTarget <= 0, "queueDelayTarget")

\* Prefix.Contains; `net` stands for the masked bits.
Contains(prefix, a) == prefix.fam = a.fam /\ prefix.net = a.net

validateSubnet(c) ==
    When(c.subnet.fam # "v4", "subnet")
    \cup When(c.address.fam # "v4", "address")
    \cup When(/\ c.subnet.fam # "none"
              /\ c.address.fam # "none"
              /\ ~Contains(c.subnet, c.address) \/ c.address.bits # c.subnet.bits,
              "address")

\* What the two Validate methods report about the scalar fields.
validateCommon(c) ==
    NotAllowed(c, commonAllowed)
    \cup When(~checkIfaceName(c.tunName), "tunName")
    \cup When(~checkMetricsAddr(c.metricsAddr, c.metricsAllowPublic), "metricsAddr")
    \cup validateCongestion(c)

validateClient(c) ==
    validateCommon(c)
    \cup NotAllowed(c, clientAllowed)
    \cup When(~checkServerAddr(c.server), "server")
    \cup When(reserved(c.tunnelTable), "tunnelTable")
    \cup When(~checkRulePriority(c.rulePriorityBase), "rulePriorityBase")

validateServer(c) ==
    validateCommon(c)
    \cup NotAllowed(c, serverAllowed)
    \cup When(~checkListenAddr(c.listen), "listen")
    \cup validateSubnet(c)
    \cup When(c.maxPendingPerSource \notin 1..c.maxPendingHandshakes, "maxPendingPerSource")
    \cup When(IF c.wanInterface = "" THEN c.manageNAT
              ELSE ~checkIfaceName(c.wanInterface), "wanInterface")

\* One round of validateInterfaces' loop, and of validatePeers'.
validateInterface(in, c, s) ==
    When(~checkIfaceName(in.name) \/ in.name \in s.name, "name")
    \cup When(in.fwmark = 0 \/ in.fwmark \in s.mark, "fwmark")
    \cup When(\/ reserved(in.routingTable)
              \/ in.routingTable = c.tunnelTable
              \/ in.routingTable \in s.table, "routingTable")
    \cup When(in.gateway \notin {"", "auto", "literal"}, "gateway")
    \cup When(in.maxPacingRate <= 0, "maxPacingRate")

validatePeerNoIP(p, c, s) ==   \* mutant: no look-up in seenIP
    When(p.name = "" \/ p.name \in s.name, "name")
    \cup When(p.tunnelIP.fam # "v4" \/ ~Contains(c.subnet, p.tunnelIP), "tunnelIP")

validatePeer(p, c, s) ==
    When(p.name = "" \/ p.name \in s.name, "name")
    \cup When(p.publicKeyFile = "", "publicKeyFile")
    \cup When(p.pskFile = "", "pskFile")
    \cup When(\/ p.tunnelIP.fam # "v4"
              \/ (c.subnet.fam # "none" /\ ~Contains(c.subnet, p.tunnelIP))
              \/ p.tunnelIP \in s.ip, "tunnelIP")
    \cup When(p.maxSessions < 1, "maxSessions")

Unseen == [name |-> {}, mark |-> {}, table |-> {}, ip |-> {}]

SeeNoTable(role, e, s) ==   \* mutant: seenTable is never set
    [name |-> s.name \cup {e.name}, mark |-> s.mark, table |-> s.table, ip |-> s.ip]

See(role, e, s) ==
    [name  |-> s.name \cup {e.name},
     mark  |-> s.mark \cup (IF role = "client" THEN {e.fwmark} ELSE {}),
     table |-> s.table \cup (IF role = "client" THEN {e.routingTable} ELSE {}),
     ip    |-> s.ip \cup (IF role = "server" /\ e.tunnelIP.fam = "v4"
                          THEN {e.tunnelIP} ELSE {})]

-------------------------------------------------------------------------------
commonDefaults ==
    [tunMTU |-> 1180, probeInterval |-> 250, deadAfterMissedProbes |-> 3,
     initialRate |-> 1, minRate |-> 128, maxRate |-> 100, queueDelayTarget |-> 15]

clientDefaults ==
    [tunnelTable |-> 200, rulePriorityBase |-> 10000, maxPaths |-> 4,
     latencyPacketMaxBytes |-> 768, replicaQueueBudget |-> 5,
     primaryQueueDeadline |-> 50, rekeyAfter |-> 3600000, dedupWindow |-> 65536]

serverDefaults ==
    [maxPathsPerSession |-> 4, maxSessions |-> 64, maxPendingHandshakes |-> 256,
     maxPendingPerSource |-> 8, sessionIdleTimeout |-> 120000]

numDefaults ==
    [f \in DOMAIN commonDefaults \cup DOMAIN clientDefaults \cup DOMAIN serverDefaults |->
        IF f \in DOMAIN commonDefaults THEN commonDefaults[f]
        ELSE IF f \in DOMAIN clientDefaults THEN clientDefaults[f]
        ELSE serverDefaults[f]]

textDefaults ==
    [tunName |-> "red0", ipv6Policy |-> "block", rekeyAfterPackets |-> "positive",
     retryMode |-> "always"]

applyDefaults(c) ==
    [f \in DOMAIN c |->
        CASE f \in DOMAIN numDefaults /\ c[f] = 0   -> numDefaults[f]
          [] f \in DOMAIN textDefaults /\ c[f] = "" -> textDefaults[f]
          [] OTHER -> c[f]]

-------------------------------------------------------------------------------
ConfigInit ==
    /\ file \in Files
    /\ at = "start"
    /\ opt = file.opt
    /\ list = << >>
    /\ i = 1
    /\ seen = Unseen
    /\ errs = {}
    /\ reported = << >>

\* LoadClientFile, LoadServerFile: every load starts from what it reads and from
\* locals of its own.
LoadFile ==
    /\ at = "start"
    /\ opt' = file.opt
    /\ list' = file.list
    /\ i' = 1
    /\ seen' = Unseen
    /\ errs' = {}
    /\ at' = IF file.syntax = "unreadable" THEN "parse error" ELSE "decode"
    /\ UNCHANGED <<file, reported>>

\* Exactly one YAML document, known fields only, each at most once.
decodeStrict ==
    /\ at = "decode"
    /\ at' = IF file.syntax = "one document" THEN "defaults" ELSE "parse error"
    /\ UNCHANGED <<file, opt, list, i, seen, errs, reported>>

Defaulting ==
    /\ at = "defaults"
    /\ opt' = applyDefaults(opt)
    /\ at' = "validate"
    /\ UNCHANGED <<file, list, i, seen, errs, reported>>

\* Validate up to its loop. An empty list, and a client's list beyond maxPaths,
\* is a problem of its own.
ValidateScalars ==
    /\ at = "validate"
    /\ errs' = {<<0, f>> : f \in IF file.role = "client" THEN validateClient(opt)
                                                      ELSE validateServer(opt)}
               \cup When(\/ list = << >>
                         \/ file.role = "client" /\ Len(list) > maxPaths, <<0, "list">>)
    /\ at' = "list"
    /\ UNCHANGED <<file, opt, list, i, seen, reported>>

ElementProblems(e) ==
    IF file.role = "client" THEN validateInterface(e, opt, seen)
                            ELSE validatePeer(e, opt, seen)

ValidateElementStops ==   \* mutant: returns at the first bad element
    /\ at = "list"
    /\ i <= Len(list)
    /\ errs' = errs \cup {<<i, f>> : f \in ElementProblems(list[i])}
    /\ seen' = See(file.role, list[i], seen)
    /\ i' = IF errs' = errs THEN i + 1 ELSE Len(list) + 1
    /\ UNCHANGED <<file, at, opt, list, reported>>

ValidateElement ==
    /\ at = "list"
    /\ i <= Len(list)
    /\ errs' = errs \cup {<<i, f>> : f \in ElementProblems(list[i])}
    /\ seen' = See(file.role, list[i], seen)
    /\ i' = i + 1
    /\ UNCHANGED <<file, at, opt, list, reported>>

\* errList.err, and the exit code of the command.
Verdict ==
    /\ at = "list"
    /\ i > Len(list)
    /\ at' = IF errs = {} THEN "accepted" ELSE "refused"
    /\ reported' = IF errs = {} THEN reported ELSE Append(reported, errs)
    /\ UNCHANGED <<file, opt, list, i, seen, errs>>

-------------------------------------------------------------------------------
\* What Validate reads of the scalar fields.
CommonFields == DOMAIN commonAllowed \cup Rates
                \cup {"queueDelayTarget", "tunName", "metricsAddr", "metricsAllowPublic"}
ClientFields == CommonFields \cup DOMAIN clientAllowed
                \cup {"server", "tunnelTable", "rulePriorityBase"}
ServerFields == CommonFields \cup DOMAIN serverAllowed
                \cup {"listen", "subnet", "address", "maxPendingPerSource", "wanInterface",
                      "manageNAT"}

\* A list in which no value that must be unique is the spare one of another place.
FreshClient(c, l) ==
    LET s == Spare.client
    IN  /\ \A n \in DOMAIN l, m \in DOMAIN s.list : n # m =>
             /\ l[n].name # s.list[m].name
             /\ l[n].fwmark # s.list[m].fwmark
             /\ l[n].routingTable # s.list[m].routingTable
        /\ \A m \in DOMAIN s.list : applyDefaults(c).tunnelTable # s.list[m].routingTable
        /\ \A n \in DOMAIN l : l[n].routingTable # applyDefaults(s.opt).tunnelTable

FreshServer(l) ==
    LET s == Spare.server
    IN  \A n \in DOMAIN l, m \in DOMAIN s.list : n # m =>
             /\ l[n].name # s.list[m].name
             /\ l[n].tunnelIP.host # s.list[m].tunnelIP.host

\* An operator who repairs with care: every spare value passes its check, whatever
\* the fields that were not reported hold, and is used nowhere else.
CarefulClient ==
    LET s == Spare.client
        d == applyDefaults(s.opt)
    IN  /\ ClientFields \subseteq DOMAIN s.opt
        /\ validateClient(d) = {}
        /\ checkMetricsAddr(d.metricsAddr, FALSE)
        /\ s.list \in Seq(Interface) /\ s.list # << >>
        /\ \A m \in DOMAIN s.list : validateInterface(s.list[m], d, Unseen) = {}
        /\ FreshClient(s.opt, s.list)
        /\ \A f \in Files : f.role = "client" =>
             ClientFields \subseteq DOMAIN f.opt /\ FreshClient(f.opt, f.list)

CarefulServer ==
    LET s == Spare.server
        d == applyDefaults(s.opt)
    IN  /\ ServerFields \subseteq DOMAIN s.opt
        /\ validateServer(d) = {}
        /\ checkMetricsAddr(d.metricsAddr, FALSE)
        /\ {"fam", "net", "bits"} \subseteq DOMAIN d.address
        /\ d.maxPendingPerSource = 1
        /\ d.wanInterface \in required
        /\ s.list \in Seq(Peer) /\ s.list # << >>
        /\ \A m \in DOMAIN s.list : validatePeer(s.list[m], d, Unseen) = {}
        /\ FreshServer(s.list)
        /\ \A f \in Files : f.role = "server" =>
             ServerFields \subseteq DOMAIN f.opt /\ FreshServer(f.list)

ASSUME CarefulAssumption == CarefulClient /\ CarefulServer

\* The operator writes a spare value for everything reported: for "rates" all
\* three rates, an address inside the subnet for an address, a shorter list for
\* one that is too long.
Reported(n, f) ==
    \/ <<n, f>> \in errs
    \/ f \in Rates /\ <<n, "rates">> \in errs

RepairedOpt ==
    [f \in DOMAIN file.opt |->
        IF Reported(0, f) THEN Spare[file.role].opt[f] ELSE file.opt[f]]

SpareElement(n, c) ==
    IF file.role = "client" THEN Spare.client.list[n]
    ELSE [Spare.server.list[n] EXCEPT !.tunnelIP.net = c.subnet.net]

RepairedElement(n, c) ==
    [f \in DOMAIN file.list[n] |->
        IF Reported(n, f) THEN SpareElement(n, c)[f] ELSE file.list[n][f]]

RepairedList(c) ==
    IF file.list = << >> THEN <<SpareElement(1, c)>>
    ELSE [n \in 1..(IF Reported(0, "list") THEN maxPaths ELSE Len(file.list)) |->
             RepairedElement(n, c)]

Repair ==
    /\ at = "refused"
    /\ LET c == IF file.role = "server" /\ Reported(0, "address")
                THEN [RepairedOpt EXCEPT !.address.net = RepairedOpt.subnet.net,
                                         !.address.bits = RepairedOpt.subnet.bits]
                ELSE RepairedOpt
       IN  file' = [file EXCEPT !.opt = c, !.list = RepairedList(c)]
    /\ at' = "start"
    /\ UNCHANGED <<opt, list, i, seen, errs, reported>>

RepairSyntax ==
    /\ at = "parse error"
    /\ file' = [file EXCEPT !.syntax = "one document"]
    /\ at' = "start"
    /\ UNCHANGED <<opt, list, i, seen, errs, reported>>

ConfigNext ==
    \/ LoadFile
    \/ decodeStrict
    \/ Defaulting
    \/ ValidateScalars
    \/ ValidateElement
    \/ Verdict
    \/ Repair
    \/ RepairSyntax

ConfigSpec == ConfigInit /\ [][ConfigNext]_configVars

-------------------------------------------------------------------------------
Pairs(s) == {p \in (DOMAIN s) \X (DOMAIN s) : p[1] # p[2]}

\* Every uplink of an accepted client has a name, a firewall mark and a routing
\* table of its own, and a table that is neither the kernel's nor the tunnel's:
\* what validateInterfaces' seen-maps are for (CONF-20..23).
UplinksApart ==
    at = "accepted" /\ file.role = "client" =>
        /\ \A p \in Pairs(list) : /\ list[p[1]].name # list[p[2]].name
                                  /\ list[p[1]].fwmark # list[p[2]].fwmark
                                  /\ list[p[1]].routingTable # list[p[2]].routingTable
        /\ \A n \in DOMAIN list : /\ list[n].fwmark # 0
                                  /\ ~reserved(list[n].routingTable)
                                  /\ list[n].routingTable # opt.tunnelTable

\* Every peer of an accepted server has a name and a tunnel address of its own, an
\* IPv4 address inside the tunnel's subnet: downlink dispatch goes by that address
\* (CONF-26..28).
PeersApart ==
    at = "accepted" /\ file.role = "server" =>
        /\ \A p \in Pairs(list) : /\ list[p[1]].name # list[p[2]].name
                                  /\ list[p[1]].tunnelIP # list[p[2]].tunnelIP
        /\ \A n \in DOMAIN list : /\ list[n].tunnelIP.fam = "v4"
                                  /\ Contains(opt.subnet, list[n].tunnelIP)

\* The thousand rule priorities of an accepted client lie above 0 and below the
\* kernel's main-table rule, or its base is one of those whose sum with 1000 wraps
\* around: no other escapes checkRulePriority.
PrioritiesBelowMainOrWrapped ==
    at = "accepted" /\ file.role = "client" =>
        \/ opt.rulePriorityBase \in 1..(rulePriorityCeiling - 1000)
        \/ opt.rulePriorityBase + 1000 >= 2^UintBits

\* The scalar fields of a client that lie beyond what its messages and the comments
\* of types.go say of each by itself: "must be in [1, 31765]", "must be positive".
BeyondBounds(c) ==
    NotAllowed(c, commonAllowed)
    \cup NotAllowed(c, clientAllowed)
    \cup When(c.queueDelayTarget \notin Positive, "queueDelayTarget")
    \cup When(c.rulePriorityBase \notin 1..(rulePriorityCeiling - 1000), "rulePriorityBase")

\* "a single call reports every problem rather than only the first" (errList): when a
\* load has ended, every field beyond its bounds is in what Validate reported.
EveryProblemReported ==
    at \in {"accepted", "refused"} /\ file.role = "client" =>
        {<<0, f>> : f \in BeyondBounds(opt)} \subseteq errs

\* The problems whose checks make Validate skip others: the rates that are not
\* positive, and the subnet that other addresses are compared with.
Hiding == {<<0, "rates">>, <<0, "subnet">>}

\* A file repaired as reported is accepted by the next load, or by the one after if
\* the first report had a problem that keeps other checks from running.
OneReportIsEnough ==
    at = "refused" => \/ Len(reported) = 1
                      \/ Len(reported) = 2 /\ reported[1] \cap Hiding # {}

\* However many fields and elements are wrong, and whatever a problem hides or a
\* repair makes visible, the operator who repairs what is reported is refused twice at
\* most.
TwoReportsAreEnough == at = "refused" => Len(reported) <= 2
===============================================================================
