------------------------------- MODULE Recovery -------------------------------
(***************************************************************************)
(* `red-mpudp cleanup` (cmd/red-mpudp/cleanup.go) driving journal.Recover  *)
(* (internal/journal/recover.go) against the host calls of LinuxHost       *)
(* (internal/journal/host_linux.go).                                       *)
(*                                                                         *)
(* Every host call is one step, so a call may fail, the process may be     *)
(* killed between two calls and run again, several cleanups may overlap    *)
(* (nothing in the code excludes it) and the operator may change the host  *)
(* in between.                                                             *)
(*                                                                         *)
(* Identifiers are opaque strings. A route's `dst` stands for destination, *)
(* device and gateway; a rule's `sel` for family and priority; an nftables *)
(* table is one name.                                                      *)
(***************************************************************************)
EXTENDS Integers, Sequences

CONSTANTS
    Procs,              \* cleanup invocations that may overlap
    Journals,           \* what the state file may hold
    NoFile,             \* the state file does not exist
    OperatorRoutes,     \* routes of the operator, outside the tunnel's tables
    OperatorRules,      \* policy rules of the operator
    StrayRoutes,        \* routes in the tunnel's tables that no journal lists
    Sysctls,            \* sysctl names the host knows or once knew
    Values,             \* sysctl values
    ResolverSupported,  \* whether Host.RestoreResolver can succeed
    MaxFaults,          \* bound on failing calls and killed processes
    MaxOps              \* bound on operator interventions

Malformed     == "malformed"   \* an identifier that Validate rejects
SchemaVersion == 1
Roles         == {"client", "server"}
Absent        == "absent"      \* a sysctl with no file under /proc/sys

RouteRecord  == [dst : STRING, table : Nat, metric : Nat]
RuleRecord   == [sel : STRING, table : Nat, mark : Nat]
SysctlRecord == [name : Sysctls \cup {Malformed}, prior : Values, installed : Values]

Journal == [schema   : Nat,
            role     : STRING,
            instance : STRING,
            routes   : Seq(RouteRecord),
            rules    : Seq(RuleRecord),
            tables   : Seq(Nat),
            nftables : Seq(STRING),
            sysctls  : Seq(SysctlRecord),
            resolver : BOOLEAN]

Elems(s) == {s[i] : i \in DOMAIN s}

ASSUME JournalsAssumption ==
    /\ Journals \subseteq Journal
    /\ NoFile \notin Journal

\* A journal records each sysctl once: the value found before its only change.
ASSUME SysctlsRecordedOnce ==
    \A jn \in Journals : \A a, b \in DOMAIN jn.sysctls :
        jn.sysctls[a].name = jn.sysctls[b].name => a = b

\* The operator's routes are not the journal's, and not in a table it owns: a
\* flush goes by table and cannot tell them apart.
ASSUME RoutesAssumption ==
    /\ OperatorRoutes \subseteq RouteRecord
    /\ StrayRoutes \subseteq RouteRecord
    /\ \A jn \in Journals : \A r \in OperatorRoutes :
        r \notin Elems(jn.routes) /\ r.table \notin Elems(jn.tables)

ASSUME RulesAssumption ==
    /\ OperatorRules \subseteq RuleRecord
    /\ \A jn \in Journals : OperatorRules \cap Elems(jn.rules) = {}

ASSUME BoundsAssumption ==
    /\ MaxFaults \in Nat
    /\ MaxOps \in Nat
    /\ ResolverSupported \in BOOLEAN
    /\ Absent \notin Values
    /\ Malformed \notin Sysctls

-------------------------------------------------------------------------------
VARIABLES
    journal,   \* the state file
    routes,    \* host: installed routes
    rules,     \* host: installed policy rules
    nft,       \* host: nftables tables present
    sysctl,    \* host: live value of each sysctl
    resolver,  \* host: "tunnel" while DNS points into the tunnel, or "prior"
    pc,        \* per process: the loop of Recover it is in, or "idle"
    j,         \* per process: the journal it loaded
    idx,       \* per process: next record of the current loop
    errs,      \* per process: len(phase1), then len(tableErrs), len(nftErrs)
    rep,       \* per process: the Report
    exit,      \* per process: how its last invocation ended
    faults,    \* faults left
    ops        \* operator interventions left

\* History variables: read by properties only, never by an action's guard.
VARIABLES
    opWrote,   \* sysctls the operator wrote while this was going on
    raced,     \* processes whose GetSysctl result the operator has outdated
    quiet,     \* processes during whose run the operator has not acted
    settled,   \* a quiet cleanup succeeded and the operator has not acted since
    rerun      \* processes started while settled

host  == <<routes, rules, nft, sysctl, resolver>>
local == <<pc, j, idx, errs, rep, exit>>
ghost == <<opWrote, raced, quiet, settled, rerun>>
vars  == <<journal, host, local, faults, ops, ghost>>

Report == [routes : Nat, rules : Nat, tables : Nat, nft : Nat,
           restored : SUBSET Sysctls, conflicts : SUBSET Sysctls,
           resolver : BOOLEAN, retained : BOOLEAN]

EmptyReport ==
    [routes |-> 0, rules |-> 0, tables |-> 0, nft |-> 0,
     restored |-> {}, conflicts |-> {}, resolver |-> FALSE, retained |-> FALSE]

Phases == {"idle", "routes", "rules", "resolver", "sysctls", "setsysctl",
           "tables", "nftables"}

Exits == {"none", "running", "killed", "usage", "config", "runtime", "ok"}

-------------------------------------------------------------------------------
\* (j *Journal) Validate: any record with a malformed identifier or a zero table
\* refuses the whole journal.
Validate(jn) ==
    /\ jn.schema = SchemaVersion
    /\ jn.role \in Roles
    /\ jn.instance # Malformed
    /\ \A r \in Elems(jn.routes) : r.dst # Malformed /\ r.table # 0
    /\ \A r \in Elems(jn.rules) : r.sel # Malformed /\ r.table # 0
    /\ 0 \notin Elems(jn.tables)
    /\ Malformed \notin Elems(jn.nftables)
    /\ \A s \in Elems(jn.sysctls) : s.name # Malformed

checkOwner(jn, role, instance) ==
    /\ jn.role = role
    /\ instance \in {"", jn.instance}

\* The daemon died at any point: any part of what the journal names is still
\* installed, the operator may have changed a sysctl, or a sysctl may be gone
\* with its interface.
Init ==
    /\ \E jn \in Journals :
         /\ journal \in {jn, NoFile}
         /\ routes \in SUBSET (Elems(jn.routes) \cup OperatorRoutes
                    \cup {r \in StrayRoutes : r.table \in Elems(jn.tables)})
         /\ rules \in {own \cup OperatorRules : own \in SUBSET Elems(jn.rules)}
         /\ nft \in SUBSET Elems(jn.nftables)
    /\ sysctl \in [Sysctls -> Values \cup {Absent}]
    /\ resolver \in {"tunnel", "prior"}
    /\ pc = [p \in Procs |-> "idle"]
    /\ j = [p \in Procs |-> NoFile]
    /\ idx = [p \in Procs |-> 1]
    /\ errs = [p \in Procs |-> 0]
    /\ rep = [p \in Procs |-> EmptyReport]
    /\ exit = [p \in Procs |-> "none"]
    /\ faults = MaxFaults
    /\ ops = MaxOps
    /\ opWrote = {} /\ raced = {} /\ quiet = {} /\ settled = FALSE /\ rerun = {}

-------------------------------------------------------------------------------
\* cmdCleanup up to the call of Recover, and Recover's own checks. A bad --role
\* is a usage error before the file is read; everything else that does not fit
\* is refused as a configuration error.
Admission(role, instance) ==
    IF role \notin {""} \cup Roles THEN "usage"
    ELSE IF /\ journal # NoFile
            /\ Validate(journal)
            /\ role \in {"", journal.role}
            /\ instance \in {"", journal.instance}
            /\ checkOwner(journal, journal.role, instance)
         THEN "running"
         ELSE "config"

Start(p, role, instance) ==
    /\ pc[p] = "idle"
    /\ exit' = [exit EXCEPT ![p] = Admission(role, instance)]
    /\ IF Admission(role, instance) = "running"
       THEN /\ pc' = [pc EXCEPT ![p] = "routes"]
            /\ j' = [j EXCEPT ![p] = journal]
            /\ idx' = [idx EXCEPT ![p] = 1]
            /\ errs' = [errs EXCEPT ![p] = 0]
            /\ rep' = [rep EXCEPT ![p] = EmptyReport]
            /\ quiet' = quiet \cup {p}
            /\ rerun' = IF settled THEN rerun \cup {p} ELSE rerun
       ELSE UNCHANGED <<pc, j, idx, errs, rep, quiet, rerun>>
    /\ UNCHANGED <<journal, host, faults, ops, opWrote, raced, settled>>

\* The record the current loop of p is at.
At(p, loop, list) == pc[p] = loop /\ idx[p] \in DOMAIN list

\* p is past the last record of its current loop.
LoopEnds(p, loop, list) == pc[p] = loop /\ idx[p] > Len(list)

\* The call failed: its error is appended and the loop continues.
Failed(p) ==
    /\ faults > 0
    /\ faults' = faults - 1
    /\ errs' = [errs EXCEPT ![p] = @ + 1]
    /\ UNCHANGED rep

Step(p) == idx' = [idx EXCEPT ![p] = @ + 1]

EnterAtZero(p, loop) ==   \* mutant: the next loop starts one record too early
    /\ pc' = [pc EXCEPT ![p] = loop]
    /\ idx' = [idx EXCEPT ![p] = 0]
    /\ UNCHANGED <<journal, host, j, errs, rep, exit, faults, ops, ghost>>

Enter(p, loop) ==
    /\ pc' = [pc EXCEPT ![p] = loop]
    /\ idx' = [idx EXCEPT ![p] = 1]
    /\ UNCHANGED <<journal, host, j, errs, rep, exit, faults, ops, ghost>>

\* The process is gone, and its local variables with it.
Ends(p, code) ==
    /\ pc' = [pc EXCEPT ![p] = "idle"]
    /\ j' = [j EXCEPT ![p] = NoFile]
    /\ idx' = [idx EXCEPT ![p] = 1]
    /\ errs' = [errs EXCEPT ![p] = 0]
    /\ exit' = [exit EXCEPT ![p] = code]
    /\ raced' = raced \ {p}
    /\ quiet' = quiet \ {p}
    /\ rerun' = rerun \ {p}

\* Recover returns and cmdCleanup turns its error into an exit code. The state
\* file stays where it is.
Return(p, code, retained) ==
    /\ Ends(p, code)
    /\ rep' = [rep EXCEPT ![p].retained = retained]
    /\ settled' = (settled \/ (code = "ok" /\ p \in quiet))
    /\ UNCHANGED <<journal, host, faults, ops, opWrote>>

-------------------------------------------------------------------------------
\* `ip route del`: dst, table, dev and via always select; the metric is left out
\* of the command when it is zero. Of several matches the kernel takes the one
\* with the lowest metric; no match is "No such process", which is a success.
SelectsAnyMetric(r, x) == x.dst = r.dst /\ x.table = r.table   \* mutant

Selects(r, x) == x.dst = r.dst /\ x.table = r.table /\ r.metric \in {0, x.metric}

DeletesRoute(r) ==
    LET found == {x \in routes : Selects(r, x)}
    IN  \/ found = {} /\ routes' = routes
        \/ \E x \in found : /\ \A y \in found : x.metric <= y.metric
                            /\ routes' = routes \ {x}

DeleteRoute(p) ==
    /\ At(p, "routes", j[p].routes)
    /\ \/ Failed(p) /\ UNCHANGED routes
       \/ /\ DeletesRoute(j[p].routes[idx[p]])
          /\ rep' = [rep EXCEPT ![p].routes = @ + 1]
          /\ UNCHANGED <<faults, errs>>
    /\ Step(p)
    /\ UNCHANGED <<journal, rules, nft, sysctl, resolver, pc, j, exit, ops,
                   ghost>>

RoutesDone(p) == LoopEnds(p, "routes", j[p].routes) /\ Enter(p, "rules")

\* `ip rule del`: priority and table always select; the fwmark is left out of the
\* command when it is zero. The kernel takes the first match in its list; a rule that
\* is not there counts as deleted.
SelectsRule(r, x) == x.sel = r.sel /\ x.table = r.table /\ r.mark \in {0, x.mark}

DeletesRule(r) ==
    LET found == {x \in rules : SelectsRule(r, x)}
    IN  \/ found = {} /\ rules' = rules
        \/ \E x \in found : rules' = rules \ {x}

DeleteRule(p) ==
    /\ At(p, "rules", j[p].rules)
    /\ \/ Failed(p) /\ UNCHANGED rules
       \/ /\ DeletesRule(j[p].rules[idx[p]])
          /\ rep' = [rep EXCEPT ![p].rules = @ + 1]
          /\ UNCHANGED <<faults, errs>>
    /\ Step(p)
    /\ UNCHANGED <<journal, routes, nft, sysctl, resolver, pc, j, exit, ops,
                   ghost>>

RulesDone(p) == LoopEnds(p, "rules", j[p].rules) /\ Enter(p, "resolver")

NoResolver(p) == pc[p] = "resolver" /\ ~j[p].resolver /\ Enter(p, "sysctls")

ResolverSkipped(p) ==   \* mutant: the resolver's error is dropped
    /\ pc[p] = "resolver"
    /\ j[p].resolver
    /\ Enter(p, "sysctls")

\* LinuxHost.RestoreResolver always fails with this error, which costs no fault of
\* the environment; a Host that supports it may fail too.
ErrResolverUnsupported == ~ResolverSupported

RestoreResolver(p) ==
    /\ pc[p] = "resolver"
    /\ j[p].resolver
    /\ \/ /\ ErrResolverUnsupported
          /\ errs' = [errs EXCEPT ![p] = @ + 1]
          /\ UNCHANGED <<faults, rep, resolver>>
       \/ ResolverSupported /\ Failed(p) /\ UNCHANGED resolver
       \/ /\ ResolverSupported
          /\ resolver' = "prior"
          /\ rep' = [rep EXCEPT ![p].resolver = TRUE]
          /\ UNCHANGED <<faults, errs>>
    /\ pc' = [pc EXCEPT ![p] = "sysctls"]
    /\ idx' = [idx EXCEPT ![p] = 1]
    /\ UNCHANGED <<journal, routes, rules, nft, sysctl, j, exit, ops, ghost>>

AlreadyRestored(s, live) == live = s.prior

NeverConflict(s, live) == FALSE   \* mutant: JOURNAL-16 forgotten

Conflict(s, live) == live # s.installed

\* GetSysctl and the comparisons. A read error counts as a failure; a value that
\* is neither Prior nor Installed is the operator's: reported and left alone.
GetSysctl(p) ==
    /\ At(p, "sysctls", j[p].sysctls)
    /\ LET s    == j[p].sysctls[idx[p]]
           live == sysctl[s.name]
       IN  \/ /\ live = Absent
              /\ errs' = [errs EXCEPT ![p] = @ + 1]
              /\ Step(p)
              /\ UNCHANGED <<faults, rep, pc, raced>>
           \/ /\ live # Absent
              /\ Failed(p)
              /\ Step(p)
              /\ UNCHANGED <<pc, raced>>
           \/ /\ live # Absent
              /\ AlreadyRestored(s, live)
              /\ Step(p)
              /\ UNCHANGED <<faults, errs, rep, pc, raced>>
           \/ /\ live # Absent
              /\ ~AlreadyRestored(s, live)
              /\ Conflict(s, live)
              /\ rep' = [rep EXCEPT ![p].conflicts = @ \cup {s.name}]
              /\ Step(p)
              /\ UNCHANGED <<faults, errs, pc, raced>>
           \/ /\ live # Absent
              /\ ~AlreadyRestored(s, live)
              /\ ~Conflict(s, live)
              /\ pc' = [pc EXCEPT ![p] = "setsysctl"]
              /\ raced' = raced \ {p}
              /\ UNCHANGED <<faults, errs, rep, idx>>
    /\ UNCHANGED <<journal, host, j, exit, ops, opWrote, quiet, settled, rerun>>

WritesSysctl(name, v) == sysctl' = [sysctl EXCEPT ![name] = v]

\* The write does not look at the value again.
SetSysctl(p) ==
    /\ At(p, "setsysctl", j[p].sysctls)
    /\ LET s == j[p].sysctls[idx[p]]
       IN  \/ Failed(p) /\ UNCHANGED sysctl
           \/ /\ WritesSysctl(s.name, s.prior)
              /\ rep' = [rep EXCEPT ![p].restored = @ \cup {s.name}]
              /\ UNCHANGED <<faults, errs>>
    /\ pc' = [pc EXCEPT ![p] = "sysctls"]
    /\ Step(p)
    /\ UNCHANGED <<journal, routes, rules, nft, resolver, j, exit, ops, ghost>>

\* Mutants of the gate: the errors ignored; a preserved conflict taken for one.
GateIgnored(p) ==
    /\ LoopEnds(p, "sysctls", j[p].sysctls)
    /\ pc' = [pc EXCEPT ![p] = "tables"]
    /\ idx' = [idx EXCEPT ![p] = 1]
    /\ errs' = [errs EXCEPT ![p] = 0]
    /\ UNCHANGED <<journal, host, j, rep, exit, faults, ops, ghost>>

GateOnConflict(p) ==
    /\ LoopEnds(p, "sysctls", j[p].sysctls)
    /\ IF errs[p] = 0 /\ rep[p].conflicts = {}
       THEN Enter(p, "tables")
       ELSE Return(p, "runtime", j[p].nftables # <<>>)

\* The gate between the phases: any phase-1 error ends the recovery here.
Gate(p) ==
    /\ LoopEnds(p, "sysctls", j[p].sysctls)
    /\ IF errs[p] = 0
       THEN Enter(p, "tables")
       ELSE Return(p, "runtime", j[p].nftables # <<>>)

\* `ip route flush table` takes every route of the table, whoever added it.
InTable(id) == {r \in routes : r.table = id}

\* A flush that fails may have removed some of the routes.
DeleteRouteTable(p) ==
    /\ At(p, "tables", j[p].tables)
    /\ LET inside == InTable(j[p].tables[idx[p]])
       IN  \/ Failed(p) /\ \E gone \in SUBSET inside : routes' = routes \ gone
           \/ /\ routes' = routes \ inside
              /\ rep' = [rep EXCEPT ![p].tables = @ + 1]
              /\ UNCHANGED <<faults, errs>>
    /\ Step(p)
    /\ UNCHANGED <<journal, rules, nft, sysctl, resolver, pc, j, exit, ops, ghost>>

TablesUnchecked(p) ==   \* mutant: tableErrs ignored
    LoopEnds(p, "tables", j[p].tables) /\ Enter(p, "nftables")

TablesDone(p) ==
    /\ LoopEnds(p, "tables", j[p].tables)
    /\ IF errs[p] = 0
       THEN Enter(p, "nftables")
       ELSE Return(p, "runtime", j[p].nftables # <<>>)

\* `nft delete table`; a table that is not there counts as deleted.
DeletesNFTable(t) == nft' = nft \ {t}

DeleteNFTable(p) ==
    /\ At(p, "nftables", j[p].nftables)
    /\ \/ Failed(p) /\ UNCHANGED nft
       \/ /\ DeletesNFTable(j[p].nftables[idx[p]])
          /\ rep' = [rep EXCEPT ![p].nft = @ + 1]
          /\ UNCHANGED <<faults, errs>>
    /\ Step(p)
    /\ UNCHANGED <<journal, routes, rules, sysctl, resolver, pc, j, exit, ops, ghost>>

NFTablesUnchecked(p) ==   \* mutant: nftErrs ignored
    LoopEnds(p, "nftables", j[p].nftables) /\ Return(p, "ok", FALSE)

NFTablesDone(p) ==
    /\ LoopEnds(p, "nftables", j[p].nftables)
    /\ IF errs[p] = 0
       THEN Return(p, "ok", FALSE)
       ELSE Return(p, "runtime", rep[p].nft < Len(j[p].nftables))

\* The process is killed between two host calls.
Kill(p) ==
    /\ pc[p] # "idle"
    /\ faults > 0
    /\ faults' = faults - 1
    /\ Ends(p, "killed")
    /\ rep' = [rep EXCEPT ![p] = EmptyReport]
    /\ UNCHANGED <<journal, host, ops, opWrote, settled>>

-------------------------------------------------------------------------------
\* The operator, who shares the host with us.
Operator ==
    /\ ops > 0
    /\ ops' = ops - 1
    /\ settled' = FALSE
    /\ quiet' = {}
    /\ rerun' = {}
    /\ UNCHANGED <<rules, nft, local, faults>>

OperatorSetsSysctl(name, v) ==
    /\ Operator
    /\ sysctl[name] # Absent
    /\ sysctl' = [sysctl EXCEPT ![name] = v]
    /\ opWrote' = opWrote \cup {name}
    /\ raced' = raced \cup {p \in Procs : /\ At(p, "setsysctl", j[p].sysctls)
                                          /\ j[p].sysctls[idx[p]].name = name}
    /\ UNCHANGED <<journal, routes, resolver>>

OperatorAddsRoute(r) ==
    /\ Operator
    /\ routes' = routes \cup {r}
    /\ UNCHANGED <<journal, sysctl, resolver, opWrote, raced>>

OperatorRestoresResolver ==
    /\ Operator
    /\ resolver' = "prior"
    /\ UNCHANGED <<journal, routes, sysctl, opWrote, raced>>

\* "... or remove the resolver record from the journal" (host_linux.go).
OperatorDropsResolverRecord ==
    /\ Operator
    /\ journal # NoFile
    /\ journal' = [journal EXCEPT !.resolver = FALSE]
    /\ UNCHANGED <<routes, sysctl, resolver, opWrote, raced>>

-------------------------------------------------------------------------------
Instances == {jn.instance : jn \in Journals} \cup {"", "another"}

\* One call of Recover moves on.
Recover(p) ==
    \/ DeleteRoute(p)
    \/ RoutesDone(p)
    \/ DeleteRule(p)
    \/ RulesDone(p)
    \/ NoResolver(p)
    \/ RestoreResolver(p)
    \/ GetSysctl(p)
    \/ SetSysctl(p)
    \/ Gate(p)
    \/ DeleteRouteTable(p)
    \/ TablesDone(p)
    \/ DeleteNFTable(p)
    \/ NFTablesDone(p)

Environment ==
    \/ \E name \in Sysctls, v \in Values : OperatorSetsSysctl(name, v)
    \/ \E r \in OperatorRoutes : OperatorAddsRoute(r)
    \/ OperatorRestoresResolver
    \/ OperatorDropsResolverRecord

Next ==
    \/ \E p \in Procs :
         \/ \E role \in {"", "client", "server", "other"}, instance \in Instances :
              Start(p, role, instance)
         \/ Recover(p)
         \/ Kill(p)
    \/ Environment

Spec == Init /\ [][Next]_vars

\* A cleanup that was started runs on, and the operator runs it again until it
\* has succeeded, with no pin that could refuse it.
FairSpec ==
    /\ Spec
    /\ \A p \in Procs : WF_vars(Recover(p)) /\ WF_vars(Start(p, "", ""))

-------------------------------------------------------------------------------
TypeOK ==
    /\ journal \in Journal \cup {NoFile}
    /\ routes \subseteq RouteRecord
    /\ rules \subseteq RuleRecord
    /\ nft \subseteq STRING
    /\ sysctl \in [Sysctls -> Values \cup {Absent}]
    /\ resolver \in {"tunnel", "prior"}
    /\ pc \in [Procs -> Phases]
    /\ j \in [Procs -> Journal \cup {NoFile}]
    /\ idx \in [Procs -> Nat \ {0}]
    /\ errs \in [Procs -> Nat]
    /\ rep \in [Procs -> Report]
    /\ exit \in [Procs -> Exits]
    /\ faults \in Nat
    /\ ops \in Nat
    /\ opWrote \subseteq Sysctls
    /\ raced \subseteq Procs
    /\ quiet \subseteq Procs
    /\ settled \in BOOLEAN
    /\ rerun \subseteq Procs

\* What still steers traffic or names into the tunnel: owned routes, whatever is
\* left in owned tables, owned rules, a resolver not yet restored.
OwnedRoutes == {r \in routes : \/ r \in Elems(journal.routes)
                               \/ r.table \in Elems(journal.tables)}

TunnelState ==
    IF journal = NoFile THEN {}
    ELSE {<<"route", r>> : r \in OwnedRoutes}
         \cup {<<"rule", r>> : r \in rules \cap Elems(journal.rules)}
         \cup {<<"resolver">> : x \in {y \in {resolver} : y = "tunnel" /\ journal.resolver}}

\* The sysctls still at the value the tunnel installed, although the operator has
\* not touched them.
SysctlsInstalled ==
    {s \in Elems(journal.sysctls) : /\ s.installed # s.prior
                                    /\ sysctl[s.name] = s.installed
                                    /\ s.name \notin opWrote}

FC == INSTANCE FailClosed WITH capture <- TunnelState, kill <- nft

\* Recovery, with its overlapping runs, failing calls and kills, implements the
\* abstract fail-closed teardown: no step of it brings tunnel state back, and the
\* kill switch goes only after the tunnel state (Recover's two phases and gate).
FailClosedTeardown == FC!Spec

\* A kill-switch table is removed only from a host on which every owned route,
\* table, rule, resolver record and sysctl has been dealt with: the gate of
\* Recover holds across overlapping runs, kills and re-runs.
KillSwitchLast ==
    [][nft' # nft => TunnelState = {} /\ SysctlsInstalled = {}]_vars

\* A cleanup that exits 0 has left nothing of the journal on the host, and its
\* report accounts for every record of every list.
ExitOkIsComplete ==
    [][\A p \in Procs : exit[p] = "running" /\ exit'[p] = "ok" =>
         /\ TunnelState = {} /\ nft = {}
         /\ rep[p].routes = Len(j[p].routes)
         /\ rep[p].rules = Len(j[p].rules)
         /\ rep[p].tables = Len(j[p].tables)
         /\ rep[p].nft = Len(j[p].nftables)
         /\ rep[p].resolver = j[p].resolver]_vars

\* Recovery writes a sysctl only back to Prior, and only over the Installed value
\* (JOURNAL-15, JOURNAL-16), unless the operator wrote it after GetSysctl had
\* returned: the read and the write are two calls.
OperatorSysctlsKept ==
    [][ops' = ops => \A name \in Sysctls : sysctl'[name] # sysctl[name] =>
         \E p \in {q \in Procs : pc[q] = "setsysctl"} : \E s \in Elems(j[p].sysctls) :
            /\ s.name = name
            /\ sysctl'[name] = s.prior
            /\ sysctl[name] = s.installed \/ p \in raced]_vars

\* No cleanup removes a route or rule of the operator's, also one that differs from an
\* owned route only by its metric (the comment on LinuxHost.DeleteRoute), or from an
\* owned rule only by its fwmark.
OperatorRoutingKept ==
    [][ops' = ops => /\ routes \cap OperatorRoutes \subseteq routes'
                     /\ rules \cap OperatorRules \subseteq rules']_vars

\* "A second call with the same journal is a no-op success" (Recover): a cleanup
\* started after one succeeded changes nothing on the host, unless the operator
\* has intervened.
RerunIsNoOp ==
    [][\A p \in rerun : pc'[p] # pc[p] \/ idx'[p] # idx[p] => UNCHANGED host]_vars

\* Once faults stop, re-running cleanup takes a host whose journal is valid, whose
\* recorded sysctls exist and whose resolver record the Host can restore, all the
\* way to an open host with no tunnel state.
Recoverable ==
    /\ journal # NoFile
    /\ Validate(journal)
    /\ \A s \in Elems(journal.sysctls) : sysctl[s.name] # Absent
    /\ journal.resolver => ResolverSupported

CleanupSucceeds == Recoverable ~> (TunnelState = {} /\ nft = {})

\* recover.go, on the resolver: it "must succeed before any rule, route, or
\* kill-switch removal". Recover deletes routes and rules first.
ResolverRestoredFirst ==
    [][( /\ journal # NoFile
         /\ journal.resolver
         /\ ops' = ops
         /\ OwnedRoutes \ routes' # {} \/ rules' # rules )
       => resolver = "prior"]_vars
===============================================================================
