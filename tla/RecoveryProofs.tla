----------------------------- MODULE RecoveryProofs ----------------------------
(***************************************************************************)
(* Proofs about Recovery for every set of processes, journals, routes,     *)
(* sysctls and bounds.                                                     *)
(***************************************************************************)
EXTENDS Recovery, TLAPS

\* A host call either fails, adding one error and using one fault, or is counted.
LEMMA CallType ==
  ASSUME TypeOK, NEW p \in Procs,
         \/ Failed(p)
         \/ UNCHANGED <<faults, errs>> /\ rep' \in [Procs -> Report]
  PROVE  faults' \in Nat /\ errs' \in [Procs -> Nat] /\ rep' \in [Procs -> Report]
BY DEF TypeOK, Failed

\* The loop variable moves on to the next record.
LEMMA StepType ==
  ASSUME TypeOK, NEW p \in Procs, Step(p)
  PROVE  idx' \in [Procs -> Nat \ {0}]
BY DEF TypeOK, Step

\* Bumping a counter of the report, or setting one of its flags, gives a report.
LEMMA ReportType ==
  ASSUME TypeOK, NEW p \in Procs
  PROVE  /\ EmptyReport \in Report
         /\ [rep EXCEPT ![p].routes = @ + 1] \in [Procs -> Report]
         /\ [rep EXCEPT ![p].rules = @ + 1] \in [Procs -> Report]
         /\ [rep EXCEPT ![p].tables = @ + 1] \in [Procs -> Report]
         /\ [rep EXCEPT ![p].nft = @ + 1] \in [Procs -> Report]
         /\ [rep EXCEPT ![p].resolver = TRUE] \in [Procs -> Report]
         /\ \A b \in BOOLEAN : [rep EXCEPT ![p].retained = b] \in [Procs -> Report]
         /\ \A s \in Sysctls :
              /\ [rep EXCEPT ![p].restored = @ \cup {s}] \in [Procs -> Report]
              /\ [rep EXCEPT ![p].conflicts = @ \cup {s}] \in [Procs -> Report]
<1> DEFINE r == rep[p]
<1>1. r \in Report BY DEF TypeOK
<1>2. EmptyReport \in Report BY DEF EmptyReport, Report
<1>3. [r EXCEPT !.routes = @ + 1] \in Report BY <1>1 DEF Report
<1>4. [r EXCEPT !.rules = @ + 1] \in Report BY <1>1 DEF Report
<1>5. [r EXCEPT !.tables = @ + 1] \in Report BY <1>1 DEF Report
<1>6. [r EXCEPT !.nft = @ + 1] \in Report BY <1>1 DEF Report
<1>7. [r EXCEPT !.resolver = TRUE] \in Report BY <1>1 DEF Report
<1>8. \A b \in BOOLEAN : [r EXCEPT !.retained = b] \in Report BY <1>1 DEF Report
<1>9. \A s \in Sysctls : [r EXCEPT !.restored = @ \cup {s}] \in Report
  BY <1>1 DEF Report
<1>10. \A s \in Sysctls : [r EXCEPT !.conflicts = @ \cup {s}] \in Report
  BY <1>1 DEF Report
<1>11. rep \in [Procs -> Report] BY DEF TypeOK
<1>12. QED
  BY <1>2, <1>3, <1>4, <1>5, <1>6, <1>7, <1>8, <1>9, <1>10, <1>11

-------------------------------------------------------------------------------
\* Two journals with the same records, the resolver's apart.
SameRecords(a, b) ==
    /\ a.routes = b.routes
    /\ a.rules = b.rules
    /\ a.tables = b.tables
    /\ a.nftables = b.nftables
    /\ a.sysctls = b.sysctls

\* The state file keeps the records of one of the journals, and on the host are
\* only the rules and kill-switch tables it names, and the operator's rules.
FileInv ==
    journal # NoFile =>
      /\ \E jn \in Journals : SameRecords(journal, jn)
      /\ rules \subseteq Elems(journal.rules) \cup OperatorRules
      /\ nft \subseteq Elems(journal.nftables)

\* A running process holds a validated copy of the state file; only the resolver
\* record may have been taken out of the file since.
LoadedInv ==
    \A p \in Procs : pc[p] # "idle" =>
      /\ journal # NoFile
      /\ j[p] \in Journal
      /\ Validate(j[p])
      /\ SameRecords(j[p], journal)
      /\ journal.resolver => j[p].resolver

Typed == TypeOK /\ FileInv /\ LoadedInv

\* The name of a record of a loaded journal is a sysctl of the host.
LEMMA LoadedSysctl ==
  ASSUME Typed, NEW p \in Procs, pc[p] # "idle", NEW i \in DOMAIN j[p].sysctls
  PROVE  /\ j[p].sysctls[i] \in SysctlRecord
         /\ j[p].sysctls[i].name \in Sysctls
         /\ j[p].sysctls[i].prior \in Values
<1>1. j[p] \in Journal /\ Validate(j[p]) BY DEF Typed, LoadedInv
<1>2. j[p].sysctls[i] \in SysctlRecord BY <1>1 DEF Journal
<1>3. j[p].sysctls[i].name # Malformed BY <1>1 DEF Validate, Elems
<1>4. QED BY <1>2, <1>3 DEF SysctlRecord

\* The host as the daemon left it, with no cleanup running, is typed.
LEMMA TypedInit == Init => Typed
<1> SUFFICES ASSUME Init PROVE Typed OBVIOUS
<1>1. PICK jn \in Journals :
         /\ journal \in {jn, NoFile}
         /\ routes \in SUBSET (Elems(jn.routes) \cup OperatorRoutes
                    \cup {r \in StrayRoutes : r.table \in Elems(jn.tables)})
         /\ rules \in {own \cup OperatorRules : own \in SUBSET Elems(jn.rules)}
         /\ nft \in SUBSET Elems(jn.nftables)
  BY DEF Init
<1>2. jn \in Journal BY JournalsAssumption
<1>3. /\ Elems(jn.routes) \subseteq RouteRecord
      /\ Elems(jn.rules) \subseteq RuleRecord
      /\ Elems(jn.nftables) \subseteq STRING
  BY <1>2 DEF Elems, Journal
<1>4. journal \in Journal \cup {NoFile} BY <1>1, <1>2
<1>5. /\ routes \subseteq RouteRecord
      /\ rules \subseteq RuleRecord
      /\ nft \subseteq STRING
  BY <1>1, <1>3, RoutesAssumption, RulesAssumption
<1>6. rep \in [Procs -> Report] BY DEF Init, EmptyReport, Report
<1>11. faults \in Nat /\ ops \in Nat BY BoundsAssumption DEF Init
<1>12. idx \in [Procs -> Nat \ {0}] /\ errs \in [Procs -> Nat] BY DEF Init
<1>7. TypeOK
  BY <1>4, <1>5, <1>6, <1>11, <1>12 DEF Init, TypeOK, Phases, Exits
<1>8. FileInv BY <1>1 DEF FileInv, SameRecords
<1>9. LoadedInv BY DEF Init, LoadedInv
<1>10. QED BY <1>7, <1>8, <1>9 DEF Typed

\* A step within the loops that leaves the file, the copies and the set of
\* running processes alone, and adds no rule or table, keeps the file invariants.
LEMMA LoadedKept ==
  ASSUME Typed, UNCHANGED <<journal, j>>, rules' \subseteq rules, nft' \subseteq nft,
         \A p \in Procs : pc'[p] # "idle" => pc[p] # "idle"
  PROVE  FileInv' /\ LoadedInv'
BY DEF Typed, FileInv, LoadedInv

\* Every step of a cleanup, of the operator and of a kill keeps the types.
LEMMA TypedNext == Typed /\ [Next]_vars => Typed'
<1> SUFFICES ASSUME Typed, [Next]_vars PROVE Typed'
  OBVIOUS
<1> USE DEF host, local, ghost
<1>0. TypeOK BY DEF Typed
<1>1. ASSUME NEW p \in Procs, NEW role, NEW instance, Start(p, role, instance)
      PROVE  Typed'
  <2>1. CASE Admission(role, instance) = "running"
    <3>1. journal # NoFile /\ Validate(journal)
      BY <2>1 DEF Admission
    <3>7. EmptyReport \in Report BY <1>0, ReportType
    <3>6. rep' \in [Procs -> Report] BY <1>0, <1>1, <2>1, <3>7 DEF Start, TypeOK
    <3>2. TypeOK'
      BY <1>0, <1>1, <2>1, <3>1, <3>6 DEF Start, TypeOK, Phases, Exits
    <3>3. LoadedInv'
      BY <1>0, <1>1, <2>1, <3>1 DEF Start, TypeOK, Typed, LoadedInv, SameRecords
    <3>4. FileInv' BY <1>1 DEF Start, Typed, FileInv
    <3>5. QED BY <3>2, <3>3, <3>4 DEF Typed
  <2>2. CASE Admission(role, instance) # "running"
    <3>1. Admission(role, instance) \in Exits BY DEF Admission, Exits
    <3>2. TypeOK' BY <1>0, <1>1, <2>2, <3>1 DEF Start, TypeOK
    <3>3. QED BY <1>1, <2>2, <3>2, LoadedKept DEF Start, Typed
  <2>3. QED BY <2>1, <2>2
<1>2. ASSUME NEW p \in Procs, DeleteRoute(p) PROVE Typed'
  <2>1. [rep EXCEPT ![p].routes = @ + 1] \in [Procs -> Report] BY <1>0, ReportType
  <2>2. faults' \in Nat /\ errs' \in [Procs -> Nat] /\ rep' \in [Procs -> Report]
    BY <1>0, <1>2, <2>1, CallType DEF DeleteRoute
  <2>3. idx' \in [Procs -> Nat \ {0}] BY <1>0, <1>2, StepType DEF DeleteRoute
  <2>4. routes' \subseteq routes BY <1>2 DEF DeleteRoute, DeletesRoute
  <2>5. TypeOK' BY <1>0, <1>2, <2>2, <2>3, <2>4 DEF DeleteRoute, TypeOK
  <2>6. QED BY <1>2, <2>5, LoadedKept DEF DeleteRoute, Typed
<1>3. ASSUME NEW p \in Procs, NEW loop \in Phases \ {"idle"}, pc[p] # "idle",
             Enter(p, loop)
      PROVE  Typed'
  <2>1. TypeOK' BY <1>0, <1>3 DEF Enter, TypeOK
  <2>2. QED BY <1>0, <1>3, <2>1, LoadedKept DEF Enter, Typed, TypeOK
<1>4. ASSUME NEW p \in Procs, DeleteRule(p) PROVE Typed'
  <2>1. [rep EXCEPT ![p].rules = @ + 1] \in [Procs -> Report] BY <1>0, ReportType
  <2>2. faults' \in Nat /\ errs' \in [Procs -> Nat] /\ rep' \in [Procs -> Report]
    BY <1>0, <1>4, <2>1, CallType DEF DeleteRule, DeletesRule
  <2>3. idx' \in [Procs -> Nat \ {0}] BY <1>0, <1>4, StepType DEF DeleteRule, DeletesRule
  <2>5. TypeOK' BY <1>0, <1>4, <2>2, <2>3 DEF DeleteRule, DeletesRule, TypeOK
  <2>6. QED BY <1>4, <2>5, LoadedKept DEF DeleteRule, DeletesRule, Typed
<1>5. ASSUME NEW p \in Procs, RestoreResolver(p) PROVE Typed'
  <2>1. [rep EXCEPT ![p].resolver = TRUE] \in [Procs -> Report]
    BY <1>0, ReportType
  <2>2. faults' \in Nat /\ errs' \in [Procs -> Nat] /\ rep' \in [Procs -> Report]
    <3>1. CASE ~ResolverSupported BY <1>0, <1>5, <3>1 DEF RestoreResolver, ErrResolverUnsupported, TypeOK
    <3>2. CASE ResolverSupported
      BY <1>0, <1>5, <2>1, <3>2, CallType DEF RestoreResolver, ErrResolverUnsupported
    <3>3. QED BY <3>1, <3>2
  <2>5. pc' \in [Procs -> Phases] /\ idx' \in [Procs -> Nat \ {0}]
    BY <1>0, <1>5 DEF RestoreResolver, ErrResolverUnsupported, TypeOK, Phases
  <2>6. resolver' \in {"tunnel", "prior"} BY <1>0, <1>5 DEF RestoreResolver, ErrResolverUnsupported, TypeOK
  <2>3. TypeOK' BY <1>0, <1>5, <2>2, <2>5, <2>6 DEF RestoreResolver, ErrResolverUnsupported, TypeOK
  <2>4. QED BY <1>0, <1>5, <2>3, LoadedKept DEF RestoreResolver, ErrResolverUnsupported, Typed, TypeOK
<1>6. ASSUME NEW p \in Procs, GetSysctl(p) PROVE Typed'
  <2>1. j[p].sysctls[idx[p]].name \in Sysctls
    BY <1>6, LoadedSysctl DEF GetSysctl, At
  <2> DEFINE name == j[p].sysctls[idx[p]].name
  <2>2. [rep EXCEPT ![p].conflicts = @ \cup {name}] \in [Procs -> Report]
    BY <1>0, <2>1, ReportType
  <2>3. faults' \in Nat /\ errs' \in [Procs -> Nat] /\ rep' \in [Procs -> Report]
    <3>1. CASE Failed(p) BY <1>0, <3>1, CallType
    <3>2. CASE UNCHANGED <<faults, rep>> /\ errs' = [errs EXCEPT ![p] = @ + 1]
      BY <1>0, <3>2 DEF TypeOK
    <3>4. CASE UNCHANGED <<faults, errs>> /\ rep' \in [Procs -> Report]
      BY <1>0, <3>4, CallType
    <3>5. rep \in [Procs -> Report] BY <1>0 DEF TypeOK
    <3>3. QED BY <1>6, <2>2, <3>1, <3>2, <3>4, <3>5 DEF GetSysctl
  <2>4. idx' \in [Procs -> Nat \ {0}]
    BY <1>0, <1>6, StepType DEF GetSysctl, TypeOK
  <2>5. pc' \in [Procs -> Phases] /\ raced' \subseteq Procs
    BY <1>0, <1>6 DEF GetSysctl, TypeOK, Phases
  <2>6. TypeOK' BY <1>0, <1>6, <2>3, <2>4, <2>5 DEF GetSysctl, TypeOK
  <2>7. \A q \in Procs : pc'[q] # "idle" => pc[q] # "idle"
    BY <1>0, <1>6 DEF GetSysctl, At, TypeOK
  <2>8. QED BY <1>6, <2>6, <2>7, LoadedKept DEF GetSysctl, Typed
<1>7. ASSUME NEW p \in Procs, SetSysctl(p) PROVE Typed'
  <2>1. /\ j[p].sysctls[idx[p]].name \in Sysctls
        /\ j[p].sysctls[idx[p]].prior \in Values
    BY <1>7, LoadedSysctl DEF SetSysctl, WritesSysctl, At
  <2> DEFINE name == j[p].sysctls[idx[p]].name
  <2>2. [rep EXCEPT ![p].restored = @ \cup {name}] \in [Procs -> Report]
    BY <1>0, <2>1, ReportType
  <2>3. faults' \in Nat /\ errs' \in [Procs -> Nat] /\ rep' \in [Procs -> Report]
    BY <1>0, <1>7, <2>2, CallType DEF SetSysctl, WritesSysctl
  <2>4. idx' \in [Procs -> Nat \ {0}] BY <1>0, <1>7, StepType DEF SetSysctl, WritesSysctl
  <2>5. sysctl' \in [Sysctls -> Values \cup {Absent}]
    BY <1>0, <1>7, <2>1 DEF SetSysctl, WritesSysctl, TypeOK
  <2>6. TypeOK' BY <1>0, <1>7, <2>3, <2>4, <2>5 DEF SetSysctl, WritesSysctl, TypeOK, Phases
  <2>7. QED BY <1>0, <1>7, <2>6, LoadedKept DEF SetSysctl, WritesSysctl, At, Typed, TypeOK
<1>8. ASSUME NEW p \in Procs, NEW code \in Exits, NEW b \in BOOLEAN, Return(p, code, b)
      PROVE  Typed'
  <2>5. rep' \in [Procs -> Report] BY <1>0, <1>8, ReportType DEF Return, TypeOK
  <2>1. TypeOK' BY <1>0, <1>8, <2>5 DEF Return, Ends, TypeOK, Phases
  <2>2. FileInv' BY <1>8 DEF Return, Typed, FileInv
  <2>3. LoadedInv' BY <1>0, <1>8 DEF Return, Ends, Typed, TypeOK, LoadedInv
  <2>4. QED BY <2>1, <2>2, <2>3 DEF Typed
<1>9. ASSUME NEW p \in Procs, DeleteRouteTable(p) PROVE Typed'
  <2>1. [rep EXCEPT ![p].tables = @ + 1] \in [Procs -> Report] BY <1>0, ReportType
  <2>2. faults' \in Nat /\ errs' \in [Procs -> Nat] /\ rep' \in [Procs -> Report]
    BY <1>0, <1>9, <2>1, CallType DEF DeleteRouteTable, InTable
  <2>3. idx' \in [Procs -> Nat \ {0}] BY <1>0, <1>9, StepType DEF DeleteRouteTable, InTable
  <2>4. routes' \subseteq routes BY <1>9 DEF DeleteRouteTable, InTable
  <2>5. TypeOK' BY <1>0, <1>9, <2>2, <2>3, <2>4 DEF DeleteRouteTable, InTable, TypeOK
  <2>6. QED BY <1>9, <2>5, LoadedKept DEF DeleteRouteTable, InTable, Typed
<1>10. ASSUME NEW p \in Procs, DeleteNFTable(p) PROVE Typed'
  <2>1. [rep EXCEPT ![p].nft = @ + 1] \in [Procs -> Report] BY <1>0, ReportType
  <2>2. faults' \in Nat /\ errs' \in [Procs -> Nat] /\ rep' \in [Procs -> Report]
    BY <1>0, <1>10, <2>1, CallType DEF DeleteNFTable, DeletesNFTable
  <2>3. idx' \in [Procs -> Nat \ {0}] BY <1>0, <1>10, StepType DEF DeleteNFTable, DeletesNFTable
  <2>5. TypeOK' BY <1>0, <1>10, <2>2, <2>3 DEF DeleteNFTable, DeletesNFTable, TypeOK
  <2>6. QED BY <1>10, <2>5, LoadedKept DEF DeleteNFTable, DeletesNFTable, Typed
<1>11. ASSUME NEW p \in Procs, Kill(p) PROVE Typed'
  <2>5. rep' \in [Procs -> Report] BY <1>0, <1>11, ReportType DEF Kill, TypeOK
  <2>6. faults' \in Nat BY <1>0, <1>11 DEF Kill, TypeOK
  <2>1. TypeOK' BY <1>0, <1>11, <2>5, <2>6 DEF Kill, Ends, TypeOK, Phases, Exits
  <2>2. FileInv' BY <1>11 DEF Kill, Typed, FileInv
  <2>3. LoadedInv' BY <1>0, <1>11 DEF Kill, Ends, Typed, TypeOK, LoadedInv
  <2>4. QED BY <2>1, <2>2, <2>3 DEF Typed
<1>12. CASE Environment
  <2>6. ASSUME Operator PROVE ops' \in Nat BY <1>0, <2>6 DEF Operator, TypeOK
  <2>1. ASSUME NEW name \in Sysctls, NEW v \in Values, OperatorSetsSysctl(name, v)
        PROVE  Typed'
    <3>3. ops' \in Nat BY <2>1, <2>6 DEF OperatorSetsSysctl
    <3>1. TypeOK' BY <1>0, <2>1, <3>3 DEF OperatorSetsSysctl, Operator, TypeOK
    <3>2. QED BY <2>1, <3>1, LoadedKept DEF OperatorSetsSysctl, Operator, Typed
  <2>2. ASSUME NEW r \in OperatorRoutes, OperatorAddsRoute(r) PROVE Typed'
    <3>3. ops' \in Nat BY <2>2, <2>6 DEF OperatorAddsRoute
    <3>1. TypeOK'
      BY <1>0, <2>2, <3>3, RoutesAssumption DEF OperatorAddsRoute, Operator, TypeOK
    <3>2. QED BY <2>2, <3>1, LoadedKept DEF OperatorAddsRoute, Operator, Typed
  <2>3. CASE OperatorRestoresResolver
    <3>3. ops' \in Nat BY <2>3, <2>6 DEF OperatorRestoresResolver
    <3>1. TypeOK' BY <1>0, <2>3, <3>3 DEF OperatorRestoresResolver, Operator, TypeOK
    <3>2. QED BY <2>3, <3>1, LoadedKept DEF OperatorRestoresResolver, Operator, Typed
  <2>4. CASE OperatorDropsResolverRecord
    <3>1. journal \in Journal BY <1>0, <2>4 DEF OperatorDropsResolverRecord, TypeOK
    <3>2. /\ journal' \in Journal
          /\ SameRecords(journal', journal)
          /\ ~journal'.resolver
      BY <2>4, <3>1 DEF OperatorDropsResolverRecord, Journal, SameRecords
    <3>3. journal' # NoFile BY <3>2, JournalsAssumption
    <3>8. ops' \in Nat BY <2>4, <2>6 DEF OperatorDropsResolverRecord
    <3>4. TypeOK'
      BY <1>0, <2>4, <3>2, <3>8 DEF OperatorDropsResolverRecord, Operator, TypeOK
    <3>5. FileInv'
      BY <2>4, <3>1, <3>2 DEF OperatorDropsResolverRecord, Operator, Typed, FileInv,
                              SameRecords
    <3>6. LoadedInv'
      BY <2>4, <3>2, <3>3 DEF OperatorDropsResolverRecord, Operator, Typed,
                              LoadedInv, SameRecords
    <3>7. QED BY <3>4, <3>5, <3>6 DEF Typed
  <2>5. QED BY <1>12, <2>1, <2>2, <2>3, <2>4 DEF Environment
<1>13. CASE UNCHANGED vars
  BY <1>13 DEF vars, Typed, TypeOK, FileInv, LoadedInv
<1>14. ASSUME NEW p \in Procs, Recover(p) PROVE Typed'
  <2>1. \A b : (j[p].nftables # b) \in BOOLEAN /\ (rep[p].nft < Len(j[p].nftables)) \in BOOLEAN
    OBVIOUS
  <2>2. CASE Gate(p) \/ TablesDone(p)
    BY <1>3, <1>8, <2>1, <2>2 DEF Gate, TablesDone, LoopEnds, Phases, Exits
  <2>3. CASE NFTablesDone(p)
    BY <1>8, <2>1, <2>3 DEF NFTablesDone, Exits
  <2>4. CASE RoutesDone(p) \/ RulesDone(p) \/ NoResolver(p)
    BY <1>3, <2>4 DEF RoutesDone, RulesDone, NoResolver, LoopEnds, Phases
  <2>5. QED
    BY <1>14, <1>2, <1>4, <1>5, <1>6, <1>7, <1>9, <1>10, <2>2, <2>3, <2>4 DEF Recover
<1>15. QED BY <1>1, <1>11, <1>12, <1>13, <1>14 DEF Next

\* Type correctness: no step of a cleanup, of its environment or of the operator
\* takes the state outside its types, whatever the constants.
THEOREM TypeCorrect == Spec => []TypeOK
<1>1. Typed => TypeOK BY DEF Typed
<1>2. QED BY <1>1, TypedInit, TypedNext, PTL DEF Spec

-------------------------------------------------------------------------------
(***************************************************************************)
(* The strengthening that makes the fail-closed property inductive: while  *)
(* a process has met no error, everything its loops have passed is gone    *)
(* from the host and stays gone, whatever the other processes do. In the   *)
(* last loop errs counts failed nftables deletions, so there the claim     *)
(* does not depend on it.                                                  *)
(***************************************************************************)
Passed(p, i, loop, later) == (pc[p] \in loop /\ i < idx[p]) \/ pc[p] \in later

RoutesGone(p) ==
    \A i \in DOMAIN j[p].routes :
        Passed(p, i, {"routes"}, Phases \ {"idle", "routes"})
          => j[p].routes[i] \notin routes

RulesGone(p) ==
    \A i \in DOMAIN j[p].rules :
        Passed(p, i, {"rules"}, Phases \ {"idle", "routes", "rules"})
          => j[p].rules[i] \notin rules

ResolverDone(p) ==
    pc[p] \in {"sysctls", "setsysctl", "tables", "nftables"} /\ j[p].resolver
      => resolver = "prior"

Settled(s) == \/ s.installed = s.prior
              \/ sysctl[s.name] # s.installed
              \/ s.name \in opWrote

SysctlsDone(p) ==
    \A i \in DOMAIN j[p].sysctls :
        Passed(p, i, {"sysctls", "setsysctl"}, {"tables", "nftables"})
          => Settled(j[p].sysctls[i])

TablesGone(p) ==
    \A i \in DOMAIN j[p].tables :
        Passed(p, i, {"tables"}, {"nftables"})
          => \A r \in routes : r.table # j[p].tables[i]

Clean(p) ==
    pc[p] # "idle" /\ (errs[p] = 0 \/ pc[p] = "nftables")
      => RoutesGone(p) /\ RulesGone(p) /\ ResolverDone(p)
           /\ SysctlsDone(p) /\ TablesGone(p)

IInv == Typed /\ \A p \in Procs : Clean(p)

\* A rule recorded without a fwmark is deleted without one, and then the command
\* selects every fwmark. Such a record must be the only rule, the journal's or the
\* operator's, at its priority and table: otherwise the command may take another one
\* and leave the recorded rule where it is.
NoMarkClash ==
    \A jn \in Journals : \A x \in Elems(jn.rules) :
      \A o \in Elems(jn.rules) \cup OperatorRules : SelectsRule(x, o) => o = x

\* Then `ip rule del` deletes the recorded rule and nothing else.
LEMMA DeletesRuleExactly ==
  ASSUME Typed, NoMarkClash, NEW p \in Procs, pc[p] # "idle",
         NEW i \in DOMAIN j[p].rules, DeletesRule(j[p].rules[i])
  PROVE  rules' = rules \ {j[p].rules[i]} /\ j[p].rules[i] \notin OperatorRules
<1>1. journal # NoFile /\ SameRecords(j[p], journal) /\ j[p] \in Journal
  BY DEF Typed, LoadedInv
<1>2. PICK jn \in Journals : SameRecords(journal, jn) BY <1>1 DEF Typed, FileInv
<1> DEFINE r == j[p].rules[i]
<1>3. r \in Elems(jn.rules) /\ r \in RuleRecord
  BY <1>1, <1>2 DEF SameRecords, Elems, Journal
<1>4. rules \subseteq Elems(jn.rules) \cup OperatorRules
  BY <1>1, <1>2 DEF Typed, FileInv, SameRecords
<1>5. \A x \in rules : SelectsRule(r, x) => x = r BY <1>3, <1>4 DEF NoMarkClash
<1>6. SelectsRule(r, r) BY <1>3 DEF SelectsRule, RuleRecord
<1>7. r \notin OperatorRules BY <1>3, RulesAssumption
<1>8. QED BY <1>5, <1>6, <1>7 DEF DeletesRule

\* What any step may do to the part of the host that the loops clear.
Shrinks ==
    /\ routes' \subseteq routes \cup OperatorRoutes
    /\ rules' \subseteq rules
    /\ nft' \subseteq nft
    /\ resolver = "prior" => resolver' = "prior"
    /\ journal # NoFile =>
         \A s \in Elems(journal.sysctls) : Settled(s) => Settled(s)'

\* The records of a loaded journal are those of a journal of the assumptions: the
\* operator's routes are apart from its routes and tables, its sysctls are distinct.
LEMMA LoadedApart ==
  ASSUME Typed, NEW p \in Procs, pc[p] # "idle"
  PROVE  /\ \A i \in DOMAIN j[p].routes : j[p].routes[i] \notin OperatorRoutes
         /\ \A i \in DOMAIN j[p].tables : \A r \in OperatorRoutes :
              r.table # j[p].tables[i]
         /\ \A a, b \in DOMAIN j[p].sysctls :
              j[p].sysctls[a].name = j[p].sysctls[b].name => a = b
         /\ j[p].sysctls = journal.sysctls
         /\ journal # NoFile
<1>1. journal # NoFile /\ SameRecords(j[p], journal) BY DEF Typed, LoadedInv
<1>2. PICK jn \in Journals : SameRecords(journal, jn) BY <1>1 DEF Typed, FileInv
<1>3. /\ j[p].routes = jn.routes
      /\ j[p].tables = jn.tables
      /\ j[p].sysctls = jn.sysctls
      /\ j[p].sysctls = journal.sysctls
  BY <1>1, <1>2 DEF SameRecords
<1>4. \A r \in OperatorRoutes : r \notin Elems(jn.routes) /\ r.table \notin Elems(jn.tables)
  BY RoutesAssumption
<1>5. \A a, b \in DOMAIN jn.sysctls : jn.sysctls[a].name = jn.sysctls[b].name => a = b
  BY SysctlsRecordedOnce
<1>6. QED BY <1>1, <1>3, <1>4, <1>5 DEF Elems

\* No step brings tunnel state back.
LEMMA ShrinksNext == Typed /\ [Next]_vars => Shrinks
<1> SUFFICES ASSUME Typed, [Next]_vars PROVE Shrinks
  OBVIOUS
<1> USE DEF host, local, ghost
<1>1. CASE UNCHANGED <<sysctl, opWrote>>
  <2>1. journal # NoFile =>
         \A s \in Elems(journal.sysctls) : Settled(s) => Settled(s)'
    BY <1>1 DEF Settled
  <2>2. ASSUME NEW p \in Procs, Recover(p)
        PROVE  /\ routes' \subseteq routes
               /\ rules' \subseteq rules
               /\ nft' \subseteq nft
               /\ resolver = "prior" => resolver' = "prior"
    BY <2>2 DEF Recover, DeleteRoute, DeletesRoute, RoutesDone, DeleteRule, DeletesRule, RulesDone,
      NoResolver, RestoreResolver, ErrResolverUnsupported, GetSysctl, SetSysctl, WritesSysctl,
      Gate, DeleteRouteTable, InTable, TablesDone, DeleteNFTable, DeletesNFTable, NFTablesDone,
      Enter, Return
  <2>3. ASSUME NEW p \in Procs, NEW role, NEW instance,
               Start(p, role, instance) \/ Kill(p)
        PROVE  UNCHANGED host
    BY <2>3 DEF Start, Kill
  <2>4. CASE Environment
    BY <2>1, <2>4 DEF Environment, Operator, OperatorSetsSysctl, OperatorAddsRoute,
      OperatorRestoresResolver, OperatorDropsResolverRecord, Shrinks
  <2>5. CASE UNCHANGED vars BY <2>1, <2>5 DEF vars, Shrinks
  <2>6. QED BY <2>1, <2>2, <2>3, <2>4, <2>5 DEF Next, Shrinks
<1>2. ASSUME NEW p \in Procs, SetSysctl(p), sysctl' # sysctl PROVE Shrinks
  <2> DEFINE w == j[p].sysctls[idx[p]]
  <2>1. pc[p] # "idle" /\ idx[p] \in DOMAIN j[p].sysctls BY <1>2 DEF SetSysctl, WritesSysctl, At
  <2>2. sysctl' = [sysctl EXCEPT ![w.name] = w.prior] BY <1>2 DEF SetSysctl, WritesSysctl
  <2>3. ASSUME NEW s \in Elems(journal.sysctls), Settled(s) PROVE Settled(s)'
    <3>1. PICK i \in DOMAIN j[p].sysctls : s = j[p].sysctls[i]
      BY <2>1, <2>3, LoadedApart DEF Elems
    <3>2. s.name = w.name => s = w BY <2>1, <3>1, LoadedApart
    <3>3. s.name \in Sysctls BY <2>1, <3>1, LoadedSysctl
    <3>4. sysctl \in [Sysctls -> Values \cup {Absent}] BY DEF Typed, TypeOK
    <3>5. opWrote' = opWrote BY <1>2 DEF SetSysctl, WritesSysctl
    <3>6. QED BY <2>2, <2>3, <3>2, <3>3, <3>4, <3>5 DEF Settled
  <2>4. QED BY <1>2, <2>3 DEF SetSysctl, WritesSysctl, Shrinks
<1>3. ASSUME NEW name \in Sysctls, NEW v \in Values, OperatorSetsSysctl(name, v)
      PROVE  Shrinks
  <2>1. sysctl \in [Sysctls -> Values \cup {Absent}] BY DEF Typed, TypeOK
  <2>2. ASSUME NEW s, Settled(s) PROVE Settled(s)'
    <3>1. CASE s.name = name
      BY <1>3, <3>1 DEF OperatorSetsSysctl, Settled
    <3>2. CASE s.name # name
      BY <1>3, <2>1, <2>2, <3>2 DEF OperatorSetsSysctl, Settled
    <3>3. QED BY <3>1, <3>2
  <2>3. QED BY <1>3, <2>2 DEF OperatorSetsSysctl, Operator, Shrinks
<1>4. ASSUME NEW p \in Procs, Recover(p), ~SetSysctl(p)
      PROVE  UNCHANGED <<sysctl, opWrote>>
  BY <1>4 DEF Recover, DeleteRoute, RoutesDone, DeleteRule, DeletesRule, RulesDone, NoResolver,
    RestoreResolver, GetSysctl, Gate, DeleteRouteTable, TablesDone, DeleteNFTable,
    NFTablesDone, Enter, Return
<1>5. ASSUME NEW p \in Procs, SetSysctl(p) PROVE Shrinks
  <2>1. opWrote' = opWrote BY <1>5 DEF SetSysctl, WritesSysctl
  <2>2. QED BY <1>1, <1>2, <1>5, <2>1
<1>6. ASSUME NEW p \in Procs, NEW role, NEW instance,
             Start(p, role, instance) \/ Kill(p)
      PROVE  UNCHANGED <<sysctl, opWrote>>
  BY <1>6 DEF Start, Kill
<1>7. CASE UNCHANGED vars BY <1>1, <1>7 DEF vars
<1>8. CASE Environment
  BY <1>1, <1>3, <1>8 DEF Environment, OperatorAddsRoute, OperatorRestoresResolver,
    OperatorDropsResolverRecord, Operator
<1>9. QED BY <1>1, <1>4, <1>5, <1>6, <1>7, <1>8 DEF Next

\* A process that does not move stays clean, whatever the others do.
LEMMA CleanKept ==
  ASSUME IInv, Shrinks, NEW q \in Procs, Clean(q),
         pc'[q] = pc[q], idx'[q] = idx[q], errs'[q] = errs[q], j'[q] = j[q]
  PROVE  Clean(q)'
<1> SUFFICES ASSUME pc[q] # "idle", errs[q] = 0 \/ pc[q] = "nftables"
             PROVE  (RoutesGone(q) /\ RulesGone(q) /\ ResolverDone(q)
                      /\ SysctlsDone(q) /\ TablesGone(q))'
  BY DEF Clean
<1>1. Typed BY DEF IInv
<1>2. RoutesGone(q)'
  BY <1>1, LoadedApart DEF Clean, RoutesGone, Passed, Shrinks
<1>3. RulesGone(q)' BY DEF Clean, RulesGone, Passed, Shrinks
<1>4. ResolverDone(q)' BY DEF Clean, ResolverDone, Shrinks
<1>5. SysctlsDone(q)'
  <2>1. \A i \in DOMAIN j[q].sysctls : Settled(j[q].sysctls[i]) => Settled(j[q].sysctls[i])'
    BY <1>1, LoadedApart DEF Shrinks, Elems
  <2>2. QED BY <2>1 DEF Clean, SysctlsDone, Passed
<1>6. TablesGone(q)'
  BY <1>1, LoadedApart DEF Clean, TablesGone, Passed, Shrinks
<1>7. QED BY <1>2, <1>3, <1>4, <1>5, <1>6

\* A process that enters the next loop after the last record of the one before.
LEMMA CleanEnter ==
  ASSUME IInv, NEW p \in Procs, NEW loop, Enter(p, loop),
         \/ LoopEnds(p, "routes", j[p].routes) /\ loop = "rules"
         \/ LoopEnds(p, "rules", j[p].rules) /\ loop = "resolver"
         \/ pc[p] = "resolver" /\ ~j[p].resolver /\ loop = "sysctls"
         \/ LoopEnds(p, "sysctls", j[p].sysctls) /\ loop = "tables" /\ errs[p] = 0
         \/ LoopEnds(p, "tables", j[p].tables) /\ loop = "nftables" /\ errs[p] = 0
  PROVE  Clean(p)'
<1> USE DEF host, ghost
<1>0. /\ TypeOK /\ Clean(p) /\ pc[p] # "idle" /\ j[p] \in Journal
      /\ pc'[p] = loop /\ idx'[p] = 1
      /\ UNCHANGED <<routes, rules, resolver, sysctl, opWrote, j, errs>>
  BY DEF IInv, Typed, TypeOK, LoadedInv, Enter, LoopEnds
<1>1. SUFFICES ASSUME errs[p] = 0
               PROVE  (RoutesGone(p) /\ RulesGone(p) /\ ResolverDone(p)
                        /\ SysctlsDone(p) /\ TablesGone(p))'
  BY <1>0 DEF Clean, LoopEnds
<1>2. /\ DOMAIN j[p].routes = 1 .. Len(j[p].routes)
      /\ DOMAIN j[p].rules = 1 .. Len(j[p].rules)
      /\ DOMAIN j[p].sysctls = 1 .. Len(j[p].sysctls)
      /\ DOMAIN j[p].tables = 1 .. Len(j[p].tables)
      /\ idx[p] \in Nat
      /\ Len(j[p].routes) \in Nat /\ Len(j[p].rules) \in Nat
      /\ Len(j[p].sysctls) \in Nat /\ Len(j[p].tables) \in Nat
  BY <1>0 DEF Journal, TypeOK
<1>3. RoutesGone(p) /\ RulesGone(p) /\ ResolverDone(p) /\ SysctlsDone(p) /\ TablesGone(p)
  BY <1>0, <1>1 DEF Clean
<1> USE DEF LoopEnds, Passed, Phases
<1>4. RoutesGone(p)' BY <1>0, <1>2, <1>3 DEF RoutesGone
<1>5. RulesGone(p)' BY <1>0, <1>2, <1>3 DEF RulesGone
<1>6. ResolverDone(p)' BY <1>0, <1>3 DEF ResolverDone
<1>7. SysctlsDone(p)' BY <1>0, <1>2, <1>3 DEF SysctlsDone, Settled
<1>8. TablesGone(p)' BY <1>0, <1>2, <1>3 DEF TablesGone
<1>9. QED BY <1>4, <1>5, <1>6, <1>7, <1>8

\* A step of a loop: one host call for the record at idx. If it succeeded, what
\* has been passed is now one record longer.
LEMMA CleanCall ==
  ASSUME IInv, NoMarkClash, Shrinks, NEW p \in Procs,
         \/ DeleteRoute(p) \/ DeleteRule(p) \/ RestoreResolver(p) \/ GetSysctl(p)
         \/ SetSysctl(p) \/ DeleteRouteTable(p) \/ DeleteNFTable(p)
  PROVE  Clean(p)'
<1> USE DEF host, ghost, At
<1>0. /\ TypeOK /\ Typed /\ Clean(p) /\ j[p] \in Journal /\ idx[p] \in Nat
      /\ errs[p] \in Nat /\ pc[p] # "idle"
  BY DEF IInv, Typed, TypeOK, LoadedInv, DeleteRoute, DeleteRule, DeletesRule, RestoreResolver, ErrResolverUnsupported,
    GetSysctl, SetSysctl, DeleteRouteTable, DeleteNFTable
<1>1. /\ \A i \in DOMAIN j[p].routes : j[p].routes[i] \notin OperatorRoutes
      /\ \A i \in DOMAIN j[p].tables : \A r \in OperatorRoutes :
           r.table # j[p].tables[i]
  BY <1>0, LoadedApart
<1>2. \A s \in Elems(j[p].sysctls) : Settled(s) => Settled(s)'
  <2>1. j[p].sysctls = journal.sysctls /\ journal # NoFile BY <1>0, LoadedApart
  <2>2. QED BY <2>1 DEF Shrinks
<1>3. /\ \A i \in DOMAIN j[p].routes : i \in Nat \ {0}
      /\ \A i \in DOMAIN j[p].rules : i \in Nat \ {0}
      /\ \A i \in DOMAIN j[p].tables : i \in Nat \ {0}
      /\ \A i \in DOMAIN j[p].sysctls : i \in Nat \ {0}
  <2>1. j[p] \in Journal BY <1>0
  <2>2. \A i \in DOMAIN j[p].routes : i \in Nat \ {0} BY <2>1 DEF Journal
  <2>3. \A i \in DOMAIN j[p].rules : i \in Nat \ {0} BY <2>1 DEF Journal
  <2>4. \A i \in DOMAIN j[p].tables : i \in Nat \ {0} BY <2>1 DEF Journal
  <2>5. \A i \in DOMAIN j[p].sysctls : i \in Nat \ {0} BY <2>1 DEF Journal
  <2>6. QED BY <2>2, <2>3, <2>4, <2>5
<1>4. CASE DeleteRoute(p)
  <2>1. CASE Failed(p)
    <3>1. errs'[p] # 0 /\ pc'[p] # "nftables"
      BY <1>0, <1>4, <2>1 DEF DeleteRoute, Failed, TypeOK
    <3>2. QED BY <3>1 DEF Clean
  <2>2. CASE DeletesRoute(j[p].routes[idx[p]]) /\ UNCHANGED errs
    <3> DEFINE r == j[p].routes[idx[p]]
    <3>1. r \in RouteRecord BY <1>0, <1>4 DEF DeleteRoute, Journal
    <3>2. r \notin routes'
      <4>1. SUFFICES ASSUME r \in routes PROVE r \notin routes'
        BY <2>2 DEF DeletesRoute
      <4>2. Selects(r, r) BY <3>1 DEF Selects
      <4>3. PICK x \in routes : /\ Selects(r, x)
                                /\ x.metric <= r.metric
                                /\ routes' = routes \ {x}
        BY <2>2, <4>1, <4>2 DEF DeletesRoute
      <4>4. x \in RouteRecord BY <1>0 DEF TypeOK
      <4>5. x.dst = r.dst /\ x.table = r.table /\ x.metric = r.metric
        BY <3>1, <4>3, <4>4 DEF Selects, RouteRecord
      <4>6. x = r BY <3>1, <4>4, <4>5 DEF RouteRecord
      <4>7. QED BY <4>3, <4>6
    <3>3. pc'[p] = "routes" /\ idx'[p] = idx[p] + 1 /\ j' = j /\ pc[p] = "routes"
      BY <1>0, <1>4 DEF DeleteRoute, Step, TypeOK
    <3>4. SUFFICES ASSUME errs[p] = 0 PROVE RoutesGone(p)'
      BY <2>2, <3>3
      DEF Clean, RulesGone, ResolverDone, SysctlsDone, TablesGone, Passed, Phases
    <3>5. RoutesGone(p) BY <1>0, <3>4 DEF Clean
    <3>6. QED BY <1>0, <1>1, <1>3, <3>2, <3>3, <3>5 DEF RoutesGone, Passed, Shrinks
  <2>3. QED BY <1>4, <2>1, <2>2 DEF DeleteRoute
<1>5. CASE DeleteRule(p)
  <2>1. CASE Failed(p)
    <3>1. errs'[p] # 0 /\ pc'[p] # "nftables"
      BY <1>0, <1>5, <2>1 DEF DeleteRule, DeletesRule, Failed, TypeOK
    <3>2. QED BY <3>1 DEF Clean
  <2>2. CASE DeletesRule(j[p].rules[idx[p]]) /\ UNCHANGED errs
    <3>0. rules' = rules \ {j[p].rules[idx[p]]}
      BY <1>0, <1>5, <2>2, DeletesRuleExactly DEF DeleteRule
    <3>1. /\ pc'[p] = "rules" /\ idx'[p] = idx[p] + 1 /\ j' = j /\ pc[p] = "rules"
          /\ routes' = routes
      BY <1>0, <1>5 DEF DeleteRule, Step, TypeOK
    <3>2. SUFFICES ASSUME errs[p] = 0 PROVE RoutesGone(p)' /\ RulesGone(p)'
      BY <2>2, <3>1 DEF Clean, ResolverDone, SysctlsDone, TablesGone, Passed, Phases
    <3>3. RoutesGone(p) /\ RulesGone(p) BY <1>0, <3>2 DEF Clean
    <3>4. QED
      BY <1>0, <1>3, <3>0, <3>1, <3>3 DEF RoutesGone, RulesGone, Passed, Phases
  <2>3. QED BY <1>5, <2>1, <2>2 DEF DeleteRule
<1>6. CASE RestoreResolver(p)
  <2>1. /\ pc'[p] = "sysctls" /\ idx'[p] = 1 /\ j' = j /\ pc[p] = "resolver"
        /\ UNCHANGED <<routes, rules>>
    BY <1>0, <1>6 DEF RestoreResolver, ErrResolverUnsupported, TypeOK
  <2>2. CASE errs'[p] # 0 BY <2>1, <2>2 DEF Clean
  <2>3. CASE errs'[p] = 0
    <3>1. errs[p] = 0 /\ resolver' = "prior"
      BY <1>0, <1>6, <2>3 DEF RestoreResolver, ErrResolverUnsupported, Failed, TypeOK
    <3>2. RoutesGone(p) /\ RulesGone(p) BY <1>0, <2>1, <3>1 DEF Clean
    <3>3. RoutesGone(p)' /\ RulesGone(p)'
      BY <2>1, <3>2 DEF RoutesGone, RulesGone, Passed, Phases
    <3>4. SysctlsDone(p)' /\ TablesGone(p)' /\ ResolverDone(p)'
      BY <1>3, <2>1, <3>1 DEF SysctlsDone, TablesGone, ResolverDone, Passed
    <3>5. QED BY <3>3, <3>4 DEF Clean
  <2>4. QED BY <2>2, <2>3
<1>7. CASE GetSysctl(p)
  <2> DEFINE w == j[p].sysctls[idx[p]]
  <2>1. /\ j' = j /\ pc[p] = "sysctls" /\ UNCHANGED <<routes, rules, resolver, sysctl, opWrote>>
        /\ idx[p] \in DOMAIN j[p].sysctls
        /\ \/ pc'[p] = "sysctls" /\ idx'[p] = idx[p] + 1
           \/ pc'[p] = "setsysctl" /\ idx'[p] = idx[p]
    BY <1>0, <1>7 DEF GetSysctl, Step, TypeOK
  <2>2. CASE errs'[p] # 0 BY <2>1, <2>2 DEF Clean
  <2>3. CASE errs'[p] = 0
    <3>6. ~Failed(p) BY <1>0, <2>3 DEF Failed, TypeOK
    <3>7. errs' # [errs EXCEPT ![p] = @ + 1] BY <1>0, <2>3 DEF TypeOK
    <3>8. errs' = errs /\ sysctl[w.name] # Absent
      BY <1>7, <3>6, <3>7 DEF GetSysctl
    <3>9. ASSUME AlreadyRestored(w, sysctl[w.name]) \/ Conflict(w, sysctl[w.name])
          PROVE  Settled(w)
      BY <3>9 DEF AlreadyRestored, Conflict, Settled
    <3>10. ASSUME ~AlreadyRestored(w, sysctl[w.name]), ~Conflict(w, sysctl[w.name])
           PROVE  pc'[p] = "setsysctl"
      <4>1. pc' = [pc EXCEPT ![p] = "setsysctl"]
        BY <1>7, <3>6, <3>8, <3>10 DEF GetSysctl
      <4>2. QED BY <1>0, <4>1 DEF TypeOK
    <3>1. errs[p] = 0 /\ (pc'[p] = "sysctls" => Settled(w))
      BY <2>3, <3>8, <3>9, <3>10
    <3>2. RoutesGone(p) /\ RulesGone(p) /\ ResolverDone(p) /\ SysctlsDone(p)
      BY <1>0, <3>1 DEF Clean
    <3>3. RoutesGone(p)' /\ RulesGone(p)' /\ ResolverDone(p)' /\ TablesGone(p)'
      BY <2>1, <3>2 DEF RoutesGone, RulesGone, ResolverDone, TablesGone, Passed, Phases
    <3>4. SysctlsDone(p)'
      <4>1. \A i \in DOMAIN j[p].sysctls :
              i < idx'[p] => Settled(j[p].sysctls[i])
        BY <1>0, <1>3, <2>1, <3>1, <3>2 DEF SysctlsDone, Passed
      <4>2. QED BY <1>2, <2>1, <4>1 DEF SysctlsDone, Passed, Elems
    <3>5. QED BY <3>3, <3>4 DEF Clean
  <2>4. QED BY <2>2, <2>3
<1>8. CASE SetSysctl(p)
  <2> DEFINE w == j[p].sysctls[idx[p]]
  <2>1. /\ j' = j /\ pc[p] = "setsysctl" /\ UNCHANGED <<routes, rules, resolver, opWrote>>
        /\ idx[p] \in DOMAIN j[p].sysctls
        /\ pc'[p] = "sysctls" /\ idx'[p] = idx[p] + 1
    BY <1>0, <1>8 DEF SetSysctl, WritesSysctl, Step, TypeOK
  <2>2. CASE errs'[p] # 0 BY <2>1, <2>2 DEF Clean
  <2>3. CASE errs'[p] = 0
    <3>1. errs[p] = 0 /\ sysctl' = [sysctl EXCEPT ![w.name] = w.prior]
      <4>1. Failed(p) \/ (WritesSysctl(w.name, w.prior) /\ errs' = errs)
        BY <1>8 DEF SetSysctl
      <4>2. errs \in [Procs -> Nat] BY <1>0 DEF TypeOK
      <4>3. ~Failed(p) BY <2>3, <4>2 DEF Failed
      <4>4. QED BY <2>3, <4>1, <4>3 DEF WritesSysctl
    <3>2. \A s : s = w => Settled(s)'
      <4>1. w.name \in Sysctls BY <1>0, <2>1, LoadedSysctl
      <4>2. sysctl'[w.name] = w.prior BY <1>0, <3>1, <4>1 DEF TypeOK
      <4>3. QED BY <4>2 DEF Settled
    <3>3. RoutesGone(p) /\ RulesGone(p) /\ ResolverDone(p) /\ SysctlsDone(p)
      BY <1>0, <3>1 DEF Clean
    <3>4. RoutesGone(p)' /\ RulesGone(p)' /\ ResolverDone(p)' /\ TablesGone(p)'
      BY <2>1, <3>3 DEF RoutesGone, RulesGone, ResolverDone, TablesGone, Passed, Phases
    <3>5. SysctlsDone(p)'
      <4>1. \A i \in DOMAIN j[p].sysctls :
              i < idx[p] + 1 => Settled(j[p].sysctls[i]) \/ i = idx[p]
        BY <1>0, <1>3, <2>1, <3>3 DEF SysctlsDone, Passed
      <4>2. QED BY <1>2, <2>1, <3>2, <4>1 DEF SysctlsDone, Passed, Elems
    <3>6. QED BY <3>4, <3>5 DEF Clean
  <2>4. QED BY <2>2, <2>3
<1>9. CASE DeleteRouteTable(p)
  <2>1. /\ j' = j /\ pc[p] = "tables" /\ UNCHANGED <<rules, resolver, sysctl, opWrote>>
        /\ pc'[p] = "tables" /\ idx'[p] = idx[p] + 1
        /\ routes' \subseteq routes
    BY <1>0, <1>9 DEF DeleteRouteTable, InTable, Step, TypeOK
  <2>2. CASE errs'[p] # 0 BY <2>1, <2>2 DEF Clean
  <2>3. CASE errs'[p] = 0
    <3>1. /\ errs[p] = 0
          /\ routes' = routes \ {r \in routes : r.table = j[p].tables[idx[p]]}
      BY <1>0, <1>9, <2>3 DEF DeleteRouteTable, InTable, Failed, TypeOK
    <3>2. RoutesGone(p) /\ RulesGone(p) /\ ResolverDone(p) /\ SysctlsDone(p) /\ TablesGone(p)
      BY <1>0, <2>1, <3>1 DEF Clean
    <3>3. RoutesGone(p)' /\ RulesGone(p)' /\ ResolverDone(p)'
      BY <2>1, <3>2 DEF RoutesGone, RulesGone, ResolverDone, Passed, Phases
    <3>4. SysctlsDone(p)' BY <1>2, <2>1, <3>2 DEF SysctlsDone, Passed, Elems
    <3>5. TablesGone(p)'
      BY <1>0, <1>3, <2>1, <3>1, <3>2 DEF TablesGone, Passed
    <3>6. QED BY <3>3, <3>4, <3>5 DEF Clean
  <2>4. QED BY <2>2, <2>3
<1>10. CASE DeleteNFTable(p)
  <2>1. /\ j' = j /\ pc[p] = "nftables" /\ pc'[p] = "nftables"
        /\ UNCHANGED <<routes, rules, resolver, sysctl, opWrote>>
    BY <1>0, <1>10 DEF DeleteNFTable, DeletesNFTable, TypeOK
  <2>2. RoutesGone(p) /\ RulesGone(p) /\ ResolverDone(p) /\ SysctlsDone(p) /\ TablesGone(p)
    BY <1>0, <2>1 DEF Clean
  <2>3. RoutesGone(p)' /\ RulesGone(p)' /\ ResolverDone(p)' /\ TablesGone(p)'
    BY <2>1, <2>2 DEF RoutesGone, RulesGone, ResolverDone, TablesGone, Passed, Phases
  <2>4. SysctlsDone(p)' BY <1>2, <2>1, <2>2 DEF SysctlsDone, Passed, Elems
  <2>5. QED BY <2>3, <2>4 DEF Clean
<1>11. QED BY <1>4, <1>5, <1>6, <1>7, <1>8, <1>9, <1>10

\* The invariant holds before any cleanup has started.
LEMMA IInvInit == Init => IInv
BY TypedInit DEF Init, IInv, Clean

\* A step of one process leaves the variables of every other alone, and of the
\* history about the others it drops nothing and adds nothing.
LEMMA OthersStay ==
  ASSUME TypeOK, NEW p \in Procs, NEW q \in Procs, q # p,
         Recover(p) \/ Kill(p) \/ \E role, instance : Start(p, role, instance)
  PROVE  /\ pc'[q] = pc[q] /\ idx'[q] = idx[q] /\ errs'[q] = errs[q] /\ j'[q] = j[q]
         /\ rep'[q] = rep[q] /\ exit'[q] = exit[q]
         /\ q \in raced' <=> q \in raced
         /\ q \in quiet' <=> q \in quiet
         /\ q \in rerun' <=> q \in rerun
<1> USE DEF host, local, ghost
<1> DEFINE Stays == /\ pc'[q] = pc[q] /\ idx'[q] = idx[q] /\ errs'[q] = errs[q]
                    /\ j'[q] = j[q] /\ rep'[q] = rep[q] /\ exit'[q] = exit[q]
                    /\ q \in raced' <=> q \in raced
                    /\ q \in quiet' <=> q \in quiet
                    /\ q \in rerun' <=> q \in rerun
<1>1. CASE Kill(p) BY <1>1 DEF TypeOK, Kill, Ends
<1>2. CASE \E role, instance : Start(p, role, instance) BY <1>2 DEF TypeOK, Start
<1>3. ASSUME NEW loop, Enter(p, loop) PROVE Stays BY <1>3 DEF TypeOK, Enter
<1>4. ASSUME NEW code, NEW b, Return(p, code, b) PROVE Stays
  BY <1>4 DEF TypeOK, Return, Ends
<1>5. CASE RoutesDone(p) \/ RulesDone(p) \/ NoResolver(p) \/ Gate(p) \/ TablesDone(p)
           \/ NFTablesDone(p)
  BY <1>3, <1>4, <1>5 DEF RoutesDone, RulesDone, NoResolver, Gate, TablesDone,
    NFTablesDone
<1>6. CASE DeleteRoute(p) BY <1>6 DEF TypeOK, DeleteRoute, Failed, Step
<1>7. CASE DeleteRule(p) BY <1>7 DEF TypeOK, DeleteRule, DeletesRule, Failed, Step
<1>8. CASE DeleteRouteTable(p)
  BY <1>8 DEF TypeOK, DeleteRouteTable, InTable, Failed, Step
<1>9. CASE DeleteNFTable(p)
  BY <1>9 DEF TypeOK, DeleteNFTable, DeletesNFTable, Failed, Step
<1>10. CASE RestoreResolver(p)
  BY <1>10 DEF TypeOK, RestoreResolver, ErrResolverUnsupported, Failed
<1>11. CASE GetSysctl(p) BY <1>11 DEF TypeOK, GetSysctl, Failed, Step
<1>12. CASE SetSysctl(p) BY <1>12 DEF TypeOK, SetSysctl, WritesSysctl, Failed, Step
<1>13. QED
  BY <1>1, <1>2, <1>5, <1>6, <1>7, <1>8, <1>9, <1>10, <1>11, <1>12 DEF Recover

\* Every step keeps the invariant.
LEMMA IInvNext ==
  ASSUME NoMarkClash, IInv, [Next]_vars
  PROVE  IInv'
<1> USE DEF host, local, ghost
<1>0. Typed /\ TypeOK /\ Typed' /\ Shrinks
  BY TypedNext, ShrinksNext DEF IInv, Typed
<1>1. \A q \in Procs : Clean(q) BY DEF IInv
<1>2. ASSUME NEW p \in Procs, NEW q \in Procs, q # p,
             Recover(p) \/ Kill(p) \/ \E role, instance : Start(p, role, instance)
      PROVE  pc'[q] = pc[q] /\ idx'[q] = idx[q] /\ errs'[q] = errs[q] /\ j'[q] = j[q]
  BY <1>0, <1>2, OthersStay
<1>3. ASSUME NEW p \in Procs,
             Recover(p) \/ Kill(p) \/ \E role, instance : Start(p, role, instance)
      PROVE  Clean(p)'
  <2>1. ASSUME Kill(p) \/ \E code, b : Return(p, code, b) PROVE Clean(p)'
    BY <1>0, <2>1 DEF Kill, Return, Ends, Clean, TypeOK
  <2>2. ASSUME NEW role, NEW instance, Start(p, role, instance) PROVE Clean(p)'
    <3>1. CASE Admission(role, instance) = "running"
      <4>1. pc'[p] = "routes" /\ idx'[p] = 1 /\ j'[p] = journal /\ journal \in Journal
        BY <1>0, <2>2, <3>1 DEF Start, TypeOK, Admission
      <4>2. \A i \in DOMAIN journal.routes : i \in Nat /\ i >= 1
        BY <4>1 DEF Journal
      <4>3. RoutesGone(p)' BY <4>1, <4>2 DEF RoutesGone, Passed
      <4>4. (RulesGone(p) /\ ResolverDone(p) /\ SysctlsDone(p) /\ TablesGone(p))'
        BY <4>1 DEF RulesGone, ResolverDone, SysctlsDone, TablesGone, Passed
      <4>5. QED BY <4>3, <4>4 DEF Clean
    <3>2. CASE Admission(role, instance) # "running"
      BY <1>0, <2>2, <3>2 DEF Start, Clean
    <3>3. QED BY <3>1, <3>2
  <2>3. CASE Gate(p) \/ TablesDone(p) \/ NFTablesDone(p)
    BY <2>1, <2>3, CleanEnter DEF Gate, TablesDone, NFTablesDone
  <2>4. CASE RoutesDone(p) \/ RulesDone(p) \/ NoResolver(p)
    BY <2>4, CleanEnter DEF RoutesDone, RulesDone, NoResolver
  <2>5. QED BY <1>0, <1>3, <2>1, <2>2, <2>3, <2>4, CleanCall DEF Recover
<1>4. CASE \E p \in Procs :
             Recover(p) \/ Kill(p) \/ \E role, instance : Start(p, role, instance)
  BY <1>0, <1>1, <1>2, <1>3, <1>4, CleanKept DEF IInv
<1>5. CASE Environment
  <2>1. UNCHANGED local
    BY <1>5 DEF Environment, Operator, OperatorSetsSysctl, OperatorAddsRoute,
      OperatorRestoresResolver, OperatorDropsResolverRecord
  <2>2. QED BY <1>0, <1>1, <2>1, CleanKept DEF IInv
<1>6. CASE UNCHANGED vars
  BY <1>0, <1>1, <1>6, CleanKept DEF vars, IInv
<1>7. QED BY <1>4, <1>5, <1>6 DEF Next

\* The invariant holds in every state of every run.
LEMMA Invariance ==
  ASSUME NoMarkClash
  PROVE  Spec => []IInv
<1>1. IInv /\ [Next]_vars => IInv' BY IInvNext, NoMarkClash
<1>2. QED BY <1>1, IInvInit, PTL DEF Spec

-------------------------------------------------------------------------------
\* A process in the last loop looks at a host with no tunnel state left.
LEMMA LastLoopIsClean ==
  ASSUME IInv, NEW p \in Procs, pc[p] = "nftables"
  PROVE  TunnelState = {} /\ SysctlsInstalled = {}
<1>1. /\ RoutesGone(p) /\ RulesGone(p) /\ ResolverDone(p) /\ SysctlsDone(p)
      /\ TablesGone(p)
  BY DEF IInv, Clean
<1>2. /\ SameRecords(j[p], journal)
      /\ journal.resolver => j[p].resolver
  BY DEF IInv, Typed, LoadedInv
<1>3. OwnedRoutes = {}
  BY <1>1, <1>2 DEF OwnedRoutes, Elems, SameRecords, RoutesGone, TablesGone, Passed, Phases
<1>4. rules \cap Elems(journal.rules) = {}
  BY <1>1, <1>2 DEF Elems, SameRecords, RulesGone, Passed, Phases
<1>5. ~(resolver = "tunnel" /\ journal.resolver) BY <1>1, <1>2 DEF ResolverDone
<1>6. TunnelState = {} BY <1>3, <1>4, <1>5 DEF TunnelState
<1>7. SysctlsInstalled = {}
  BY <1>1, <1>2 DEF SysctlsInstalled, Elems, SameRecords, SysctlsDone, Settled, Passed
<1>8. QED BY <1>6, <1>7

\* Only DeleteNFTable touches the kill switch.
LEMMA OnlyDeleteNFTable ==
  ASSUME [Next]_vars, nft' # nft
  PROVE  \E p \in Procs : pc[p] = "nftables"
<1> USE DEF host, local, ghost
<1>1. ASSUME NEW p \in Procs, Recover(p) PROVE DeleteNFTable(p)
  BY <1>1 DEF Recover, DeleteRoute, RoutesDone, DeleteRule, DeletesRule, RulesDone,
    NoResolver, RestoreResolver, GetSysctl, SetSysctl, Gate, DeleteRouteTable,
    TablesDone, NFTablesDone, Enter, Return
<1>2. ASSUME NEW p \in Procs, NEW role, NEW instance PROVE ~Start(p, role, instance)
  BY DEF Start
<1>3. ASSUME NEW p \in Procs PROVE ~Kill(p) BY DEF Kill
<1>4. ~Environment
  BY DEF Environment, Operator, OperatorSetsSysctl, OperatorAddsRoute,
    OperatorRestoresResolver, OperatorDropsResolverRecord
<1>5. ~UNCHANGED vars BY DEF vars
<1>6. PICK p \in Procs : DeleteNFTable(p)
  BY <1>1, <1>2, <1>3, <1>4, <1>5 DEF Next
<1>7. QED BY <1>6 DEF DeleteNFTable, DeletesNFTable, At

\* The kill switch goes last: a kill-switch table is removed only when no owned
\* route, table, rule, resolver record or untouched sysctl is left, for any number
\* of overlapping cleanups, any journals without a clash of fwmarks and any pattern of
\* failing calls and kills.
THEOREM KillSwitchLastHolds ==
  ASSUME NoMarkClash
  PROVE  Spec => KillSwitchLast
<1>1. IInv /\ [Next]_vars => [nft' # nft => TunnelState = {} /\ SysctlsInstalled = {}]_vars
  BY OnlyDeleteNFTable, LastLoopIsClean
<1>2. QED BY <1>1, Invariance, PTL DEF Spec, KillSwitchLast

\* The state file may only lose its resolver record.
LEMMA FileKept ==
  ASSUME Typed, [Next]_vars
  PROVE  \/ journal' = journal
         \/ /\ journal # NoFile /\ journal' # NoFile
            /\ SameRecords(journal', journal) /\ ~journal'.resolver
<1> USE DEF host, local, ghost
<1>1. ASSUME NEW p \in Procs, Recover(p) PROVE journal' = journal
  BY <1>1 DEF Recover, DeleteRoute, RoutesDone, DeleteRule, DeletesRule, RulesDone,
    NoResolver, RestoreResolver, GetSysctl, SetSysctl, Gate, DeleteRouteTable,
    TablesDone, DeleteNFTable, NFTablesDone, Enter, Return
<1>2. ASSUME NEW p \in Procs, NEW role, NEW instance, Start(p, role, instance) \/ Kill(p)
      PROVE  journal' = journal
  BY <1>2 DEF Start, Kill
<1>3. CASE OperatorDropsResolverRecord
  <2>1. journal \in Journal BY <1>3 DEF Typed, TypeOK, OperatorDropsResolverRecord
  <2>2. /\ journal' \in Journal
        /\ SameRecords(journal', journal)
        /\ ~journal'.resolver
    BY <1>3, <2>1 DEF OperatorDropsResolverRecord, Journal, SameRecords
  <2>3. QED BY <2>1, <2>2, JournalsAssumption
<1>4. CASE Environment /\ ~OperatorDropsResolverRecord
  BY <1>4 DEF Environment, OperatorSetsSysctl, OperatorAddsRoute,
    OperatorRestoresResolver
<1>5. CASE UNCHANGED vars BY <1>5 DEF vars
<1>6. QED BY <1>1, <1>2, <1>3, <1>4, <1>5 DEF Next

\* What the daemon installed only ever shrinks.
LEMMA TunnelStateShrinks ==
  ASSUME IInv, [Next]_vars
  PROVE  TunnelState' \subseteq TunnelState
<1>1. Typed /\ Shrinks BY ShrinksNext DEF IInv
<1>2. CASE journal = NoFile
  <2>1. journal' = NoFile BY <1>1, <1>2, FileKept
  <2>2. QED BY <1>2, <2>1 DEF TunnelState
<1>3. CASE journal # NoFile
  <2>1. /\ journal' # NoFile
        /\ SameRecords(journal', journal)
        /\ journal'.resolver => journal.resolver
    BY <1>1, <1>3, FileKept DEF SameRecords
  <2>2. PICK jn \in Journals : SameRecords(journal, jn)
    BY <1>1, <1>3 DEF Typed, FileInv
  <2>3. \A r \in OperatorRoutes :
          r \notin Elems(journal.routes) /\ r.table \notin Elems(journal.tables)
    BY <2>2, RoutesAssumption DEF SameRecords
  <2>4. OwnedRoutes' \subseteq OwnedRoutes
    BY <1>1, <2>1, <2>3 DEF OwnedRoutes, Shrinks, SameRecords
  <2>5. resolver' \in {"tunnel", "prior"} /\ resolver \in {"tunnel", "prior"}
    BY <1>1, TypedNext DEF Typed, TypeOK
  <2>6. resolver' = "tunnel" => resolver = "tunnel" BY <1>1, <2>5 DEF Shrinks
  <2>7. rules' \subseteq rules BY <1>1 DEF Shrinks
  <2>8. rules' \cap Elems(journal'.rules) \subseteq rules \cap Elems(journal.rules)
    BY <2>1, <2>7 DEF SameRecords
  <2>9. QED BY <1>3, <2>1, <2>4, <2>6, <2>8 DEF TunnelState
<1>4. QED BY <1>2, <1>3

\* Recovery implements the abstract fail-closed teardown: its tunnel state maps to
\* `capture`, its nftables tables to `kill`, and every step of a cleanup, of the
\* operator or of a kill maps to Undo, Open or a stutter, with no clash of fwmarks.
THEOREM RecoveryIsFailClosed ==
  ASSUME NoMarkClash
  PROVE  Spec => FailClosedTeardown
<1>1. IInv /\ [Next]_vars => [FC!Next]_(FC!vars)
  <2> SUFFICES ASSUME IInv, [Next]_vars PROVE FC!Next
    BY DEF FC!vars
  <2>1. TunnelState' \subseteq TunnelState BY TunnelStateShrinks
  <2>2. nft' \subseteq nft BY ShrinksNext DEF IInv, Shrinks
  <2>3. CASE nft' = nft BY <2>1, <2>3 DEF FC!Next, FC!Undo
  <2>4. CASE nft' # nft
    <3>1. TunnelState = {} BY <2>4, OnlyDeleteNFTable, LastLoopIsClean
    <3>2. QED BY <2>1, <2>2, <3>1 DEF FC!Next, FC!Open
  <2>5. QED BY <2>3, <2>4
<1>2. QED BY <1>1, Invariance, PTL DEF Spec, FailClosedTeardown, FC!Spec
-------------------------------------------------------------------------------
\* Every running process holds the same list of sysctl records, each name once.
LEMMA SameSysctl ==
  ASSUME Typed, NEW p \in Procs, pc[p] # "idle", NEW a \in DOMAIN j[p].sysctls,
         NEW q \in Procs, pc[q] # "idle", NEW b \in DOMAIN j[q].sysctls,
         j[p].sysctls[a].name = j[q].sysctls[b].name
  PROVE  j[p].sysctls[a] = j[q].sysctls[b]
<1>1. j[p].sysctls = journal.sysctls /\ j[q].sysctls = journal.sysctls BY LoadedApart
<1>2. QED BY <1>1, LoadedApart

\* Only SetSysctl and the operator write a sysctl.
LEMMA OnlySetSysctl ==
  ASSUME [Next]_vars, sysctl' # sysctl
  PROVE  \/ \E p \in Procs : SetSysctl(p)
         \/ \E name \in Sysctls, v \in Values : OperatorSetsSysctl(name, v)
<1> USE DEF host, local, ghost
<1>1. ASSUME NEW p \in Procs, Recover(p) PROVE SetSysctl(p)
  BY <1>1 DEF Recover, DeleteRoute, RoutesDone, DeleteRule, DeletesRule, RulesDone,
    NoResolver, RestoreResolver, GetSysctl, Gate, DeleteRouteTable, TablesDone,
    DeleteNFTable, NFTablesDone, Enter, Return
<1>2. ASSUME NEW p \in Procs, NEW role, NEW instance
      PROVE  ~Start(p, role, instance) /\ ~Kill(p)
  BY DEF Start, Kill
<1>3. ~UNCHANGED vars BY DEF vars
<1>4. CASE Environment
  BY <1>4 DEF Environment, OperatorAddsRoute, OperatorRestoresResolver,
    OperatorDropsResolverRecord
<1>5. QED BY <1>1, <1>2, <1>3, <1>4 DEF Next

\* What a process may assume of a sysctl between its GetSysctl and its SetSysctl:
\* it is still at Installed, or another cleanup has already restored it, or the
\* operator has written it in between.
SetPending(p) ==
    pc[p] = "setsysctl" =>
      /\ idx[p] \in DOMAIN j[p].sysctls
      /\ \/ p \in raced
         \/ sysctl[j[p].sysctls[idx[p]].name] \in {j[p].sysctls[idx[p]].installed,
                                                   j[p].sysctls[idx[p]].prior}

\* It may assume so when it has just read the value.
LEMMA SetPendingOwn ==
  ASSUME Typed, NEW p \in Procs,
         Recover(p) \/ Kill(p) \/ \E role, instance : Start(p, role, instance)
  PROVE  SetPending(p)'
<1> USE DEF host, local, ghost
<1>1. TypeOK BY DEF Typed
<1>2. SUFFICES ASSUME pc'[p] = "setsysctl" PROVE SetPending(p)'
  BY DEF SetPending
<1>3. ASSUME NEW loop, Enter(p, loop) PROVE pc'[p] = loop BY <1>1, <1>3 DEF TypeOK, Enter
<1>4. ASSUME NEW code, NEW b, Return(p, code, b) PROVE FALSE
  BY <1>1, <1>2, <1>4 DEF TypeOK, Return, Ends
<1>5. ~Kill(p) BY <1>1, <1>2 DEF TypeOK, Kill, Ends
<1>6. ASSUME NEW role, NEW instance, Start(p, role, instance) PROVE FALSE
  BY <1>1, <1>2, <1>6 DEF TypeOK, Start
<1>7. ~(RoutesDone(p) \/ RulesDone(p) \/ NoResolver(p) \/ Gate(p) \/ TablesDone(p)
        \/ NFTablesDone(p))
  BY <1>2, <1>3, <1>4 DEF RoutesDone, RulesDone, NoResolver, Gate, TablesDone, NFTablesDone
<1>8. ~(DeleteRoute(p) \/ DeleteRule(p) \/ DeleteRouteTable(p) \/ DeleteNFTable(p))
  BY <1>2 DEF DeleteRoute, DeleteRule, DeleteRouteTable, DeleteNFTable, At
<1>9. ~(RestoreResolver(p) \/ SetSysctl(p))
  BY <1>1, <1>2 DEF TypeOK, RestoreResolver, SetSysctl
<1>10. GetSysctl(p) BY <1>5, <1>6, <1>7, <1>8, <1>9 DEF Recover
<1> DEFINE s == j[p].sysctls[idx[p]]
<1>11. /\ idx[p] \in DOMAIN j[p].sysctls /\ pc[p] = "sysctls"
       /\ j' = j /\ sysctl' = sysctl
  BY <1>10 DEF GetSysctl, At
<1>12. pc' # pc BY <1>2, <1>11
<1>13. idx' = idx /\ ~Conflict(s, sysctl[s.name]) BY <1>10, <1>12 DEF GetSysctl
<1>14. QED BY <1>11, <1>13 DEF SetPending, Conflict

\* No step of another process, nor of the operator, takes the assumption away.
LEMMA SetPendingNext ==
  ASSUME Typed, [Next]_vars, \A p \in Procs : SetPending(p)
  PROVE  \A p \in Procs : SetPending(p)'
<1> SUFFICES ASSUME NEW q \in Procs PROVE SetPending(q)' OBVIOUS
<1> USE DEF host, local, ghost
<1>1. TypeOK /\ SetPending(q) BY DEF Typed
<1> DEFINE s == j[q].sysctls[idx[q]]
<1>2. ASSUME pc'[q] = pc[q], idx'[q] = idx[q], j'[q] = j[q], q \in raced => q \in raced',
             pc[q] = "setsysctl" /\ q \notin raced' =>
               \/ sysctl'[s.name] = sysctl[s.name]
               \/ sysctl'[s.name] = s.prior
      PROVE  SetPending(q)'
  BY <1>1, <1>2 DEF SetPending
<1>3. ASSUME NEW p \in Procs, p # q,
             Recover(p) \/ Kill(p) \/ \E role, instance : Start(p, role, instance)
      PROVE  SetPending(q)'
  <2>1. /\ pc'[q] = pc[q] /\ idx'[q] = idx[q] /\ j'[q] = j[q]
        /\ q \in raced' <=> q \in raced
    BY <1>1, <1>3, OthersStay
  <2>2. ASSUME pc[q] = "setsysctl", sysctl' # sysctl
        PROVE  sysctl'[s.name] \in {sysctl[s.name], s.prior}
    <3>1. UNCHANGED ops
      BY <1>3 DEF Recover, DeleteRoute, RoutesDone, DeleteRule, RulesDone, NoResolver,
        RestoreResolver, GetSysctl, SetSysctl, Gate, DeleteRouteTable, TablesDone,
        DeleteNFTable, NFTablesDone, Enter, Return, Kill, Start
    <3>2. PICK x \in Procs : SetSysctl(x)
      <4>1. ASSUME NEW name, NEW v PROVE ~OperatorSetsSysctl(name, v)
        BY <1>1, <3>1 DEF OperatorSetsSysctl, Operator, TypeOK
      <4>2. QED BY <2>2, <4>1, OnlySetSysctl
    <3> DEFINE w == j[x].sysctls[idx[x]]
    <3>3. /\ pc[x] = "setsysctl" /\ idx[x] \in DOMAIN j[x].sysctls
          /\ sysctl' = [sysctl EXCEPT ![w.name] = w.prior]
      BY <2>2, <3>2 DEF SetSysctl, WritesSysctl, At
    <3>4. idx[q] \in DOMAIN j[q].sysctls BY <1>1, <2>2 DEF SetPending
    <3>5. s.name \in Sysctls /\ w.name \in Sysctls BY <2>2, <3>3, <3>4, LoadedSysctl
    <3>6. w.name = s.name => w = s BY <2>2, <3>3, <3>4, SameSysctl
    <3>7. QED BY <1>1, <3>3, <3>5, <3>6 DEF TypeOK
  <2>3. QED BY <1>2, <2>1, <2>2
<1>4. ASSUME NEW name \in Sysctls, NEW v \in Values, OperatorSetsSysctl(name, v)
      PROVE  SetPending(q)'
  <2>1. /\ UNCHANGED <<pc, idx, j>> /\ raced \subseteq raced'
        /\ sysctl' = [sysctl EXCEPT ![name] = v]
    BY <1>4 DEF OperatorSetsSysctl, Operator
  <2>2. ASSUME pc[q] = "setsysctl", s.name = name PROVE q \in raced'
    BY <1>1, <1>4, <2>2 DEF OperatorSetsSysctl, SetPending, At
  <2>3. s.name # name => sysctl'[s.name] = sysctl[s.name]
    BY <1>1, <2>1 DEF TypeOK
  <2>4. QED BY <1>2, <2>1, <2>2, <2>3
<1>5. CASE Environment
  <2>1. CASE (\E r \in OperatorRoutes : OperatorAddsRoute(r)) \/ OperatorRestoresResolver
               \/ OperatorDropsResolverRecord
    BY <1>2, <2>1 DEF OperatorAddsRoute, OperatorRestoresResolver,
      OperatorDropsResolverRecord, Operator
  <2>2. QED BY <1>4, <1>5, <2>1 DEF Environment
<1>6. CASE UNCHANGED vars BY <1>2, <1>6 DEF vars
<1>7. QED BY <1>3, <1>5, <1>6, SetPendingOwn DEF Next

\* Recovery writes a sysctl only back to Prior, and only over Installed, unless the
\* operator wrote it between GetSysctl and SetSysctl: for any number of cleanups
\* that overlap on the same records.
THEOREM RecoveryKeepsSysctls == Spec => OperatorSysctlsKept
<1> DEFINE Inv == Typed /\ \A p \in Procs : SetPending(p)
<1>1. Init => Inv BY TypedInit DEF Init, SetPending
<1>2. Inv /\ [Next]_vars => Inv' BY TypedNext, SetPendingNext
<1>3. Inv /\ [Next]_vars =>
        [ops' = ops => \A name \in Sysctls : sysctl'[name] # sysctl[name] =>
           \E p \in {q \in Procs : pc[q] = "setsysctl"} : \E s \in Elems(j[p].sysctls) :
              /\ s.name = name
              /\ sysctl'[name] = s.prior
              /\ sysctl[name] = s.installed \/ p \in raced]_vars
  <2> SUFFICES ASSUME Inv, [Next]_vars, ops' = ops,
                      NEW name \in Sysctls, sysctl'[name] # sysctl[name]
               PROVE  \E p \in {q \in Procs : pc[q] = "setsysctl"} :
                        \E s \in Elems(j[p].sysctls) :
                        /\ s.name = name
                        /\ sysctl'[name] = s.prior
                        /\ sysctl[name] = s.installed \/ p \in raced
    OBVIOUS
  <2>1. Typed /\ TypeOK BY DEF Typed
  <2>2. PICK p \in Procs : SetSysctl(p)
    <3>1. ASSUME NEW n, NEW v PROVE ~OperatorSetsSysctl(n, v)
      BY <2>1 DEF OperatorSetsSysctl, Operator, TypeOK
    <3>2. QED BY <3>1, OnlySetSysctl
  <2> DEFINE s == j[p].sysctls[idx[p]]
  <2>3. /\ pc[p] = "setsysctl" /\ idx[p] \in DOMAIN j[p].sysctls
        /\ sysctl' = [sysctl EXCEPT ![s.name] = s.prior]
    BY <2>2 DEF SetSysctl, WritesSysctl, At
  <2>4. s.name = name /\ sysctl'[name] = s.prior BY <2>1, <2>3 DEF TypeOK
  <2>5. sysctl[name] = s.installed \/ p \in raced BY <2>3, <2>4 DEF SetPending
  <2>6. s \in Elems(j[p].sysctls) BY <2>3 DEF Elems
  <2>7. QED BY <2>3, <2>4, <2>5, <2>6
<1>4. QED BY <1>1, <1>2, <1>3, PTL DEF Spec, OperatorSysctlsKept
-------------------------------------------------------------------------------
\* A route recorded without a metric is deleted without one, and then the command
\* selects every metric. The operator must have no route that differs from such a
\* record by its metric alone: for a journal that has one, recovery does delete it.
NoMetricClash ==
    \A jn \in Journals : \A r \in Elems(jn.routes) : \A o \in OperatorRoutes :
      ~(r.metric = 0 /\ o.dst = r.dst /\ o.table = r.table)

\* Then what `ip route del` selects for a record is not the operator's.
LEMMA SelectsOwned ==
  ASSUME Typed, NoMetricClash, NEW p \in Procs, pc[p] # "idle",
         NEW i \in DOMAIN j[p].routes, NEW o \in OperatorRoutes
  PROVE  ~Selects(j[p].routes[i], o)
<1>1. journal # NoFile /\ SameRecords(j[p], journal) /\ j[p] \in Journal
  BY DEF Typed, LoadedInv
<1>2. PICK jn \in Journals : SameRecords(journal, jn) BY <1>1 DEF Typed, FileInv
<1> DEFINE r == j[p].routes[i]
<1>3. r \in Elems(jn.routes) BY <1>1, <1>2 DEF SameRecords, Elems
<1>4. r \in RouteRecord /\ o \in RouteRecord BY <1>1, RoutesAssumption DEF Journal
<1>5. r # o BY <1>3, RoutesAssumption
<1>6. ~(r.dst = o.dst /\ r.table = o.table /\ r.metric = o.metric)
  BY <1>4, <1>5 DEF RouteRecord
<1>7. ~(r.metric = 0 /\ o.dst = r.dst /\ o.table = r.table) BY <1>3 DEF NoMetricClash
<1>8. QED BY <1>6, <1>7 DEF Selects

\* Only DeleteRoute, DeleteRouteTable and DeleteRule remove a route or a rule.
LEMMA OnlyRoutingDeletes ==
  ASSUME [Next]_vars, ~(routes \subseteq routes') \/ ~(rules \subseteq rules')
  PROVE  \E p \in Procs : DeleteRoute(p) \/ DeleteRouteTable(p) \/ DeleteRule(p)
<1> USE DEF host, local, ghost
<1>1. ASSUME NEW p \in Procs, Recover(p)
      PROVE  DeleteRoute(p) \/ DeleteRouteTable(p) \/ DeleteRule(p)
  BY <1>1 DEF Recover, RoutesDone, RulesDone, NoResolver, RestoreResolver,
    GetSysctl, SetSysctl, Gate, TablesDone, DeleteNFTable, NFTablesDone, Enter, Return
<1>2. ASSUME NEW p \in Procs, NEW role, NEW instance
      PROVE  ~Start(p, role, instance) /\ ~Kill(p)
  BY DEF Start, Kill
<1>3. ~UNCHANGED vars BY DEF vars
<1>4. ~Environment
  BY DEF Environment, Operator, OperatorSetsSysctl, OperatorAddsRoute,
    OperatorRestoresResolver, OperatorDropsResolverRecord
<1>5. QED BY <1>1, <1>2, <1>3, <1>4 DEF Next

\* No cleanup removes a route or rule of the operator's, provided none was recorded
\* without a metric or fwmark where the operator has one that differs by it alone:
\* neither the deletion of a record nor the flush of an owned table.
THEOREM RecoveryKeepsRouting ==
  ASSUME NoMetricClash, NoMarkClash
  PROVE  Spec => OperatorRoutingKept
<1>1. ASSUME Typed, [Next]_vars, NEW o \in OperatorRoutes, o \in routes
      PROVE  o \in routes'
  <2> SUFFICES ASSUME o \notin routes' PROVE FALSE OBVIOUS
  <2>1. PICK p \in Procs : DeleteRoute(p) \/ DeleteRouteTable(p)
    <3>1. PICK p \in Procs : DeleteRoute(p) \/ DeleteRouteTable(p) \/ DeleteRule(p)
      BY <1>1, OnlyRoutingDeletes
    <3>2. ~DeleteRule(p) BY <1>1 DEF DeleteRule
    <3>3. QED BY <3>1, <3>2
  <2>2. CASE DeleteRoute(p)
    <3>1. pc[p] # "idle" /\ idx[p] \in DOMAIN j[p].routes BY <2>2 DEF DeleteRoute, At
    <3>2. Selects(j[p].routes[idx[p]], o) BY <1>1, <2>2 DEF DeleteRoute, DeletesRoute
    <3>3. QED BY <1>1, <3>1, <3>2, SelectsOwned, NoMetricClash
  <2>3. CASE DeleteRouteTable(p)
    <3>1. pc[p] # "idle" /\ idx[p] \in DOMAIN j[p].tables BY <2>3 DEF DeleteRouteTable, At
    <3>2. o.table = j[p].tables[idx[p]] BY <1>1, <2>3 DEF DeleteRouteTable, InTable
    <3>3. QED BY <1>1, <3>1, <3>2, LoadedApart
  <2>4. QED BY <2>1, <2>2, <2>3
<1>2. ASSUME Typed, [Next]_vars, NEW o \in OperatorRules, o \in rules
      PROVE  o \in rules'
  <2> SUFFICES ASSUME o \notin rules' PROVE FALSE OBVIOUS
  <2>1. PICK p \in Procs : DeleteRule(p)
    <3>1. PICK p \in Procs : DeleteRoute(p) \/ DeleteRouteTable(p) \/ DeleteRule(p)
      BY <1>2, OnlyRoutingDeletes
    <3>2. ~DeleteRoute(p) /\ ~DeleteRouteTable(p) BY <1>2 DEF DeleteRoute, DeleteRouteTable
    <3>3. QED BY <3>1, <3>2
  <2>2. pc[p] # "idle" /\ idx[p] \in DOMAIN j[p].rules BY <2>1 DEF DeleteRule, At
  <2>3. DeletesRule(j[p].rules[idx[p]]) BY <1>2, <2>1 DEF DeleteRule
  <2>4. QED BY <1>2, <2>2, <2>3, DeletesRuleExactly, NoMarkClash
<1>3. Typed /\ [Next]_vars =>
        [ops' = ops => /\ routes \cap OperatorRoutes \subseteq routes'
                       /\ rules \cap OperatorRules \subseteq rules']_vars
  BY <1>1, <1>2
<1>4. QED BY <1>3, TypedInit, TypedNext, PTL DEF Spec, OperatorRoutingKept

-------------------------------------------------------------------------------
(***************************************************************************)
(* The books of a process: where it is in its loops and, while it has met  *)
(* no error, what its report has counted and which kill-switch tables are  *)
(* gone.                                                                   *)
(***************************************************************************)
\* n counts the records of a list: none before its loop, all of them after it.
Counted(p, n, list, before, loop) ==
    n = IF pc[p] \in before THEN 0 ELSE IF pc[p] = loop THEN idx[p] - 1 ELSE Len(list)

InLoop(p, loop, list) == pc[p] = loop => idx[p] <= Len(list) + 1

KillSwitchGone(p) ==
    \A i \in DOMAIN j[p].nftables :
        Passed(p, i, {"nftables"}, {}) => j[p].nftables[i] \notin nft

ReportExact(p) ==
    /\ Counted(p, rep[p].routes, j[p].routes, {}, "routes")
    /\ Counted(p, rep[p].rules, j[p].rules, {"routes"}, "rules")
    /\ Counted(p, rep[p].tables, j[p].tables, Phases \ {"tables", "nftables"}, "tables")
    /\ Counted(p, rep[p].nft, j[p].nftables, Phases \ {"nftables"}, "nftables")
    /\ rep[p].resolver = (j[p].resolver /\ pc[p] \notin {"routes", "rules", "resolver"})

Accounted(p) ==
    pc[p] # "idle" =>
      /\ InLoop(p, "routes", j[p].routes)
      /\ InLoop(p, "rules", j[p].rules)
      /\ InLoop(p, "tables", j[p].tables)
      /\ InLoop(p, "nftables", j[p].nftables)
      /\ errs[p] = 0 => ReportExact(p) /\ KillSwitchGone(p)

\* The positions of a record's list.
LEMMA ListFacts ==
  ASSUME NEW jn \in Journal
  PROVE  /\ DOMAIN jn.routes = 1 .. Len(jn.routes) /\ Len(jn.routes) \in Nat
         /\ DOMAIN jn.rules = 1 .. Len(jn.rules) /\ Len(jn.rules) \in Nat
         /\ DOMAIN jn.tables = 1 .. Len(jn.tables) /\ Len(jn.tables) \in Nat
         /\ DOMAIN jn.nftables = 1 .. Len(jn.nftables) /\ Len(jn.nftables) \in Nat
         /\ jn.resolver \in BOOLEAN
<1>1. jn.routes \in Seq(RouteRecord) BY DEF Journal
<1>2. jn.rules \in Seq(RuleRecord) BY DEF Journal
<1>3. jn.tables \in Seq(Nat) BY DEF Journal
<1>4. jn.nftables \in Seq(STRING) BY DEF Journal
<1>5. jn.resolver \in BOOLEAN BY DEF Journal
<1>6. QED BY <1>1, <1>2, <1>3, <1>4, <1>5

\* The books stay right while other processes move.
LEMMA AccountedKept ==
  ASSUME nft' \subseteq nft, NEW q \in Procs, Accounted(q),
         pc'[q] = pc[q], idx'[q] = idx[q], errs'[q] = errs[q], j'[q] = j[q],
         rep'[q] = rep[q]
  PROVE  Accounted(q)'
BY DEF Accounted, InLoop, ReportExact, Counted, KillSwitchGone, Passed

\* A record of a list was dealt with: its counter and the loop index move together.
LEMMA AccountedCall ==
  ASSUME Typed, NEW p \in Procs, Accounted(p),
         \/ DeleteRoute(p) \/ DeleteRule(p) \/ DeleteRouteTable(p) \/ DeleteNFTable(p)
  PROVE  Accounted(p)'
<1> USE DEF host, ghost, At
<1>0. /\ TypeOK /\ pc[p] # "idle" /\ j[p] \in Journal /\ idx[p] \in Nat \ {0}
      /\ errs[p] \in Nat /\ rep[p] \in Report
  BY DEF Typed, TypeOK, LoadedInv, DeleteRoute, DeleteRule, DeleteRouteTable, DeleteNFTable
<1>1. /\ DOMAIN j[p].routes = 1 .. Len(j[p].routes)
      /\ DOMAIN j[p].rules = 1 .. Len(j[p].rules)
      /\ DOMAIN j[p].tables = 1 .. Len(j[p].tables)
      /\ DOMAIN j[p].nftables = 1 .. Len(j[p].nftables)
      /\ Len(j[p].routes) \in Nat /\ Len(j[p].rules) \in Nat
      /\ Len(j[p].tables) \in Nat /\ Len(j[p].nftables) \in Nat
  BY <1>0, ListFacts
<1>2. /\ pc' = pc /\ j' = j /\ idx'[p] = idx[p] + 1
      /\ errs' = errs \/ errs'[p] = errs[p] + 1
      /\ errs'[p] # 0 \/ errs' = errs
  BY <1>0 DEF DeleteRoute, DeleteRule, DeleteRouteTable, DeleteNFTable, Step, Failed, TypeOK
<1>3. /\ InLoop(p, "routes", j[p].routes)'
      /\ InLoop(p, "rules", j[p].rules)'
      /\ InLoop(p, "tables", j[p].tables)'
      /\ InLoop(p, "nftables", j[p].nftables)'
  <2>1. InLoop(p, "routes", j[p].routes)'
    BY <1>0, <1>1, <1>2 DEF InLoop, DeleteRoute, DeleteRule, DeleteRouteTable, DeleteNFTable
  <2>2. InLoop(p, "rules", j[p].rules)'
    BY <1>0, <1>1, <1>2 DEF InLoop, DeleteRoute, DeleteRule, DeleteRouteTable, DeleteNFTable
  <2>3. InLoop(p, "tables", j[p].tables)'
    BY <1>0, <1>1, <1>2 DEF InLoop, DeleteRoute, DeleteRule, DeleteRouteTable, DeleteNFTable
  <2>4. InLoop(p, "nftables", j[p].nftables)'
    BY <1>0, <1>1, <1>2 DEF InLoop, DeleteRoute, DeleteRule, DeleteRouteTable, DeleteNFTable
  <2>5. QED BY <2>1, <2>2, <2>3, <2>4
<1>4. ASSUME errs'[p] = 0 PROVE ReportExact(p)' /\ KillSwitchGone(p)'
  <2>1. errs[p] = 0 /\ ~Failed(p)
    BY <1>0, <1>2, <1>4 DEF Failed, TypeOK
  <2>2. ReportExact(p) /\ KillSwitchGone(p) BY <1>0, <2>1 DEF Accounted
  <2>3. rep \in [Procs -> Report] BY <1>0 DEF TypeOK
  <2>4. CASE DeleteRoute(p)
    <3>1. /\ pc[p] = "routes" /\ nft' = nft
          /\ rep' = [rep EXCEPT ![p].routes = @ + 1]
      BY <2>1, <2>4 DEF DeleteRoute
    <3>2. rep'[p] = [rep[p] EXCEPT !.routes = @ + 1] BY <2>3, <3>1
    <3>3. ReportExact(p)'
      BY <1>0, <1>2, <2>2, <3>1, <3>2 DEF ReportExact, Counted, Report, Phases
    <3>4. KillSwitchGone(p)' BY <1>2, <3>1 DEF KillSwitchGone, Passed
    <3>5. QED BY <3>3, <3>4
  <2>5. CASE DeleteRule(p)
    <3>1. /\ pc[p] = "rules" /\ nft' = nft
          /\ rep' = [rep EXCEPT ![p].rules = @ + 1]
      BY <2>1, <2>5 DEF DeleteRule
    <3>2. rep'[p] = [rep[p] EXCEPT !.rules = @ + 1] BY <2>3, <3>1
    <3>3. ReportExact(p)'
      BY <1>0, <1>2, <2>2, <3>1, <3>2 DEF ReportExact, Counted, Report, Phases
    <3>4. KillSwitchGone(p)' BY <1>2, <3>1 DEF KillSwitchGone, Passed
    <3>5. QED BY <3>3, <3>4
  <2>6. CASE DeleteRouteTable(p)
    <3>1. /\ pc[p] = "tables" /\ nft' = nft
          /\ rep' = [rep EXCEPT ![p].tables = @ + 1]
      BY <2>1, <2>6 DEF DeleteRouteTable
    <3>2. rep'[p] = [rep[p] EXCEPT !.tables = @ + 1] BY <2>3, <3>1
    <3>3. ReportExact(p)'
      BY <1>0, <1>2, <2>2, <3>1, <3>2 DEF ReportExact, Counted, Report, Phases
    <3>4. KillSwitchGone(p)' BY <1>2, <3>1 DEF KillSwitchGone, Passed
    <3>5. QED BY <3>3, <3>4
  <2>7. CASE DeleteNFTable(p)
    <3>1. /\ pc[p] = "nftables" /\ nft' = nft \ {j[p].nftables[idx[p]]}
          /\ rep' = [rep EXCEPT ![p].nft = @ + 1]
      BY <2>1, <2>7 DEF DeleteNFTable, DeletesNFTable
    <3>2. rep'[p] = [rep[p] EXCEPT !.nft = @ + 1] BY <2>3, <3>1
    <3>3. ReportExact(p)'
      BY <1>0, <1>2, <2>2, <3>1, <3>2 DEF ReportExact, Counted, Report, Phases
    <3>4. KillSwitchGone(p)'
      <4>1. \A i \in DOMAIN j[p].nftables : i \in Nat BY <1>1
      <4>2. ASSUME NEW i \in DOMAIN j[p].nftables, i < idx[p] + 1
            PROVE  j[p].nftables[i] \notin nft'
        <5>1. CASE i < idx[p] BY <2>2, <3>1, <5>1 DEF KillSwitchGone, Passed
        <5>2. CASE i = idx[p] BY <3>1, <5>2
        <5>3. QED BY <1>0, <4>1, <4>2, <5>1, <5>2
      <4>3. QED BY <1>2, <3>1, <4>2 DEF KillSwitchGone, Passed
    <3>5. QED BY <3>3, <3>4
  <2>8. QED BY <2>4, <2>5, <2>6, <2>7
<1>5. QED BY <1>3, <1>4 DEF Accounted

\* A process that goes on to its next loop has counted all of the last one.
LEMMA AccountedEnter ==
  ASSUME Typed, NEW p \in Procs, Accounted(p), NEW loop, Enter(p, loop),
         \/ LoopEnds(p, "routes", j[p].routes) /\ loop = "rules"
         \/ LoopEnds(p, "rules", j[p].rules) /\ loop = "resolver"
         \/ pc[p] = "resolver" /\ ~j[p].resolver /\ loop = "sysctls"
         \/ LoopEnds(p, "sysctls", j[p].sysctls) /\ loop = "tables"
         \/ LoopEnds(p, "tables", j[p].tables) /\ loop = "nftables"
  PROVE  Accounted(p)'
<1> USE DEF host, ghost, LoopEnds
<1>0. /\ TypeOK /\ pc[p] # "idle" /\ j[p] \in Journal /\ idx[p] \in Nat \ {0}
      /\ rep[p] \in Report
      /\ pc'[p] = loop /\ idx'[p] = 1 /\ UNCHANGED <<j, errs, rep, nft>>
  BY DEF Typed, TypeOK, LoadedInv, Enter
<1>1. /\ \A i \in DOMAIN j[p].nftables : i \in Nat \ {0}
      /\ Len(j[p].routes) \in Nat /\ Len(j[p].rules) \in Nat
      /\ Len(j[p].tables) \in Nat /\ Len(j[p].nftables) \in Nat
      /\ j[p].resolver \in BOOLEAN
  BY <1>0, ListFacts
<1>2. /\ InLoop(p, "routes", j[p].routes)'
      /\ InLoop(p, "rules", j[p].rules)'
      /\ InLoop(p, "tables", j[p].tables)'
      /\ InLoop(p, "nftables", j[p].nftables)'
  BY <1>0, <1>1 DEF InLoop
<1>3. ASSUME errs[p] = 0 PROVE ReportExact(p)' /\ KillSwitchGone(p)'
  <2>1. ReportExact(p) BY <1>0, <1>3 DEF Accounted
  <2>2. /\ InLoop(p, "routes", j[p].routes)
        /\ InLoop(p, "rules", j[p].rules)
        /\ InLoop(p, "tables", j[p].tables)
    BY <1>0 DEF Accounted
  <2>3. ReportExact(p)'
    <3>0. /\ \/ pc[p] = "routes" /\ idx[p] > Len(j[p].routes) /\ loop = "rules"
             \/ pc[p] = "rules" /\ idx[p] > Len(j[p].rules) /\ loop = "resolver"
             \/ /\ pc[p] \notin {"routes", "rules"}
                /\ loop \notin {"routes", "rules"}
          /\ rep'[p] = rep[p] /\ j'[p] = j[p]
          /\ idx[p] \in Nat /\ Len(j[p].routes) \in Nat /\ Len(j[p].rules) \in Nat
      BY <1>0, <1>1
    <3>1. Counted(p, rep[p].routes, j[p].routes, {}, "routes")'
      <4>1. rep[p].routes = IF pc[p] = "routes" THEN idx[p] - 1 ELSE Len(j[p].routes)
        BY <2>1 DEF ReportExact, Counted
      <4>2. ASSUME pc[p] = "routes" PROVE idx[p] - 1 = Len(j[p].routes)
        <5>1. idx[p] > Len(j[p].routes) /\ idx[p] <= Len(j[p].routes) + 1
          BY <2>2, <3>0, <4>2 DEF InLoop
        <5>2. QED BY <3>0, <5>1
      <4>3. rep[p].routes = Len(j[p].routes) /\ loop # "routes" BY <3>0, <4>1, <4>2
      <4>4. QED BY <1>0, <3>0, <4>3 DEF Counted
    <3>2. Counted(p, rep[p].rules, j[p].rules, {"routes"}, "rules")'
      <4>1. rep[p].rules = IF pc[p] \in {"routes"} THEN 0
                           ELSE IF pc[p] = "rules" THEN idx[p] - 1 ELSE Len(j[p].rules)
        BY <2>1 DEF ReportExact, Counted
      <4>2. ASSUME pc[p] = "rules" PROVE idx[p] - 1 = Len(j[p].rules)
        <5>1. idx[p] > Len(j[p].rules) /\ idx[p] <= Len(j[p].rules) + 1
          BY <2>2, <3>0, <4>2 DEF InLoop
        <5>2. QED BY <3>0, <5>1
      <4>3. rep[p].rules = (IF loop = "rules" THEN 0 ELSE Len(j[p].rules)) /\ loop # "routes"
        BY <3>0, <4>1, <4>2
      <4>4. QED BY <1>0, <3>0, <4>3 DEF Counted
    <3>3. Counted(p, rep[p].tables, j[p].tables, Phases \ {"tables", "nftables"}, "tables")'
      BY <1>0, <1>1, <2>1, <2>2 DEF ReportExact, Counted, InLoop, Phases
    <3>4. Counted(p, rep[p].nft, j[p].nftables, Phases \ {"nftables"}, "nftables")'
      BY <1>0, <1>1, <2>1, <2>2 DEF ReportExact, Counted, InLoop, Phases
    <3>5. (rep[p].resolver = (j[p].resolver /\ pc[p] \notin {"routes", "rules", "resolver"}))'
      BY <1>0, <1>1, <2>1 DEF ReportExact
    <3>6. QED BY <3>1, <3>2, <3>3, <3>4, <3>5 DEF ReportExact
  <2>4. KillSwitchGone(p)' BY <1>0, <1>1 DEF KillSwitchGone, Passed
  <2>5. QED BY <2>3, <2>4
<1>4. QED BY <1>0, <1>2, <1>3 DEF Accounted

\* The resolver and the sysctls: the report says whether the resolver was restored.
LEMMA AccountedHost ==
  ASSUME Typed, NEW p \in Procs, Accounted(p),
         RestoreResolver(p) \/ GetSysctl(p) \/ SetSysctl(p)
  PROVE  Accounted(p)'
<1> USE DEF host, ghost, At
<1>0. /\ TypeOK /\ j[p] \in Journal /\ errs[p] \in Nat /\ rep[p] \in Report
      /\ pc[p] \in {"resolver", "sysctls", "setsysctl"}
      /\ pc'[p] \in {"sysctls", "setsysctl"}
      /\ j' = j /\ nft' = nft
  BY DEF Typed, TypeOK, LoadedInv, RestoreResolver, GetSysctl, SetSysctl
<1>1. /\ InLoop(p, "routes", j[p].routes)'
      /\ InLoop(p, "rules", j[p].rules)'
      /\ InLoop(p, "tables", j[p].tables)'
      /\ InLoop(p, "nftables", j[p].nftables)'
  BY <1>0 DEF InLoop
<1>2. ASSUME errs'[p] = 0 PROVE ReportExact(p)'
  <2>1. ~Failed(p) /\ errs' # [errs EXCEPT ![p] = @ + 1]
    BY <1>0, <1>2 DEF Failed, TypeOK
  <2>2. errs' = errs
    BY <2>1 DEF RestoreResolver, GetSysctl, SetSysctl
  <2>3. ReportExact(p) BY <1>0, <1>2, <2>2 DEF Accounted
  <2>4. /\ rep'[p].routes = rep[p].routes /\ rep'[p].rules = rep[p].rules
        /\ rep'[p].tables = rep[p].tables /\ rep'[p].nft = rep[p].nft
    <3>1. rep \in [Procs -> Report] BY <1>0 DEF TypeOK
    <3>2. CASE RestoreResolver(p)
      <4>1. rep' = [rep EXCEPT ![p].resolver = TRUE]
        BY <2>1, <3>2 DEF RestoreResolver, ErrResolverUnsupported
      <4>2. QED BY <3>1, <4>1 DEF Report
    <3>3. CASE GetSysctl(p)
      <4>1. \/ rep' = rep
            \/ \E x : rep' = [rep EXCEPT ![p].conflicts = @ \cup {x}]
        BY <2>1, <3>3 DEF GetSysctl
      <4>2. QED BY <3>1, <4>1 DEF Report
    <3>4. CASE SetSysctl(p)
      <4>1. \/ rep' = rep
            \/ \E x : rep' = [rep EXCEPT ![p].restored = @ \cup {x}]
        BY <2>1, <3>4 DEF SetSysctl
      <4>2. QED BY <3>1, <4>1 DEF Report
    <3>5. QED BY <3>2, <3>3, <3>4
  <2>5. /\ Counted(p, rep[p].routes, j[p].routes, {}, "routes")'
        /\ Counted(p, rep[p].rules, j[p].rules, {"routes"}, "rules")'
        /\ Counted(p, rep[p].tables, j[p].tables, Phases \ {"tables", "nftables"}, "tables")'
        /\ Counted(p, rep[p].nft, j[p].nftables, Phases \ {"nftables"}, "nftables")'
    BY <1>0, <2>3, <2>4 DEF ReportExact, Counted, Phases
  <2>6. (rep[p].resolver = (j[p].resolver /\ pc[p] \notin {"routes", "rules", "resolver"}))'
    <3>1. CASE RestoreResolver(p)
      <4>1. j[p].resolver /\ rep' = [rep EXCEPT ![p].resolver = TRUE]
        BY <2>1, <3>1 DEF RestoreResolver, ErrResolverUnsupported
      <4>2. rep \in [Procs -> Report] BY <1>0 DEF TypeOK
      <4>3. rep'[p].resolver = TRUE BY <4>1, <4>2 DEF Report
      <4>4. QED BY <1>0, <4>1, <4>3
    <3>2. CASE GetSysctl(p) \/ SetSysctl(p)
      <4>1. rep'[p].resolver = rep[p].resolver
        <5>1. \/ rep' = rep
              \/ \E x : rep' = [rep EXCEPT ![p].conflicts = @ \cup x]
              \/ \E x : rep' = [rep EXCEPT ![p].restored = @ \cup x]
          BY <2>1, <3>2 DEF GetSysctl, SetSysctl
        <5>2. rep \in [Procs -> Report] BY <1>0 DEF TypeOK
        <5>3. QED BY <5>1, <5>2 DEF Report
      <4>2. pc[p] \in {"sysctls", "setsysctl"} BY <3>2 DEF GetSysctl, SetSysctl
      <4>3. QED BY <1>0, <2>3, <4>1, <4>2 DEF ReportExact
    <3>3. QED BY <3>1, <3>2
  <2>7. QED BY <2>5, <2>6 DEF ReportExact
<1>3. KillSwitchGone(p)' BY <1>0 DEF KillSwitchGone, Passed
<1>4. QED BY <1>1, <1>2, <1>3 DEF Accounted

\* Every step keeps the books of every process.
LEMMA AccountedNext ==
  ASSUME Typed, [Next]_vars, \A p \in Procs : Accounted(p)
  PROVE  \A p \in Procs : Accounted(p)'
<1> SUFFICES ASSUME NEW q \in Procs PROVE Accounted(q)' OBVIOUS
<1> USE DEF host, local, ghost
<1>1. TypeOK /\ Accounted(q) /\ nft' \subseteq nft BY ShrinksNext DEF Typed, Shrinks
<1>2. ASSUME NEW p \in Procs, p # q,
             Recover(p) \/ Kill(p) \/ \E role, instance : Start(p, role, instance)
      PROVE  Accounted(q)'
  BY <1>1, <1>2, OthersStay, AccountedKept
<1>3. ASSUME Kill(q) \/ \E code, b : Return(q, code, b) PROVE Accounted(q)'
  BY <1>1, <1>3 DEF Kill, Return, Ends, Accounted, TypeOK
<1>4. ASSUME NEW role, NEW instance, Start(q, role, instance) PROVE Accounted(q)'
  <2>1. CASE Admission(role, instance) = "running"
    <3>1. /\ pc'[q] = "routes" /\ idx'[q] = 1 /\ j'[q] = journal /\ rep'[q] = EmptyReport
          /\ journal \in Journal
      BY <1>1, <1>4, <2>1 DEF Start, TypeOK, Admission
    <3>2. /\ InLoop(q, "routes", j[q].routes)'
          /\ InLoop(q, "rules", j[q].rules)'
          /\ InLoop(q, "tables", j[q].tables)'
          /\ InLoop(q, "nftables", j[q].nftables)'
      BY <3>1, ListFacts DEF InLoop
    <3>3. ReportExact(q)'
      <4>1. rep'[q].resolver = FALSE BY <3>1 DEF EmptyReport
      <4>2. (rep[q].resolver = (j[q].resolver /\ pc[q] \notin {"routes", "rules", "resolver"}))'
        BY <3>1, <4>1
      <4>3. /\ Counted(q, rep[q].routes, j[q].routes, {}, "routes")'
            /\ Counted(q, rep[q].rules, j[q].rules, {"routes"}, "rules")'
            /\ Counted(q, rep[q].tables, j[q].tables, Phases \ {"tables", "nftables"}, "tables")'
            /\ Counted(q, rep[q].nft, j[q].nftables, Phases \ {"nftables"}, "nftables")'
        BY <3>1 DEF Counted, EmptyReport, Phases
      <4>4. QED BY <4>2, <4>3 DEF ReportExact
    <3>4. KillSwitchGone(q)' BY <3>1 DEF KillSwitchGone, Passed
    <3>5. QED BY <3>2, <3>3, <3>4 DEF Accounted
  <2>2. CASE Admission(role, instance) # "running"
    BY <1>1, <1>4, <2>2, AccountedKept DEF Start
  <2>3. QED BY <2>1, <2>2
<1>5. CASE Gate(q) \/ TablesDone(q) \/ NFTablesDone(q)
  BY <1>1, <1>3, <1>5, AccountedEnter DEF Gate, TablesDone, NFTablesDone
<1>6. CASE RoutesDone(q) \/ RulesDone(q) \/ NoResolver(q)
  BY <1>1, <1>6, AccountedEnter DEF RoutesDone, RulesDone, NoResolver
<1>7. CASE Recover(q)
  BY <1>1, <1>5, <1>6, <1>7, AccountedCall, AccountedHost DEF Recover
<1>8. CASE Environment
  <2>1. UNCHANGED local
    BY <1>8 DEF Environment, Operator, OperatorSetsSysctl, OperatorAddsRoute,
      OperatorRestoresResolver, OperatorDropsResolverRecord
  <2>2. QED BY <1>1, <2>1, AccountedKept
<1>9. CASE UNCHANGED vars BY <1>1, <1>9, AccountedKept DEF vars
<1>10. QED BY <1>2, <1>3, <1>4, <1>7, <1>8, <1>9 DEF Next

\* Exit code 0 comes from one place: the end of the last loop, with no error.
LEMMA OkIsTheEnd ==
  ASSUME TypeOK, [Next]_vars, NEW p \in Procs, exit[p] # "ok", exit'[p] = "ok"
  PROVE  /\ LoopEnds(p, "nftables", j[p].nftables)
         /\ errs[p] = 0
         /\ Return(p, "ok", FALSE)
<1> USE DEF host, local, ghost
<1>1. ASSUME NEW q \in Procs, q # p PROVE
        ~(Recover(q) \/ Kill(q) \/ \E role, instance : Start(q, role, instance))
  BY <1>1, OthersStay
<1>2. ASSUME NEW code, NEW b, Return(p, code, b) PROVE code = "ok"
  BY <1>2 DEF Return, Ends, TypeOK
<1>3. ~Kill(p) BY DEF Kill, Ends, TypeOK
<1>4. ASSUME NEW role, NEW instance PROVE ~Start(p, role, instance)
  BY DEF Start, Admission, TypeOK
<1>5. ~Environment
  BY DEF Environment, Operator, OperatorSetsSysctl, OperatorAddsRoute,
    OperatorRestoresResolver, OperatorDropsResolverRecord
<1>6. ~UNCHANGED vars BY DEF vars
<1>7. Recover(p) BY <1>1, <1>3, <1>4, <1>5, <1>6 DEF Next
<1>8. NFTablesDone(p) /\ errs[p] = 0
  BY <1>2, <1>7 DEF Recover, DeleteRoute, RoutesDone, DeleteRule, RulesDone, NoResolver,
    RestoreResolver, GetSysctl, SetSysctl, Gate, DeleteRouteTable, TablesDone,
    DeleteNFTable, NFTablesDone, Enter
<1>9. QED BY <1>8 DEF NFTablesDone

\* At that point nothing of the journal is left, and the report has counted it all.
LEMMA EndIsComplete ==
  ASSUME IInv, NEW p \in Procs, Accounted(p), errs[p] = 0,
         LoopEnds(p, "nftables", j[p].nftables)
  PROVE  /\ TunnelState = {} /\ nft = {}
         /\ rep[p].routes = Len(j[p].routes)
         /\ rep[p].rules = Len(j[p].rules)
         /\ rep[p].tables = Len(j[p].tables)
         /\ rep[p].nft = Len(j[p].nftables)
         /\ rep[p].resolver = j[p].resolver
<1>1. /\ pc[p] = "nftables" /\ idx[p] > Len(j[p].nftables) /\ idx[p] \in Nat
      /\ journal # NoFile /\ j[p] \in Journal /\ SameRecords(j[p], journal)
      /\ nft \subseteq Elems(journal.nftables)
  BY DEF IInv, Typed, TypeOK, LoadedInv, FileInv, LoopEnds
<1>2. /\ DOMAIN j[p].nftables = 1 .. Len(j[p].nftables) /\ Len(j[p].nftables) \in Nat
      /\ j[p].resolver \in BOOLEAN
  BY <1>1, ListFacts
<1>3. TunnelState = {} BY <1>1, LastLoopIsClean
<1>4. ReportExact(p) /\ KillSwitchGone(p) /\ InLoop(p, "nftables", j[p].nftables)
  BY <1>1 DEF Accounted
<1>5. nft = {}
  <2>1. \A i \in DOMAIN j[p].nftables : j[p].nftables[i] \notin nft
    BY <1>1, <1>2, <1>4 DEF KillSwitchGone, Passed
  <2>2. QED BY <1>1, <2>1 DEF SameRecords, Elems
<1>6. /\ rep[p].routes = Len(j[p].routes)
      /\ rep[p].rules = Len(j[p].rules)
      /\ rep[p].tables = Len(j[p].tables)
  BY <1>1, <1>4 DEF ReportExact, Counted, Phases
<1>7. rep[p].nft = Len(j[p].nftables)
  BY <1>1, <1>2, <1>4 DEF ReportExact, Counted, InLoop, Phases
<1>8. rep[p].resolver = j[p].resolver BY <1>1, <1>2, <1>4 DEF ReportExact
<1>9. QED BY <1>3, <1>5, <1>6, <1>7, <1>8

\* A cleanup that exits 0 leaves no tunnel state and no kill switch, and its report
\* counts every record of its journal, whatever other cleanups did meanwhile, if its
\* rules have no clash of fwmarks.
THEOREM RecoveryExitOk ==
  ASSUME NoMarkClash
  PROVE  Spec => ExitOkIsComplete
<1> DEFINE Inv == IInv /\ \A p \in Procs : Accounted(p)
<1>1. Init => Inv BY IInvInit DEF Init, Accounted
<1>2. Inv /\ [Next]_vars => Inv' BY IInvNext, AccountedNext DEF IInv
<1>3. Inv /\ [Next]_vars =>
        [\A p \in Procs : exit[p] = "running" /\ exit'[p] = "ok" =>
           /\ TunnelState = {} /\ nft = {}
           /\ rep[p].routes = Len(j[p].routes)
           /\ rep[p].rules = Len(j[p].rules)
           /\ rep[p].tables = Len(j[p].tables)
           /\ rep[p].nft = Len(j[p].nftables)
           /\ rep[p].resolver = j[p].resolver]_vars
  BY OkIsTheEnd, EndIsComplete DEF IInv, Typed
<1>4. QED BY <1>1, <1>2, <1>3, PTL DEF Spec, ExitOkIsComplete
-------------------------------------------------------------------------------
(***************************************************************************)
(* A second cleanup is a no-op. The strengthening follows the host through *)
(* three ghosts: a quiet process (no operator step during its run) has     *)
(* restored what it passed without the operator's help; once one of them   *)
(* has succeeded the host stays clean until the operator acts (settled);   *)
(* a process started after that finds nothing to do.                       *)
(***************************************************************************)
Restored(s) == sysctl[s.name] = s.prior \/ sysctl[s.name] # s.installed

PassedRestored(p) ==
    \A i \in DOMAIN j[p].sysctls :
        Passed(p, i, {"sysctls", "setsysctl"}, {"tables", "nftables"})
          => Restored(j[p].sysctls[i])

QuietInv(p) ==
    p \in quiet =>
      /\ pc[p] # "idle"
      /\ j[p] = journal
      /\ errs[p] = 0 \/ pc[p] = "nftables" => PassedRestored(p)

SettledInv ==
    settled =>
      /\ journal # NoFile
      /\ TunnelState = {} /\ nft = {}
      /\ \A s \in Elems(journal.sysctls) : Restored(s)

RerunInv(p) ==
    p \in rerun => settled /\ pc[p] \notin {"idle", "setsysctl"} /\ j[p] = journal

\* Every route on the host is one the journal owns or the operator's.
RoutesKnown == journal # NoFile => routes \subseteq OwnedRoutes \cup OperatorRoutes

NoOpInv ==
    /\ IInv /\ \A p \in Procs : Accounted(p)
    /\ SettledInv /\ RoutesKnown
    /\ \A p \in Procs : QuietInv(p) /\ RerunInv(p)

\* A step of a process leaves the state file and the operator's ghosts alone.
LEMMA ProcessStep ==
  ASSUME settled \in BOOLEAN, NEW p \in Procs,
         Recover(p) \/ Kill(p) \/ \E role, instance : Start(p, role, instance)
  PROVE  UNCHANGED <<journal, ops, opWrote>> /\ (settled => settled')
<1> USE DEF host, local, ghost
<1>1. CASE Recover(p)
  BY <1>1 DEF Recover, DeleteRoute, RoutesDone, DeleteRule, RulesDone, NoResolver,
    RestoreResolver, GetSysctl, SetSysctl, Gate, DeleteRouteTable, TablesDone,
    DeleteNFTable, NFTablesDone, Enter, Return
<1>2. CASE Kill(p) \/ \E role, instance : Start(p, role, instance)
  BY <1>2 DEF Kill, Start
<1>3. QED BY <1>1, <1>2

\* The operator ends every quiet run, every re-run and the settled state.
LEMMA OperatorStep ==
  ASSUME Environment
  PROVE  quiet' = {} /\ rerun' = {} /\ settled' = FALSE /\ UNCHANGED local
BY DEF Environment, Operator, OperatorSetsSysctl, OperatorAddsRoute,
  OperatorRestoresResolver, OperatorDropsResolverRecord

\* A sysctl that needs no restoring is not disturbed by any process.
LEMMA RestoredKept ==
  ASSUME Typed, [Next]_vars, UNCHANGED ops, journal # NoFile,
         NEW s \in Elems(journal.sysctls), Restored(s)
  PROVE  Restored(s)'
<1>1. CASE sysctl' = sysctl BY <1>1 DEF Restored
<1>2. CASE sysctl' # sysctl
  <2>1. TypeOK BY DEF Typed
  <2>2. ASSUME NEW n, NEW v PROVE ~OperatorSetsSysctl(n, v)
    BY <2>1 DEF OperatorSetsSysctl, Operator, TypeOK
  <2>3. PICK x \in Procs : SetSysctl(x) BY <1>2, <2>2, OnlySetSysctl
  <2> DEFINE w == j[x].sysctls[idx[x]]
  <2>4. /\ pc[x] = "setsysctl" /\ idx[x] \in DOMAIN j[x].sysctls
        /\ sysctl' = [sysctl EXCEPT ![w.name] = w.prior]
    BY <1>2, <2>3 DEF SetSysctl, WritesSysctl, At
  <2>5. PICK i \in DOMAIN j[x].sysctls : s = j[x].sysctls[i]
    BY <2>4, LoadedApart DEF Elems
  <2>6. s.name \in Sysctls /\ w.name \in Sysctls BY <2>4, <2>5, LoadedSysctl
  <2>7. s.name = w.name => s = w BY <2>4, <2>5, LoadedApart
  <2>8. QED BY <2>1, <2>4, <2>6, <2>7 DEF TypeOK, Restored
<1>3. QED BY <1>1, <1>2

\* A quiet process that moves on has restored one record more.
LEMMA PassedRestoredOwn ==
  ASSUME Typed, [Next]_vars, NEW p \in Procs, Recover(p), pc'[p] # "idle",
         errs[p] = 0 \/ pc[p] = "nftables" => PassedRestored(p),
         errs'[p] = 0 \/ pc'[p] = "nftables"
  PROVE  PassedRestored(p)'
<1> USE DEF host, local, ghost
<1>0. /\ TypeOK /\ pc[p] # "idle" /\ j[p] \in Journal /\ idx[p] \in Nat /\ errs[p] \in Nat
      /\ ops' = ops /\ journal # NoFile /\ j[p].sysctls = journal.sysctls
  <2>1. pc[p] # "idle"
    BY DEF Recover, DeleteRoute, RoutesDone, DeleteRule, RulesDone, NoResolver,
      RestoreResolver, GetSysctl, SetSysctl, Gate, DeleteRouteTable, TablesDone,
      DeleteNFTable, NFTablesDone, At, LoopEnds
  <2>2. QED BY <2>1, ProcessStep, LoadedApart DEF Typed, TypeOK, LoadedInv
<1>1. ASSUME NEW i \in DOMAIN j[p].sysctls, Restored(j[p].sysctls[i])
      PROVE  Restored(j[p].sysctls[i])'
  <2>1. j' = j
    <3>1. ~\E code, b : Return(p, code, b) BY <1>0 DEF Return, Ends, TypeOK
    <3>2. QED
      BY <3>1 DEF Recover, DeleteRoute, RoutesDone, DeleteRule, RulesDone, NoResolver,
        RestoreResolver, GetSysctl, SetSysctl, Gate, DeleteRouteTable, TablesDone,
        DeleteNFTable, NFTablesDone, Enter
  <2>2. \A s \in Elems(journal.sysctls) : Restored(s) => Restored(s)'
    BY <1>0, RestoredKept
  <2>3. j[p].sysctls[i] \in Elems(journal.sysctls) BY <1>0, <1>1 DEF Elems
  <2>4. QED BY <1>1, <2>1, <2>2, <2>3
<1>2. /\ DOMAIN j[p].sysctls = 1 .. Len(j[p].sysctls) /\ Len(j[p].sysctls) \in Nat
  <2>1. j[p].sysctls \in Seq(SysctlRecord) BY <1>0 DEF Journal
  <2>2. QED BY <2>1
<1>3. ~\E code, b : Return(p, code, b) BY <1>0 DEF Return, Ends, TypeOK
<1>4. CASE DeleteRoute(p) \/ DeleteRule(p)
  BY <1>4 DEF DeleteRoute, DeleteRule, At, PassedRestored, Passed
<1>5. CASE RoutesDone(p) \/ RulesDone(p)
  BY <1>0, <1>5 DEF RoutesDone, RulesDone, Enter, TypeOK, PassedRestored, Passed
<1>6. CASE NoResolver(p) \/ RestoreResolver(p)
  <2>1. pc'[p] = "sysctls" /\ idx'[p] = 1 /\ j' = j
    BY <1>0, <1>6 DEF NoResolver, RestoreResolver, Enter, TypeOK
  <2>2. QED BY <1>2, <2>1 DEF PassedRestored, Passed
<1>7. CASE GetSysctl(p)
  <2> DEFINE w == j[p].sysctls[idx[p]]
  <2>1. /\ j' = j /\ pc[p] = "sysctls" /\ idx[p] \in DOMAIN j[p].sysctls
        /\ sysctl' = sysctl
        /\ \/ pc' = pc /\ idx'[p] = idx[p] + 1
           \/ pc'[p] = "setsysctl" /\ idx' = idx
    BY <1>0, <1>7 DEF GetSysctl, At, Step, TypeOK
  <2>2. pc'[p] # "nftables" BY <2>1
  <2>3. ~Failed(p) /\ errs' # [errs EXCEPT ![p] = @ + 1]
    BY <1>0, <2>2 DEF Failed, TypeOK
  <2>4. errs' = errs BY <1>7, <2>3 DEF GetSysctl
  <2>5. PassedRestored(p) BY <2>2, <2>4
  <2>6. ASSUME idx' # idx PROVE Restored(w)
    BY <1>7, <2>3, <2>6 DEF GetSysctl, AlreadyRestored, Conflict, Restored
  <2>7. ASSUME NEW i \in DOMAIN j[p].sysctls, i < idx'[p] PROVE Restored(j[p].sysctls[i])
    <3>1. CASE i < idx[p] BY <2>1, <2>5, <3>1 DEF PassedRestored, Passed
    <3>2. CASE ~(i < idx[p])
      <4>1. idx' # idx /\ i = idx[p] BY <1>0, <1>2, <2>1, <2>7, <3>2
      <4>2. QED BY <2>6, <4>1
    <3>3. QED BY <3>1, <3>2
  <2>8. QED BY <1>1, <2>1, <2>7 DEF PassedRestored, Passed
<1>8. CASE SetSysctl(p)
  <2> DEFINE w == j[p].sysctls[idx[p]]
  <2>1. /\ j' = j /\ pc[p] = "setsysctl" /\ idx[p] \in DOMAIN j[p].sysctls
        /\ pc'[p] = "sysctls" /\ idx'[p] = idx[p] + 1
    BY <1>0, <1>8 DEF SetSysctl, At, Step, TypeOK
  <2>2. ~Failed(p) BY <1>0, <2>1 DEF Failed, TypeOK
  <2>3. errs' = errs /\ sysctl' = [sysctl EXCEPT ![w.name] = w.prior]
    BY <1>8, <2>2 DEF SetSysctl, WritesSysctl
  <2>4. w.name \in Sysctls BY <1>0, <2>1, LoadedSysctl
  <2>5. sysctl'[w.name] = w.prior BY <1>0, <2>3, <2>4 DEF TypeOK
  <2>6. PassedRestored(p) BY <2>1, <2>3
  <2>7. ASSUME NEW i \in DOMAIN j[p].sysctls, i < idx[p] + 1
        PROVE  Restored(j[p].sysctls[i])'
    <3>1. CASE i < idx[p] BY <1>1, <2>1, <2>6, <3>1 DEF PassedRestored, Passed
    <3>2. CASE i = idx[p] BY <2>1, <2>5, <3>2 DEF Restored
    <3>3. QED BY <1>0, <1>2, <2>7, <3>1, <3>2
  <2>8. QED BY <2>1, <2>7 DEF PassedRestored, Passed
<1>9. CASE Gate(p)
  <2>1. /\ errs[p] = 0 /\ pc[p] = "sysctls" /\ pc'[p] = "tables" /\ j' = j
        /\ idx[p] > Len(j[p].sysctls)
    BY <1>0, <1>3, <1>9 DEF Gate, Enter, LoopEnds, TypeOK
  <2>2. QED BY <1>0, <1>1, <1>2, <2>1 DEF PassedRestored, Passed
<1>10. CASE TablesDone(p) \/ DeleteRouteTable(p) \/ DeleteNFTable(p) \/ NFTablesDone(p)
  <2>1. /\ j' = j /\ pc[p] \in {"tables", "nftables"} /\ pc'[p] \in {"tables", "nftables"}
    BY <1>0, <1>3, <1>10 DEF TablesDone, DeleteRouteTable, DeleteNFTable, NFTablesDone,
      Enter, LoopEnds, At, TypeOK
  <2>2. errs[p] = 0 \/ pc[p] = "nftables"
    <3>1. CASE TablesDone(p) BY <1>3, <3>1 DEF TablesDone
    <3>2. CASE DeleteRouteTable(p)
      BY <1>0, <3>2 DEF DeleteRouteTable, Failed, At, TypeOK
    <3>3. CASE DeleteNFTable(p) \/ NFTablesDone(p)
      BY <3>3 DEF DeleteNFTable, NFTablesDone, At, LoopEnds
    <3>4. QED BY <1>10, <3>1, <3>2, <3>3
  <2>3. QED BY <1>1, <2>1, <2>2 DEF PassedRestored, Passed
<1>11. QED BY <1>4, <1>5, <1>6, <1>7, <1>8, <1>9, <1>10 DEF Recover
\* Quiet processes keep what they know, by their own steps and the others'.
LEMMA QuietNext ==
  ASSUME NoOpInv, [Next]_vars, NEW q \in Procs
  PROVE  QuietInv(q)'
<1> USE DEF host, local, ghost
<1>1. Typed /\ TypeOK /\ QuietInv(q) BY DEF NoOpInv, IInv, Typed
<1> SUFFICES ASSUME q \in quiet' PROVE QuietInv(q)' BY DEF QuietInv
<1>2. ASSUME UNCHANGED <<journal, ops>>, q \in quiet, pc'[q] = pc[q], idx'[q] = idx[q],
             errs'[q] = errs[q], j'[q] = j[q]
      PROVE  QuietInv(q)'
  <2>1. pc[q] # "idle" /\ j[q] = journal /\ journal # NoFile
    BY <1>1, <1>2 DEF QuietInv, Typed, LoadedInv
  <2>2. \A s \in Elems(journal.sysctls) : Restored(s) => Restored(s)'
    BY <1>1, <1>2, <2>1, RestoredKept
  <2>3. PassedRestored(q) => PassedRestored(q)'
    BY <1>2, <2>1, <2>2 DEF PassedRestored, Passed, Elems
  <2>4. QED BY <1>1, <1>2, <2>1, <2>3 DEF QuietInv
<1>3. ASSUME NEW p \in Procs, p # q,
             Recover(p) \/ Kill(p) \/ \E role, instance : Start(p, role, instance)
      PROVE  QuietInv(q)'
  BY <1>1, <1>2, <1>3, OthersStay, ProcessStep DEF TypeOK
<1>4. ~Kill(q) BY DEF Kill, Ends
<1>5. ASSUME NEW role, NEW instance, Start(q, role, instance) PROVE QuietInv(q)'
  <2>1. CASE Admission(role, instance) = "running"
    BY <1>1, <1>5, <2>1 DEF Start, TypeOK, QuietInv, PassedRestored, Passed
  <2>2. CASE Admission(role, instance) # "running"
    BY <1>1, <1>5, <2>2 DEF Start, QuietInv
  <2>3. QED BY <2>1, <2>2
<1>6. CASE Recover(q)
  <2>1. ~\E code, b : Return(q, code, b) BY DEF Return, Ends
  <2>2. /\ j' = j /\ quiet' = quiet
    BY <1>6, <2>1 DEF Recover, DeleteRoute, RoutesDone, DeleteRule, RulesDone, NoResolver,
      RestoreResolver, GetSysctl, SetSysctl, Gate, DeleteRouteTable, TablesDone,
      DeleteNFTable, NFTablesDone, Enter
  <2>3. /\ pc[q] # "idle" /\ j[q] = journal
        /\ errs[q] = 0 \/ pc[q] = "nftables" => PassedRestored(q)
    BY <1>1, <2>2 DEF QuietInv
  <2>4. pc'[q] # "idle"
    <3>1. \/ pc' = pc
          \/ \E loop \in Phases \ {"idle"} : pc' = [pc EXCEPT ![q] = loop]
      BY <1>6, <2>1 DEF Recover, DeleteRoute, RoutesDone, DeleteRule, RulesDone,
        NoResolver, RestoreResolver, GetSysctl, SetSysctl, Gate, DeleteRouteTable,
        TablesDone, DeleteNFTable, NFTablesDone, Enter, Phases
    <3>2. QED BY <1>1, <2>3, <3>1 DEF TypeOK
  <2>5. journal' = journal BY <1>1, <1>6, ProcessStep DEF TypeOK
  <2>6. errs'[q] = 0 \/ pc'[q] = "nftables" => PassedRestored(q)'
    BY <1>1, <1>6, <2>3, <2>4, PassedRestoredOwn
  <2>7. QED BY <2>2, <2>3, <2>4, <2>5, <2>6 DEF QuietInv
<1>7. ~Environment BY OperatorStep
<1>8. CASE UNCHANGED vars BY <1>2, <1>8 DEF vars
<1>9. QED BY <1>3, <1>4, <1>5, <1>6, <1>7, <1>8 DEF Next

\* The host settles when a quiet cleanup succeeds, and only the operator unsettles it.
LEMMA SettledNext ==
  ASSUME NoOpInv, [Next]_vars
  PROVE  SettledInv'
<1> USE DEF host, local, ghost
<1> SUFFICES ASSUME settled' PROVE SettledInv' BY DEF SettledInv
<1>1. IInv /\ Typed /\ TypeOK BY DEF NoOpInv, IInv, Typed
<1>2. ~Environment BY OperatorStep
<1>3. UNCHANGED <<journal, ops>>
  BY <1>1, <1>2, ProcessStep DEF Next, vars, TypeOK
<1>4. SUFFICES /\ journal # NoFile
               /\ TunnelState = {} /\ nft = {}
               /\ \A s \in Elems(journal.sysctls) : Restored(s)
  <2>1. SUFFICES ASSUME /\ journal # NoFile
                        /\ TunnelState = {} /\ nft = {}
                        /\ \A s \in Elems(journal.sysctls) : Restored(s)
                 PROVE  SettledInv'
    OBVIOUS
  <2>2. TunnelState' = {} BY <1>1, <2>1, TunnelStateShrinks
  <2>3. nft' = {} BY <1>1, <2>1, ShrinksNext DEF Shrinks
  <2>4. \A s \in Elems(journal.sysctls) : Restored(s)' BY <1>1, <1>3, <2>1, RestoredKept
  <2>5. QED BY <1>3, <2>1, <2>2, <2>3, <2>4 DEF SettledInv
<1>5. CASE settled BY <1>5 DEF NoOpInv, SettledInv
<1>6. CASE ~settled
  <2>1. PICK p \in Procs : /\ LoopEnds(p, "nftables", j[p].nftables)
                           /\ errs[p] = 0 /\ p \in quiet
    <3>1. ASSUME NEW p \in Procs, NEW code, NEW b, Return(p, code, b)
          PROVE  code = "ok" /\ p \in quiet
      BY <1>1, <1>6, <3>1 DEF Return, TypeOK
    <3>2. ASSUME NEW p \in Procs, Recover(p)
          PROVE  NFTablesDone(p) /\ errs[p] = 0 /\ p \in quiet
      BY <1>6, <3>1, <3>2 DEF Recover, DeleteRoute, RoutesDone, DeleteRule, RulesDone,
        NoResolver, RestoreResolver, GetSysctl, SetSysctl, Gate, DeleteRouteTable,
        TablesDone, DeleteNFTable, NFTablesDone, Enter
    <3>3. ASSUME NEW p \in Procs, NEW role, NEW instance
          PROVE  ~Start(p, role, instance) /\ ~Kill(p)
      BY <1>6 DEF Start, Kill
    <3>4. ~UNCHANGED vars BY <1>6 DEF vars
    <3>5. QED BY <1>2, <3>2, <3>3, <3>4 DEF Next, NFTablesDone
  <2>2. TunnelState = {} /\ nft = {} BY <2>1, EndIsComplete DEF NoOpInv
  <2>3. /\ j[p] = journal /\ journal # NoFile /\ pc[p] = "nftables" /\ PassedRestored(p)
    BY <1>1, <2>1 DEF NoOpInv, QuietInv, LoopEnds, Typed, LoadedInv
  <2>4. \A s \in Elems(journal.sysctls) : Restored(s)
    BY <2>3 DEF PassedRestored, Passed, Elems
  <2>5. QED BY <2>2, <2>3, <2>4
<1>7. QED BY <1>5, <1>6

\* A re-run never comes to a write of a sysctl: it finds each of them restored.
LEMMA RerunNext ==
  ASSUME NoOpInv, [Next]_vars, NEW q \in Procs
  PROVE  RerunInv(q)'
<1> USE DEF host, local, ghost
<1>1. Typed /\ TypeOK /\ RerunInv(q) /\ SettledInv BY DEF NoOpInv, IInv, Typed
<1> SUFFICES ASSUME q \in rerun' PROVE RerunInv(q)' BY DEF RerunInv
<1>2. ~Environment BY OperatorStep
<1>3. UNCHANGED journal /\ (settled => settled')
  BY <1>1, <1>2, ProcessStep DEF Next, vars, TypeOK
<1>4. ASSUME q \in rerun, pc'[q] = pc[q], j'[q] = j[q] PROVE RerunInv(q)'
  BY <1>1, <1>3, <1>4 DEF RerunInv
<1>5. ASSUME NEW p \in Procs, p # q,
             Recover(p) \/ Kill(p) \/ \E role, instance : Start(p, role, instance)
      PROVE  RerunInv(q)'
  BY <1>1, <1>4, <1>5, OthersStay
<1>6. ~Kill(q) BY DEF Kill, Ends
<1>7. ASSUME NEW role, NEW instance, Start(q, role, instance) PROVE RerunInv(q)'
  <2>1. CASE Admission(role, instance) = "running"
    <3>1. pc'[q] = "routes" /\ j'[q] = journal BY <1>1, <1>7, <2>1 DEF Start, TypeOK
    <3>2. settled \/ q \in rerun BY <1>7, <2>1 DEF Start
    <3>3. QED BY <1>1, <1>3, <3>1, <3>2 DEF RerunInv
  <2>2. CASE Admission(role, instance) # "running"
    BY <1>4, <1>7, <2>2 DEF Start
  <2>3. QED BY <2>1, <2>2
<1>8. CASE Recover(q)
  <2>1. ~\E code, b : Return(q, code, b) BY DEF Return, Ends
  <2>2. /\ j' = j /\ rerun' = rerun
    BY <1>8, <2>1 DEF Recover, DeleteRoute, RoutesDone, DeleteRule, RulesDone, NoResolver,
      RestoreResolver, GetSysctl, SetSysctl, Gate, DeleteRouteTable, TablesDone,
      DeleteNFTable, NFTablesDone, Enter
  <2>3. settled /\ pc[q] \notin {"idle", "setsysctl"} /\ j[q] = journal
    BY <1>1, <2>2 DEF RerunInv
  <2>4. CASE GetSysctl(q)
    <3> DEFINE w == j[q].sysctls[idx[q]]
    <3>1. w \in Elems(journal.sysctls) BY <2>3, <2>4 DEF GetSysctl, At, Elems
    <3>2. Restored(w) BY <1>1, <2>3, <3>1 DEF SettledInv
    <3>3. pc' = pc
      BY <2>4, <3>2 DEF GetSysctl, AlreadyRestored, Conflict, Restored
    <3>4. QED BY <1>4, <2>2, <3>3
  <2>5. CASE ~GetSysctl(q)
    <3>1. \/ pc' = pc
          \/ \E loop \in Phases \ {"idle", "setsysctl"} : pc' = [pc EXCEPT ![q] = loop]
      BY <1>8, <2>1, <2>5 DEF Recover, DeleteRoute, RoutesDone, DeleteRule, RulesDone,
        NoResolver, RestoreResolver, SetSysctl, Gate, DeleteRouteTable,
        TablesDone, DeleteNFTable, NFTablesDone, Enter, Phases
    <3>2. pc'[q] \notin {"idle", "setsysctl"} BY <1>1, <2>3, <3>1 DEF TypeOK
    <3>3. QED BY <1>3, <2>2, <2>3, <3>2 DEF RerunInv
  <2>6. QED BY <2>4, <2>5
<1>9. CASE UNCHANGED vars BY <1>4, <1>9 DEF vars
<1>10. QED BY <1>2, <1>5, <1>6, <1>7, <1>8, <1>9 DEF Next

\* The daemon's routes and the operator's are all there ever are.
LEMMA RoutesKnownNext ==
  ASSUME NoOpInv, [Next]_vars
  PROVE  RoutesKnown'
<1>1. Typed /\ RoutesKnown BY DEF NoOpInv, IInv
<1>2. routes' \subseteq routes \cup OperatorRoutes BY <1>1, ShrinksNext DEF Shrinks
<1>3. SUFFICES ASSUME journal' # NoFile PROVE routes' \subseteq OwnedRoutes' \cup OperatorRoutes
  BY DEF RoutesKnown
<1>4. /\ journal # NoFile
      /\ journal'.routes = journal.routes /\ journal'.tables = journal.tables
  BY <1>1, <1>3, FileKept DEF SameRecords
<1>5. QED BY <1>1, <1>2, <1>4 DEF RoutesKnown, OwnedRoutes

\* The invariant behind the no-op holds in every state of every run.
LEMMA NoOpInvariance ==
  ASSUME NoMarkClash
  PROVE  Spec => []NoOpInv
<1>1. Init => NoOpInv
  <2> SUFFICES ASSUME Init PROVE NoOpInv OBVIOUS
  <2>1. IInv BY IInvInit
  <2>2. /\ SettledInv
        /\ \A p \in Procs : Accounted(p) /\ QuietInv(p) /\ RerunInv(p)
    BY DEF Init, SettledInv, Accounted, QuietInv, RerunInv
  <2>3. RoutesKnown
    <3>1. SUFFICES ASSUME journal # NoFile
                   PROVE  routes \subseteq OwnedRoutes \cup OperatorRoutes
      BY DEF RoutesKnown
    <3>2. routes \in SUBSET (Elems(journal.routes) \cup OperatorRoutes
                    \cup {r \in StrayRoutes : r.table \in Elems(journal.tables)})
      BY <3>1 DEF Init
    <3>3. QED BY <3>2 DEF OwnedRoutes
  <2>4. QED BY <2>1, <2>2, <2>3 DEF NoOpInv
<1>2. NoOpInv /\ [Next]_vars => NoOpInv'
  <2> SUFFICES ASSUME NoOpInv, [Next]_vars PROVE NoOpInv' OBVIOUS
  <2>1. IInv' BY IInvNext DEF NoOpInv
  <2>2. \A p \in Procs : Accounted(p)' BY AccountedNext DEF NoOpInv, IInv
  <2>3. SettledInv' /\ RoutesKnown' BY SettledNext, RoutesKnownNext
  <2>4. \A p \in Procs : QuietInv(p)' /\ RerunInv(p)' BY QuietNext, RerunNext
  <2>5. QED BY <2>1, <2>2, <2>3, <2>4 DEF NoOpInv
<1>3. QED BY <1>1, <1>2, PTL DEF Spec

\* On a settled host no call of a re-run finds anything to change.
LEMMA RerunChangesNothing ==
  ASSUME NoOpInv, NoMetricClash, NoMarkClash, NEW p \in Procs, p \in rerun,
         Recover(p) \/ Kill(p) \/ \E role, instance : Start(p, role, instance)
  PROVE  UNCHANGED host
<1> USE DEF host, local, ghost
<1>1. Typed /\ TypeOK BY DEF NoOpInv, IInv, Typed
<1>2. settled /\ pc[p] \notin {"idle", "setsysctl"} /\ j[p] = journal
  BY DEF NoOpInv, RerunInv
<1>3. journal # NoFile /\ TunnelState = {} /\ nft = {}
  BY <1>2 DEF NoOpInv, SettledInv
<1>4. /\ OwnedRoutes = {} /\ rules \cap Elems(journal.rules) = {}
      /\ ~(resolver = "tunnel" /\ journal.resolver)
  BY <1>3 DEF TunnelState
<1>5. routes \subseteq OperatorRoutes BY <1>3, <1>4 DEF NoOpInv, RoutesKnown
<1>6. CASE DeleteRoute(p)
  <2>1. idx[p] \in DOMAIN j[p].routes BY <1>6 DEF DeleteRoute, At
  <2>2. {x \in routes : Selects(j[p].routes[idx[p]], x)} = {}
    BY <1>1, <1>2, <1>5, <2>1, SelectsOwned
  <2>3. QED BY <1>6, <2>2 DEF DeleteRoute, DeletesRoute
<1>7. CASE DeleteRule(p)
  <2>1. idx[p] \in DOMAIN j[p].rules /\ j[p].rules[idx[p]] \in Elems(journal.rules)
    BY <1>2, <1>7 DEF DeleteRule, At, Elems
  <2>2. DeletesRule(j[p].rules[idx[p]]) => rules' = rules \ {j[p].rules[idx[p]]}
    BY <1>1, <1>2, <2>1, DeletesRuleExactly
  <2>3. rules \ {j[p].rules[idx[p]]} = rules BY <1>4, <2>1
  <2>4. QED BY <1>7, <2>2, <2>3 DEF DeleteRule
<1>8. CASE RestoreResolver(p)
  <2>1. resolver = "prior" BY <1>1, <1>2, <1>4, <1>8 DEF RestoreResolver, TypeOK
  <2>2. QED BY <1>8, <2>1 DEF RestoreResolver
<1>9. CASE DeleteRouteTable(p)
  <2>1. j[p].tables[idx[p]] \in Elems(journal.tables)
    BY <1>2, <1>9 DEF DeleteRouteTable, At, Elems
  <2>2. InTable(j[p].tables[idx[p]]) = {} BY <1>4, <2>1 DEF InTable, OwnedRoutes
  <2>3. QED BY <1>9, <2>2 DEF DeleteRouteTable
<1>10. CASE DeleteNFTable(p) BY <1>3, <1>10 DEF DeleteNFTable, DeletesNFTable
<1>11. ~SetSysctl(p) BY <1>2 DEF SetSysctl, At
<1>12. CASE RoutesDone(p) \/ RulesDone(p) \/ NoResolver(p) \/ GetSysctl(p) \/ Gate(p)
            \/ TablesDone(p) \/ NFTablesDone(p)
  BY <1>12 DEF RoutesDone, RulesDone, NoResolver, GetSysctl, Gate, TablesDone,
    NFTablesDone, Enter, Return
<1>13. CASE Kill(p) \/ \E role, instance : Start(p, role, instance)
  BY <1>13 DEF Kill, Start
<1>14. QED
  BY <1>6, <1>7, <1>8, <1>9, <1>10, <1>11, <1>12, <1>13 DEF Recover

\* A cleanup started after one succeeded, with no operator step since, changes
\* nothing on the host; as for the operator's routes and rules, no record without a
\* metric or fwmark may clash with one of them.
THEOREM RecoveryRerunNoOp ==
  ASSUME NoMetricClash, NoMarkClash
  PROVE  Spec => RerunIsNoOp
<1>1. NoOpInv /\ [Next]_vars =>
        [\A p \in rerun : pc'[p] # pc[p] \/ idx'[p] # idx[p] => UNCHANGED host]_vars
  <2> SUFFICES ASSUME NoOpInv, [Next]_vars, NEW p \in rerun,
                      pc'[p] # pc[p] \/ idx'[p] # idx[p]
               PROVE  UNCHANGED host
    OBVIOUS
  <2>1. TypeOK /\ p \in Procs BY DEF NoOpInv, IInv, Typed, TypeOK
  <2>2. ~Environment BY OperatorStep DEF local
  <2>3. ~UNCHANGED vars BY DEF vars, local
  <2>4. ASSUME NEW q \in Procs, q # p
        PROVE  ~(Recover(q) \/ Kill(q) \/ \E role, instance : Start(q, role, instance))
    BY <2>1, <2>4, OthersStay
  <2>5. Recover(p) \/ Kill(p) \/ \E role, instance : Start(p, role, instance)
    BY <2>2, <2>3, <2>4 DEF Next
  <2>6. QED BY <2>1, <2>5, RerunChangesNothing
<1>2. QED BY <1>1, NoOpInvariance, PTL DEF Spec, RerunIsNoOp
================================================================================
