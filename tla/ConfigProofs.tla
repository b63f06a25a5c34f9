----------------------------- MODULE ConfigProofs -----------------------------
(***************************************************************************)
(* What an accepted configuration satisfies, for lists of any length and   *)
(* any contents: while no problem is found, the seen-maps hold what every  *)
(* element behind the loop has, and those elements differ pairwise. Then   *)
(* what a refused one needs: the report is a function of the file, and a   *)
(* file in which it has been acted on has nothing left to report.          *)
(***************************************************************************)
EXTENDS Config, SequenceTheorems, TLAPS

IsSeq(s) == s \in Seq({s[n] : n \in DOMAIN s})

Shape ==
    /\ "list" \in DOMAIN file
    /\ IsSeq(file.list)
    /\ IsSeq(list)
    /\ at \in {"decode", "defaults", "validate"} => i = 1 /\ seen = Unseen

\* The interfaces behind the loop.
InterfacesSoFar ==
    /\ \A n \in 1..(i - 1) :
         /\ list[n].name \in seen.name
         /\ list[n].fwmark \in seen.mark
         /\ list[n].routingTable \in seen.table
         /\ list[n].fwmark # 0
         /\ ~reserved(list[n].routingTable)
         /\ list[n].routingTable # opt.tunnelTable
    /\ \A n, m \in 1..(i - 1) : n # m =>
         /\ list[n].name # list[m].name
         /\ list[n].fwmark # list[m].fwmark
         /\ list[n].routingTable # list[m].routingTable

\* The peers behind the loop.
PeersSoFar ==
    /\ opt.subnet.fam = "v4"
    /\ \A n \in 1..(i - 1) :
         /\ list[n].name \in seen.name
         /\ list[n].tunnelIP \in seen.ip
         /\ list[n].tunnelIP.fam = "v4"
         /\ Contains(opt.subnet, list[n].tunnelIP)
    /\ \A n, m \in 1..(i - 1) : n # m =>
         /\ list[n].name # list[m].name
         /\ list[n].tunnelIP # list[m].tunnelIP

SoFar ==
    at \in {"list", "accepted"} =>
        /\ i \in 1..(Len(list) + 1)
        /\ errs = {} /\ file.role = "client" => InterfacesSoFar
        /\ errs = {} /\ file.role = "server" => PeersSoFar

Accepted == at = "accepted" => i = Len(list) + 1 /\ errs = {}

IInv == Shape /\ SoFar /\ Accepted

-------------------------------------------------------------------------------
\* A sequence over any set is one over its own elements.
LEMMA SeqIsSeq ==
    ASSUME NEW S, NEW s \in Seq(S)
    PROVE  IsSeq(s)
  BY DEF IsSeq

\* So is a function on 1..k.
LEMMA FunIsSeq ==
    ASSUME NEW k \in Nat, NEW s, DOMAIN s = 1..k, s = [n \in 1..k |-> s[n]]
    PROVE  IsSeq(s)
  <1>1. s \in [1..k -> {s[n] : n \in DOMAIN s}]
    OBVIOUS
  <1> QED
    BY <1>1 DEF IsSeq

\* Its length bounds its domain.
LEMMA SeqDomain ==
    ASSUME NEW s, IsSeq(s)
    PROVE  Len(s) \in Nat /\ DOMAIN s = 1..Len(s)
  BY DEF IsSeq

\* The file the operator has repaired still holds a sequence.
LEMMA RepairedIsSeq ==
    ASSUME NEW c, IsSeq(file.list)
    PROVE  IsSeq(RepairedList(c))
  <1>1. CASE file.list = << >>
    <2>1. RepairedList(c) \in Seq({SpareElement(1, c)})
      BY <1>1 DEF RepairedList
    <2> QED
      BY <2>1, SeqIsSeq
  <1>2. CASE file.list # << >>
    <2> DEFINE k == IF Reported(0, "list") THEN maxPaths ELSE Len(file.list)
    <2>1. k \in Nat
      BY SeqDomain DEF maxPaths
    <2>2. RepairedList(c) = [n \in 1..k |-> RepairedElement(n, c)]
      BY <1>2 DEF RepairedList
    <2> HIDE DEF k
    <2> QED
      BY <2>1, <2>2, FunIsSeq
  <1> QED
    BY <1>1, <1>2

\* The loop's round keeps the interfaces behind it apart.
LEMMA InterfaceStep ==
    ASSUME IInv, ValidateElement, errs' = {}, file.role = "client"
    PROVE  InterfacesSoFar'
  <1>1. errs = {} /\ ElementProblems(list[i]) = {}
    BY DEF ValidateElement
  <1>2. validateInterface(list[i], opt, seen) = {}
    BY <1>1 DEF ElementProblems
  <1>3. /\ list[i].name \notin seen.name
        /\ list[i].fwmark # 0 /\ list[i].fwmark \notin seen.mark
        /\ ~reserved(list[i].routingTable) /\ list[i].routingTable # opt.tunnelTable
        /\ list[i].routingTable \notin seen.table
    BY <1>2, Zenon DEF validateInterface, When
  <1>4. InterfacesSoFar /\ i \in Nat \ {0}
    BY <1>1, SeqDomain DEF IInv, Shape, SoFar, ValidateElement
  <1>5. /\ seen'.name = seen.name \cup {list[i].name}
        /\ seen'.mark = seen.mark \cup {list[i].fwmark}
        /\ seen'.table = seen.table \cup {list[i].routingTable}
        /\ i' = i + 1 /\ list' = list /\ opt' = opt
    BY DEF ValidateElement, See
  <1>6. ASSUME NEW n \in 1..(i' - 1) PROVE n \in 1..(i - 1) \/ n = i
    BY <1>4, <1>5, <1>6
  <1> QED
    BY <1>3, <1>4, <1>5, <1>6 DEF InterfacesSoFar, reserved

\* The same for the peers.
LEMMA PeerStep ==
    ASSUME IInv, ValidateElement, errs' = {}, file.role = "server"
    PROVE  PeersSoFar'
  <1>1. errs = {} /\ ElementProblems(list[i]) = {}
    BY DEF ValidateElement
  <1>2. validatePeer(list[i], opt, seen) = {}
    BY <1>1 DEF ElementProblems
  <1>3. /\ list[i].name \notin seen.name
        /\ list[i].tunnelIP.fam = "v4"
        /\ ~(opt.subnet.fam # "none" /\ ~Contains(opt.subnet, list[i].tunnelIP))
        /\ list[i].tunnelIP \notin seen.ip
    BY <1>2, Zenon DEF validatePeer, When
  <1>4. PeersSoFar /\ i \in Nat \ {0}
    BY <1>1, SeqDomain DEF IInv, Shape, SoFar, ValidateElement
  <1>5. /\ seen'.name = seen.name \cup {list[i].name}
        /\ seen'.ip = seen.ip \cup {list[i].tunnelIP}
        /\ i' = i + 1 /\ list' = list /\ opt' = opt
    BY <1>3 DEF ValidateElement, See
  <1>6. ASSUME NEW n \in 1..(i' - 1) PROVE n \in 1..(i - 1) \/ n = i
    BY <1>4, <1>5, <1>6
  <1>7. Contains(opt.subnet, list[i].tunnelIP)
    BY <1>3, <1>4 DEF PeersSoFar
  <1> QED
    BY <1>3, <1>4, <1>5, <1>6, <1>7 DEF PeersSoFar, Contains

\* A server whose scalars passed has an IPv4 subnet.
LEMMA SubnetChecked ==
    ASSUME ValidateScalars, errs' = {}, file.role = "server"
    PROVE  opt.subnet.fam = "v4"
  <1>1. validateServer(opt) = {}
    BY DEF ValidateScalars
  <1> QED
    BY <1>1, Zenon DEF validateServer, validateSubnet, When

-------------------------------------------------------------------------------
LEMMA IInvInit == ConfigInit => IInv
  <1> SUFFICES ASSUME ConfigInit PROVE IInv
    OBVIOUS
  <1>1. IsSeq(file.list) /\ "list" \in DOMAIN file
    BY FilesAssumption, SeqIsSeq DEF ConfigInit
  <1>2. IsSeq(list)
    <2>1. list \in Seq({})
      BY DEF ConfigInit
    <2> QED
      BY <2>1, SeqIsSeq
  <1> QED
    BY <1>1, <1>2 DEF ConfigInit, IInv, Shape, SoFar, Accepted

\* Every step of a load and of a repair keeps the invariant.
LEMMA IInvStep == IInv /\ [ConfigNext]_configVars => IInv'
  <1> SUFFICES ASSUME IInv, [ConfigNext]_configVars PROVE IInv'
    OBVIOUS
  <1>1. CASE LoadFile
    BY <1>1 DEF LoadFile, IInv, Shape, SoFar, Accepted
  <1>2. CASE decodeStrict
    BY <1>2 DEF decodeStrict, IInv, Shape, SoFar, Accepted
  <1>3. CASE Defaulting
    BY <1>3 DEF Defaulting, IInv, Shape, SoFar, Accepted
  <1>4. CASE ValidateScalars
    <2>1. /\ Shape' /\ Accepted'
      BY <1>4 DEF ValidateScalars, IInv, Shape, Accepted
    <2>2. i' = 1 /\ i' \in 1..(Len(list') + 1)
      BY <1>4, SeqDomain DEF ValidateScalars, IInv, Shape
    <2>3. InterfacesSoFar'
      BY <2>2 DEF InterfacesSoFar
    <2>4. errs' = {} /\ file'.role = "server" => PeersSoFar'
      <3>1. opt' = opt /\ file' = file
        BY <1>4 DEF ValidateScalars
      <3>2. errs' = {} /\ file.role = "server" => opt.subnet.fam = "v4"
        BY <1>4, SubnetChecked
      <3>3. 1..(i' - 1) = {}
        BY <2>2
      <3> QED
        BY <3>1, <3>2, <3>3 DEF PeersSoFar
    <2> QED
      BY <2>1, <2>2, <2>3, <2>4 DEF IInv, SoFar
  <1>5. CASE ValidateElement
    <2>1. /\ Shape' /\ Accepted'
      BY <1>5 DEF ValidateElement, IInv, Shape, Accepted
    <2>2. i' \in 1..(Len(list') + 1)
      BY <1>5, SeqDomain DEF ValidateElement, IInv, Shape, SoFar
    <2>3. file' = file
      BY <1>5 DEF ValidateElement
    <2> QED
      BY <1>5, <2>1, <2>2, <2>3, InterfaceStep, PeerStep DEF IInv, SoFar
  <1>6. CASE Verdict
    <2>1. Len(list) \in Nat
      BY SeqDomain DEF IInv, Shape
    <2> QED
      BY <1>6, <2>1 DEF Verdict, IInv, Shape, SoFar, Accepted, InterfacesSoFar, PeersSoFar
  <1>7. CASE Repair
    <2>1. PICK c : file' = [file EXCEPT !.opt = c, !.list = RepairedList(c)]
      BY <1>7 DEF Repair
    <2>2. file'.list = RepairedList(c) /\ "list" \in DOMAIN file'
      BY <2>1 DEF IInv, Shape
    <2>3. IsSeq(file'.list)
      BY <2>2, RepairedIsSeq DEF IInv, Shape
    <2> QED
      BY <1>7, <2>2, <2>3 DEF Repair, IInv, Shape, SoFar, Accepted
  <1>8. CASE RepairSyntax
    <2>1. file'.list = file.list /\ "list" \in DOMAIN file'
      BY <1>8 DEF RepairSyntax, IInv, Shape
    <2> QED
      BY <1>8, <2>1 DEF RepairSyntax, IInv, Shape, SoFar, Accepted
  <1>9. CASE UNCHANGED configVars
    BY <1>9 DEF configVars, IInv, Shape, SoFar, Accepted, InterfacesSoFar, PeersSoFar
  <1> QED
    BY <1>1, <1>2, <1>3, <1>4, <1>5, <1>6, <1>7, <1>8, <1>9 DEF ConfigNext

\* An accepted client's uplinks have a name, mark and table of their own, for any
\* number of interfaces with any contents (validateInterfaces).
THEOREM ConfigUplinksApart == ConfigSpec => []UplinksApart
  <1>1. IInv => UplinksApart
    <2> SUFFICES ASSUME IInv, at = "accepted", file.role = "client"
                 PROVE  UplinksApart
      BY DEF UplinksApart
    <2>1. InterfacesSoFar /\ i = Len(list) + 1 /\ Len(list) \in Nat
          /\ DOMAIN list = 1..Len(list)
      BY SeqDomain DEF IInv, SoFar, Accepted, Shape
    <2>2. DOMAIN list = 1..(i - 1)
      BY <2>1
    <2> QED
      BY <2>1, <2>2 DEF UplinksApart, InterfacesSoFar, Pairs
  <1> QED
    BY <1>1, IInvInit, IInvStep, PTL DEF ConfigSpec

\* An accepted server's peers have a name and an address of their own inside the
\* subnet, for any number of peers with any contents (validatePeers).
THEOREM ConfigPeersApart == ConfigSpec => []PeersApart
  <1>1. IInv => PeersApart
    <2> SUFFICES ASSUME IInv, at = "accepted", file.role = "server"
                 PROVE  PeersApart
      BY DEF PeersApart
    <2>1. PeersSoFar /\ i = Len(list) + 1 /\ Len(list) \in Nat
          /\ DOMAIN list = 1..Len(list)
      BY SeqDomain DEF IInv, SoFar, Accepted, Shape
    <2>2. DOMAIN list = 1..(i - 1)
      BY <2>1
    <2> QED
      BY <2>1, <2>2 DEF PeersApart, PeersSoFar, Pairs
  <1> QED
    BY <1>1, IInvInit, IInvStep, PTL DEF ConfigSpec
-------------------------------------------------------------------------------
\* rule_priority_base, decoded, defaulted and repaired, is a number; a load that
\* has found no problem has found it good.
PriorityInv ==
    /\ "role" \in DOMAIN file
    /\ file.role = "client" =>
         /\ "opt" \in DOMAIN file
         /\ "rulePriorityBase" \in DOMAIN file.opt
         /\ file.opt.rulePriorityBase \in Nat
         /\ Spare.client.opt.rulePriorityBase \in Nat
         /\ "rulePriorityBase" \in DOMAIN opt
         /\ opt.rulePriorityBase \in Nat
    /\ at \in {"list", "accepted"} /\ errs = {} /\ file.role = "client" =>
         checkRulePriority(opt.rulePriorityBase)

\* Defaulting leaves a number.
LEMMA DefaultPriority ==
    ASSUME NEW c, "rulePriorityBase" \in DOMAIN c, c.rulePriorityBase \in Nat
    PROVE  /\ "rulePriorityBase" \in DOMAIN applyDefaults(c)
           /\ applyDefaults(c).rulePriorityBase \in Nat
  <1> DEFINE f == "rulePriorityBase"
  <1>1. /\ f \notin DOMAIN commonDefaults /\ f \in DOMAIN clientDefaults
        /\ clientDefaults[f] = 10000
    BY DEF commonDefaults, clientDefaults
  <1>2. numDefaults[f] \in Nat
    BY <1>1 DEF numDefaults
  <1>3. f \notin DOMAIN textDefaults
    BY DEF textDefaults
  <1>4. /\ f \in DOMAIN applyDefaults(c)
        /\ applyDefaults(c)[f] =
             CASE f \in DOMAIN numDefaults /\ c[f] = 0   -> numDefaults[f]
               [] f \in DOMAIN textDefaults /\ c[f] = "" -> textDefaults[f]
               [] OTHER -> c[f]
    BY DEF applyDefaults
  <1> HIDE DEF f
  <1>5. CASE f \in DOMAIN numDefaults /\ c[f] = 0
    <2>1. applyDefaults(c)[f] = numDefaults[f]
      BY <1>3, <1>4, <1>5
    <2> QED
      BY <1>2, <1>4, <2>1, Zenon DEF f
  <1>6. CASE ~(f \in DOMAIN numDefaults /\ c[f] = 0)
    <2>1. applyDefaults(c)[f] = c[f]
      BY <1>3, <1>4, <1>6
    <2> QED
      BY <1>4, <2>1 DEF f
  <1> QED
    BY <1>5, <1>6

\* Every step of a load and of a repair keeps it.
LEMMA PriorityStep == PriorityInv /\ [ConfigNext]_configVars => PriorityInv'
  <1> SUFFICES ASSUME PriorityInv, [ConfigNext]_configVars PROVE PriorityInv'
    OBVIOUS
  <1>1. CASE LoadFile
    BY <1>1 DEF LoadFile, PriorityInv
  <1>2. CASE decodeStrict
    BY <1>2 DEF decodeStrict, PriorityInv
  <1>3. CASE Defaulting
    BY <1>3, DefaultPriority DEF Defaulting, PriorityInv
  <1>4. CASE ValidateScalars
    <2>1. ASSUME errs' = {}, file.role = "client"
          PROVE  checkRulePriority(opt.rulePriorityBase)
      <3>1. validateClient(opt) = {}
        BY <1>4, <2>1 DEF ValidateScalars
      <3> QED
        BY <3>1, Zenon DEF validateClient, When
    <2>2. UNCHANGED <<file, opt>>
      BY <1>4 DEF ValidateScalars
    <2> QED
      BY <2>1, <2>2 DEF PriorityInv
  <1>5. CASE ValidateElement
    <2>1. UNCHANGED <<file, opt, at>> /\ (errs' = {} => errs = {})
      BY <1>5 DEF ValidateElement
    <2> QED
      BY <2>1 DEF PriorityInv
  <1>6. CASE Verdict
    <2>1. UNCHANGED <<file, opt, errs>> /\ at = "list"
      BY <1>6 DEF Verdict
    <2> QED
      BY <2>1 DEF PriorityInv
  <1>7. CASE Repair
    <2>1. CASE file.role = "client"
      <3>1. file' = [file EXCEPT !.opt = RepairedOpt, !.list = RepairedList(RepairedOpt)]
        BY <1>7, <2>1 DEF Repair
      <3>2. /\ "rulePriorityBase" \in DOMAIN RepairedOpt
            /\ RepairedOpt.rulePriorityBase \in Nat
        BY <2>1 DEF PriorityInv, RepairedOpt
      <3>3. file'.opt = RepairedOpt /\ "opt" \in DOMAIN file' /\ file'.role = "client"
            /\ "role" \in DOMAIN file'
        BY <2>1, <3>1 DEF PriorityInv
      <3> QED
        BY <1>7, <2>1, <3>2, <3>3 DEF Repair, PriorityInv
    <2>2. CASE file.role # "client"
      <3>1. PICK c : file' = [file EXCEPT !.opt = c, !.list = RepairedList(c)]
        BY <1>7 DEF Repair
      <3>2. file'.role = file.role /\ "role" \in DOMAIN file'
        BY <3>1 DEF PriorityInv
      <3> QED
        BY <1>7, <2>2, <3>2 DEF Repair, PriorityInv
    <2> QED
      BY <2>1, <2>2
  <1>8. CASE RepairSyntax
    <2>1. /\ file'.role = file.role /\ "role" \in DOMAIN file'
          /\ "opt" \in DOMAIN file => file'.opt = file.opt /\ "opt" \in DOMAIN file'
      BY <1>8 DEF RepairSyntax, PriorityInv
    <2> QED
      BY <1>8, <2>1 DEF RepairSyntax, PriorityInv
  <1>9. CASE UNCHANGED configVars
    BY <1>9 DEF configVars, PriorityInv
  <1> QED
    BY <1>1, <1>2, <1>3, <1>4, <1>5, <1>6, <1>7, <1>8, <1>9 DEF ConfigNext

\* A base that passes and lies too high has wrapped around.
LEMMA OnlyWrapped ==
    ASSUME NEW b \in Nat, NEW M \in Nat, NEW top \in Nat, b >= 1, (b + 1000) % M <= top
    PROVE  b \in 1..(top - 1000) \/ b + 1000 >= M
  <1>1. CASE b + 1000 < M
    <2>1. (b + 1000) % M = b + 1000
      BY <1>1
    <2> QED
      BY <2>1
  <1>2. CASE ~(b + 1000 < M)
    BY <1>2
  <1> QED
    BY <1>1, <1>2

\* An accepted client's block of rule priorities ends below the kernel's main-table
\* rule, or its base is one of those whose sum wraps around, whatever the width of
\* RulePriority (checkRulePriority).
THEOREM ConfigPriorities == ConfigSpec => []PrioritiesBelowMainOrWrapped
  <1>1. ConfigInit => PriorityInv
    BY FilesAssumption, SpareAssumption DEF ConfigInit, PriorityInv
  <1>2. IInv /\ PriorityInv => PrioritiesBelowMainOrWrapped
    <2> SUFFICES ASSUME IInv, PriorityInv, at = "accepted", file.role = "client"
                 PROVE  \/ opt.rulePriorityBase \in 1..(rulePriorityCeiling - 1000)
                        \/ opt.rulePriorityBase + 1000 >= 2^UintBits
      BY DEF PrioritiesBelowMainOrWrapped
    <2> DEFINE b == opt.rulePriorityBase
               M == 2^UintBits
    <2>1. b \in Nat /\ b >= 1 /\ (b + 1000) % M <= rulePriorityCeiling /\ M \in Nat
      BY WidthAssumption DEF IInv, Accepted, PriorityInv, checkRulePriority
    <2>2. rulePriorityCeiling \in Nat
      BY DEF rulePriorityCeiling
    <2> HIDE DEF b, M
    <2>3. b \in 1..(rulePriorityCeiling - 1000) \/ b + 1000 >= M
      BY <2>1, <2>2, OnlyWrapped
    <2> QED
      BY <2>3 DEF b, M
  <1> QED
    BY <1>1, <1>2, IInvInit, IInvStep, PriorityStep, PTL DEF ConfigSpec
-------------------------------------------------------------------------------
\* What one load reports, as a function of the decoded scalars c and the list l.
ScalarProblems(r, c) == IF r = "client" THEN validateClient(c) ELSE validateServer(c)

ListProblem(r, l) == l = << >> \/ (r = "client" /\ Len(l) > maxPaths)

SeenBefore(r, l, n) ==
    [name  |-> {l[m].name : m \in 1..(n - 1)},
     mark  |-> IF r = "client" THEN {l[m].fwmark : m \in 1..(n - 1)} ELSE {},
     table |-> IF r = "client" THEN {l[m].routingTable : m \in 1..(n - 1)} ELSE {},
     ip    |-> IF r = "server"
               THEN {l[m].tunnelIP : m \in {k \in 1..(n - 1) : l[k].tunnelIP.fam = "v4"}}
               ELSE {}]

ProblemsAt(r, c, l, n) ==
    IF r = "client" THEN validateInterface(l[n], c, SeenBefore(r, l, n))
                    ELSE validatePeer(l[n], c, SeenBefore(r, l, n))

\* A file in which the next load finds nothing, and one in which it finds nothing
\* that keeps another check from running.
Good(r, c, l) ==
    /\ ScalarProblems(r, c) = {}
    /\ ~ListProblem(r, l)
    /\ \A n \in 1..Len(l) : ProblemsAt(r, c, l, n) = {}

NothingHidden(r, c) == {"rates", "subnet"} \cap ScalarProblems(r, c) = {}

\* A configuration, repaired or not: it has the fields that are read, no value that
\* must be unique is the spare one of another place, and there are enough of those.
InterfaceFields == {"name", "fwmark", "routingTable", "gateway", "maxPacingRate"}
PeerFields      == {"name", "publicKeyFile", "pskFile", "tunnelIP", "maxSessions"}

Repairable(r, c, l) ==
    /\ r \in {"client", "server"}
    /\ IsSeq(l)
    /\ Len(l) <= Len(Spare[r].list)
    /\ r = "client" =>
         /\ ClientFields \subseteq DOMAIN c
         /\ \A n \in DOMAIN l : DOMAIN l[n] = InterfaceFields
         /\ FreshClient(c, l)
    /\ r = "server" =>
         /\ ServerFields \subseteq DOMAIN c
         /\ applyDefaults(c).maxPendingHandshakes \in Int
         /\ \A n \in DOMAIN l : DOMAIN l[n] = PeerFields
         /\ FreshServer(l)

FileInv ==
    /\ DOMAIN file = {"role", "syntax", "opt", "list"}
    /\ Repairable(file.role, file.opt, file.list)

\* The problems found up to the loop's round i, and no others.
ErrsExact ==
    /\ \A f : <<0, f>> \in errs <=>
         f \in ScalarProblems(file.role, opt) \/ (f = "list" /\ ListProblem(file.role, list))
    /\ \A n \in 1..(i - 1) : \A f : <<n, f>> \in errs <=> f \in ProblemsAt(file.role, opt, list, n)
    /\ \A e \in errs : e[1] \in 0..(i - 1) /\ e = <<e[1], e[2]>>

LoadInv ==
    /\ at \in {"decode", "defaults"} => opt = file.opt
    /\ at \in {"validate", "list", "accepted", "refused"} => opt = applyDefaults(file.opt)
    /\ at \in {"decode", "defaults", "validate", "list", "accepted", "refused"} => list = file.list
    /\ at \in {"list", "accepted", "refused"} =>
         /\ i \in 1..(Len(list) + 1)
         /\ seen = SeenBefore(file.role, list, i)
         /\ ErrsExact
    /\ at \in {"accepted", "refused"} => i = Len(list) + 1
    /\ at = "refused" => errs # {}

\* What the reports say about the file that is being loaded or repaired.
RoundInv ==
    LET c == applyDefaults(file.opt)
    IN  /\ \/ reported = << >> /\ at # "refused"
           \/ reported = <<reported[1]>>
           \/ reported = <<reported[1], reported[2]>>
        /\ Len(reported) = 1 =>
             IF at = "refused" THEN reported[1] = errs
             ELSE /\ NothingHidden(file.role, c)
                  /\ reported[1] \cap Hiding = {} => Good(file.role, c, file.list)
        /\ Len(reported) = 2 =>
             IF at = "refused" THEN reported[1] \cap Hiding # {} /\ NothingHidden(file.role, c)
             ELSE Good(file.role, c, file.list)

RepairInv == FileInv /\ LoadInv /\ RoundInv

-------------------------------------------------------------------------------
\* A field of d is the spare one where E reports it, and the written one elsewhere.
Taken(f, E) == IF f \in Rates THEN "rates" \in E ELSE f \in E

Mixes(d, c, s, E, F) ==
    /\ F \subseteq DOMAIN c /\ F \subseteq DOMAIN s /\ DOMAIN d = DOMAIN c
    /\ \A f \in F : d[f] = IF Taken(f, E) THEN s[f] ELSE c[f]

LEMMA InWhen ==
    ASSUME NEW bad, NEW f, NEW g
    PROVE  /\ f \in When(bad, g) <=> bad /\ f = g
           /\ bad => When(bad, g) = {g}
           /\ ~bad => When(bad, g) = {}
  BY Zenon DEF When

\* Which scalars have a check of their own.
LEMMA FieldNames ==
    /\ DOMAIN commonAllowed = {"tunMTU", "probeInterval", "deadAfterMissedProbes", "privateKeyFile"}
    /\ DOMAIN clientAllowed = {"serverPublicKeyFile", "pskFile", "ipv6Policy", "maxPaths",
         "latencyPacketMaxBytes", "replicaQueueBudget", "primaryQueueDeadline", "dedupWindow",
         "rekeyAfter", "rekeyAfterPackets", "dnsServers"}
    /\ DOMAIN serverAllowed = {"maxPathsPerSession", "maxSessions", "maxPendingHandshakes",
         "sessionIdleTimeout", "retryMode"}
  BY SMT DEF commonAllowed, clientAllowed, serverAllowed

\* The fields checked one by one: the spare values passed and so did the others.
LEMMA NotAllowedMix ==
    ASSUME NEW c, NEW s, NEW d, NEW E, NEW A, Mixes(d, c, s, E, DOMAIN A),
           DOMAIN A \cap Rates = {}, NotAllowed(s, A) = {}, NotAllowed(c, A) \subseteq E
    PROVE  NotAllowed(d, A) = {}
  BY DEF NotAllowed, Mixes, Taken

\* validateCongestion, problem by problem.
LEMMA CongestionProblems ==
    ASSUME NEW c
    PROVE  /\ "rates" \in validateCongestion(c) <=>
                \/ \E f \in Rates : c[f] <= 0
                \/ c.minRate > 1000 * c.initialRate
                \/ c.initialRate > c.maxRate
           /\ "queueDelayTarget" \in validateCongestion(c) <=>
                c.queueDelayTarget <= 0 /\ ~\E f \in Rates : c[f] <= 0
           /\ validateCongestion(c) \subseteq {"rates", "queueDelayTarget"}
  <1> DEFINE stops == \E f \in Rates : c[f] <= 0
             slow  == c.minRate > 1000 * c.initialRate
             fast  == c.initialRate > c.maxRate
             late  == c.queueDelayTarget <= 0
  <1>1. validateCongestion(c) =
          IF stops THEN {"rates"}
          ELSE When(slow, "rates") \cup When(fast, "rates") \cup When(late, "queueDelayTarget")
    BY DEF validateCongestion
  <1> HIDE DEF stops, slow, fast, late
  <1>2. ASSUME NEW f
        PROVE  f \in validateCongestion(c) <=>
                 IF stops THEN f = "rates"
                 ELSE ((slow \/ fast) /\ f = "rates") \/ (late /\ f = "queueDelayTarget")
    BY <1>1, Zenon DEF When
  <1>3. "rates" # "queueDelayTarget"
    OBVIOUS
  <1> QED
    <2>1. /\ "rates" \in validateCongestion(c) <=> stops \/ slow \/ fast
          /\ "queueDelayTarget" \in validateCongestion(c) <=> late /\ ~stops
          /\ validateCongestion(c) \subseteq {"rates", "queueDelayTarget"}
      BY <1>2, <1>3
    <2> QED
      BY <2>1 DEF stops, slow, fast, late

\* The rates are replaced together: they pass, and without them so does the delay.
LEMMA CongestionMix ==
    ASSUME NEW c, NEW s, NEW d, NEW E, Mixes(d, c, s, E, Rates \cup {"queueDelayTarget"}),
           validateCongestion(s) = {}, validateCongestion(c) \subseteq E
    PROVE  /\ validateCongestion(d) \subseteq {"queueDelayTarget"}
           /\ "rates" \notin E => validateCongestion(d) = {}
  <1>1. "queueDelayTarget" \notin Rates /\ {"minRate", "maxRate", "initialRate"} = Rates
    BY DEF Rates
  <1>2. \A f \in Rates : d[f] = IF "rates" \in E THEN s[f] ELSE c[f]
    BY DEF Mixes, Taken
  <1>3. d.queueDelayTarget = IF "queueDelayTarget" \in E THEN s.queueDelayTarget
                                                        ELSE c.queueDelayTarget
    BY <1>1 DEF Mixes, Taken
  <1>4. "rates" \notin validateCongestion(d)
    <2>1. CASE "rates" \in E
      <3>1. \A f \in Rates : d[f] = s[f]
        BY <1>2, <2>1
      <3>2. d.minRate = s.minRate /\ d.maxRate = s.maxRate /\ d.initialRate = s.initialRate
        BY <1>1, <3>1
      <3>3. "rates" \notin validateCongestion(s)
        OBVIOUS
      <3> QED
        BY <3>1, <3>2, <3>3, CongestionProblems
    <2>2. CASE "rates" \notin E
      <3>1. \A f \in Rates : d[f] = c[f]
        BY <1>2, <2>2
      <3>2. d.minRate = c.minRate /\ d.maxRate = c.maxRate /\ d.initialRate = c.initialRate
        BY <1>1, <3>1
      <3>3. "rates" \notin validateCongestion(c)
        BY <2>2
      <3> QED
        BY <3>1, <3>2, <3>3, CongestionProblems
    <2> QED
      BY <2>1, <2>2
  <1>5. "rates" \notin E => "queueDelayTarget" \notin validateCongestion(d)
    <2>1. SUFFICES ASSUME "rates" \notin E PROVE ~(d.queueDelayTarget <= 0)
      BY CongestionProblems
    <2>2. ~\E f \in Rates : c[f] <= 0
      BY <2>1, CongestionProblems
    <2>3. ~\E f \in Rates : s[f] <= 0
      BY CongestionProblems
    <2> QED
      BY <1>3, <2>2, <2>3, CongestionProblems
  <1> QED
    BY <1>4, <1>5, CongestionProblems

LEMMA MixesPart ==
    ASSUME NEW c, NEW s, NEW d, NEW E, NEW F, NEW G, Mixes(d, c, s, E, F), G \subseteq F
    PROVE  Mixes(d, c, s, E, G)
  BY DEF Mixes

\* One field outside the rates.
LEMMA MixesField ==
    ASSUME NEW c, NEW s, NEW d, NEW E, NEW F, Mixes(d, c, s, E, F), NEW f \in F, f \notin Rates
    PROVE  d[f] = IF f \in E THEN s[f] ELSE c[f]
  BY DEF Mixes, Taken

\* The scalars of both roles.
LEMMA CommonMix ==
    ASSUME NEW c, NEW s, NEW d, NEW E, Mixes(d, c, s, E, CommonFields),
           validateCommon(s) = {}, validateCommon(c) \subseteq E,
           checkMetricsAddr(s.metricsAddr, FALSE), "metricsAllowPublic" \notin E
    PROVE  /\ validateCommon(d) \subseteq {"queueDelayTarget"}
           /\ "rates" \notin E => validateCommon(d) = {}
  <1>1. DOMAIN commonAllowed \subseteq CommonFields /\ DOMAIN commonAllowed \cap Rates = {}
    BY FieldNames DEF CommonFields, Rates
  <1>2. Rates \cup {"queueDelayTarget"} \subseteq CommonFields
    BY DEF CommonFields
  <1>3. /\ {"tunName", "metricsAddr", "metricsAllowPublic"} \subseteq CommonFields
        /\ "tunName" \notin Rates /\ "metricsAddr" \notin Rates /\ "metricsAllowPublic" \notin Rates
    BY DEF CommonFields, Rates
  <1>4. ASSUME NEW x
        PROVE  validateCommon(x) = NotAllowed(x, commonAllowed)
                 \cup When(~checkIfaceName(x.tunName), "tunName")
                 \cup When(~checkMetricsAddr(x.metricsAddr, x.metricsAllowPublic), "metricsAddr")
                 \cup validateCongestion(x)
    BY Zenon DEF validateCommon
  <1>5. NotAllowed(d, commonAllowed) = {}
    <2>1. NotAllowed(s, commonAllowed) = {} /\ NotAllowed(c, commonAllowed) \subseteq E
      BY <1>4
    <2>2. Mixes(d, c, s, E, DOMAIN commonAllowed)
      BY <1>1, MixesPart
    <2> QED
      BY <1>1, <2>1, <2>2, NotAllowedMix
  <1>6. checkIfaceName(d.tunName)
    <2>1. d.tunName = IF "tunName" \in E THEN s.tunName ELSE c.tunName
      BY <1>3, MixesField
    <2>2. checkIfaceName(s.tunName) /\ (~checkIfaceName(c.tunName) => "tunName" \in E)
      BY <1>4, InWhen
    <2> QED
      BY <2>1, <2>2
  <1>7. checkMetricsAddr(d.metricsAddr, d.metricsAllowPublic)
    <2>1. /\ d.metricsAddr = IF "metricsAddr" \in E THEN s.metricsAddr ELSE c.metricsAddr
          /\ d.metricsAllowPublic = c.metricsAllowPublic
      BY <1>3, MixesField
    <2>2. ~checkMetricsAddr(c.metricsAddr, c.metricsAllowPublic) => "metricsAddr" \in E
      BY <1>4, InWhen
    <2> QED
      BY <2>1, <2>2, Zenon DEF checkMetricsAddr
  <1>8. /\ validateCongestion(d) \subseteq {"queueDelayTarget"}
        /\ "rates" \notin E => validateCongestion(d) = {}
    <2>1. validateCongestion(s) = {} /\ validateCongestion(c) \subseteq E
      BY <1>4
    <2>2. Mixes(d, c, s, E, Rates \cup {"queueDelayTarget"})
      BY <1>2, MixesPart
    <2> QED
      BY <2>1, <2>2, CongestionMix
  <1> QED
    BY <1>4, <1>5, <1>6, <1>7, <1>8, InWhen

LEMMA ClientMix ==
    ASSUME NEW c, NEW s, NEW d, NEW E, Mixes(d, c, s, E, ClientFields),
           validateClient(s) = {}, validateClient(c) \subseteq E,
           checkMetricsAddr(s.metricsAddr, FALSE), "metricsAllowPublic" \notin E
    PROVE  /\ validateClient(d) \subseteq {"queueDelayTarget"}
           /\ "rates" \notin E => validateClient(d) = {}
  <1>1. DOMAIN clientAllowed \subseteq ClientFields /\ DOMAIN clientAllowed \cap Rates = {}
    BY FieldNames DEF ClientFields, Rates
  <1>2. CommonFields \subseteq ClientFields
    BY DEF ClientFields
  <1>3. /\ {"server", "tunnelTable", "rulePriorityBase"} \subseteq ClientFields
        /\ "server" \notin Rates /\ "tunnelTable" \notin Rates /\ "rulePriorityBase" \notin Rates
    BY DEF ClientFields, Rates
  <1>4. ASSUME NEW x
        PROVE  validateClient(x) = validateCommon(x)
                 \cup NotAllowed(x, clientAllowed)
                 \cup When(~checkServerAddr(x.server), "server")
                 \cup When(reserved(x.tunnelTable), "tunnelTable")
                 \cup When(~checkRulePriority(x.rulePriorityBase), "rulePriorityBase")
    BY Zenon DEF validateClient
  <1>5. NotAllowed(d, clientAllowed) = {}
    <2>1. NotAllowed(s, clientAllowed) = {} /\ NotAllowed(c, clientAllowed) \subseteq E
      BY <1>4
    <2>2. Mixes(d, c, s, E, DOMAIN clientAllowed)
      BY <1>1, MixesPart
    <2> QED
      BY <1>1, <2>1, <2>2, NotAllowedMix
  <1>6. /\ d.server = IF "server" \in E THEN s.server ELSE c.server
        /\ d.tunnelTable = IF "tunnelTable" \in E THEN s.tunnelTable ELSE c.tunnelTable
        /\ d.rulePriorityBase = IF "rulePriorityBase" \in E THEN s.rulePriorityBase
                                                            ELSE c.rulePriorityBase
    BY <1>3, MixesField
  <1>7. /\ checkServerAddr(s.server) /\ (~checkServerAddr(c.server) => "server" \in E)
        /\ ~reserved(s.tunnelTable) /\ (reserved(c.tunnelTable) => "tunnelTable" \in E)
        /\ checkRulePriority(s.rulePriorityBase)
        /\ ~checkRulePriority(c.rulePriorityBase) => "rulePriorityBase" \in E
    <2>1. ASSUME NEW x
          PROVE  /\ ~checkServerAddr(x.server) => "server" \in validateClient(x)
                 /\ reserved(x.tunnelTable) => "tunnelTable" \in validateClient(x)
                 /\ ~checkRulePriority(x.rulePriorityBase) =>
                      "rulePriorityBase" \in validateClient(x)
      BY Zenon DEF validateClient, When
    <2> QED
      BY <2>1
  <1>8. /\ checkServerAddr(d.server) /\ ~reserved(d.tunnelTable)
        /\ checkRulePriority(d.rulePriorityBase)
    BY <1>6, <1>7
  <1>9. /\ validateCommon(d) \subseteq {"queueDelayTarget"}
        /\ "rates" \notin E => validateCommon(d) = {}
    <2>1. validateCommon(s) = {} /\ validateCommon(c) \subseteq E
      BY <1>4
    <2>2. Mixes(d, c, s, E, CommonFields)
      BY <1>2, MixesPart
    <2> QED
      BY <2>1, <2>2, CommonMix
  <1>10. /\ When(~checkServerAddr(d.server), "server") = {}
         /\ When(reserved(d.tunnelTable), "tunnelTable") = {}
         /\ When(~checkRulePriority(d.rulePriorityBase), "rulePriorityBase") = {}
    BY <1>8, InWhen
  <1>11. validateClient(d) = validateCommon(d)
    BY <1>4, <1>5, <1>10
  <1> QED
    BY <1>9, <1>11

\* A reported address is made to fit the subnet.
Fitted(d, c, s, E) ==
    IF "address" \in E
    THEN /\ d.address.fam = s.address.fam
         /\ d.address.net = d.subnet.net
         /\ d.address.bits = d.subnet.bits
    ELSE d.address = c.address

\* The subnet and the address in it.
LEMMA SubnetMix ==
    ASSUME NEW c, NEW s, NEW d, NEW E,
           validateSubnet(s) = {}, validateSubnet(c) \subseteq E,
           d.subnet = IF "subnet" \in E THEN s.subnet ELSE c.subnet,
           Fitted(d, c, s, E)
    PROVE  /\ validateSubnet(d) \subseteq {"address"}
           /\ "subnet" \notin E => validateSubnet(d) = {}
           /\ d.subnet.fam = "v4"
  <1> DEFINE astray(x) == /\ x.subnet.fam # "none"
                          /\ x.address.fam # "none"
                          /\ ~Contains(x.subnet, x.address) \/ x.address.bits # x.subnet.bits
  <1>1. ASSUME NEW x
        PROVE  validateSubnet(x) = When(x.subnet.fam # "v4", "subnet")
                 \cup When(x.address.fam # "v4", "address")
                 \cup When(astray(x), "address")
    BY Zenon DEF validateSubnet
  <1>2. ASSUME NEW x
        PROVE  astray(x) <=> /\ x.subnet.fam # "none"
                             /\ x.address.fam # "none"
                             /\ \/ x.subnet.fam # x.address.fam
                                \/ x.subnet.net # x.address.net
                                \/ x.address.bits # x.subnet.bits
    BY Zenon DEF Contains
  <1> HIDE DEF astray
  <1>3. s.subnet.fam = "v4" /\ s.address.fam = "v4"
    BY <1>1, InWhen
  <1>4. /\ c.subnet.fam # "v4" => "subnet" \in E
        /\ c.address.fam # "v4" => "address" \in E
        /\ astray(c) => "address" \in E
    BY <1>1, InWhen
  <1>5. d.subnet.fam = "v4"
    BY <1>3, <1>4
  <1>6. "subnet" \notin E => d.address.fam = "v4" /\ ~astray(d)
    <2>1. CASE "address" \in E
      BY <1>2, <1>3, <1>5, <2>1 DEF Fitted
    <2>2. CASE "address" \notin E
      BY <1>2, <1>4, <2>2 DEF Fitted
    <2> QED
      BY <2>1, <2>2
  <1> QED
    BY <1>1, <1>5, <1>6, InWhen

LEMMA ServerMix ==
    ASSUME NEW c, NEW s, NEW d, NEW E, Mixes(d, c, s, E, ServerFields \ {"address"}),
           validateServer(s) = {}, validateServer(c) \subseteq E,
           checkMetricsAddr(s.metricsAddr, FALSE), "metricsAllowPublic" \notin E,
           s.maxPendingPerSource = 1, c.maxPendingHandshakes \in Int,
           "maxPendingHandshakes" \in E => c.maxPendingHandshakes \notin Positive,
           s.wanInterface \in required, "manageNAT" \notin E,
           Fitted(d, c, s, E)
    PROVE  /\ validateServer(d) \subseteq {"queueDelayTarget", "address"}
           /\ "rates" \notin E /\ "subnet" \notin E => validateServer(d) = {}
           /\ d.subnet.fam = "v4"
           /\ d.maxPendingHandshakes \in Int
  <1> DEFINE F == ServerFields \ {"address"}
  <1>1. DOMAIN serverAllowed \subseteq F /\ DOMAIN serverAllowed \cap Rates = {}
    BY FieldNames DEF ServerFields, Rates
  <1>2. CommonFields \subseteq F
    BY FieldNames DEF ServerFields, CommonFields, Rates
  <1>3. /\ {"listen", "subnet", "maxPendingPerSource", "wanInterface", "manageNAT"} \subseteq F
        /\ {"listen", "subnet", "maxPendingPerSource", "wanInterface", "manageNAT"} \cap Rates = {}
        /\ "maxPendingHandshakes" \in F /\ "maxPendingHandshakes" \notin Rates
    BY FieldNames DEF ServerFields, Rates
  <1> DEFINE many(x) == x.maxPendingPerSource \notin 1..x.maxPendingHandshakes
             noWan(x) == IF x.wanInterface = "" THEN x.manageNAT
                         ELSE ~checkIfaceName(x.wanInterface)
  <1>4. ASSUME NEW x
        PROVE  validateServer(x) = validateCommon(x)
                 \cup NotAllowed(x, serverAllowed)
                 \cup When(~checkListenAddr(x.listen), "listen")
                 \cup validateSubnet(x)
                 \cup When(many(x), "maxPendingPerSource")
                 \cup When(noWan(x), "wanInterface")
    BY Zenon DEF validateServer
  <1> HIDE DEF many, noWan, F
  <1>5. NotAllowed(s, serverAllowed) = {} /\ NotAllowed(c, serverAllowed) \subseteq E
    BY <1>4
  <1>6. NotAllowed(d, serverAllowed) = {}
    <2>1. Mixes(d, c, s, E, DOMAIN serverAllowed)
      BY <1>1, MixesPart DEF F
    <2> QED
      BY <1>1, <1>5, <2>1, NotAllowedMix
  <1>7. /\ d.listen = IF "listen" \in E THEN s.listen ELSE c.listen
        /\ d.subnet = IF "subnet" \in E THEN s.subnet ELSE c.subnet
        /\ d.maxPendingPerSource = IF "maxPendingPerSource" \in E THEN s.maxPendingPerSource
                                                                  ELSE c.maxPendingPerSource
        /\ d.maxPendingHandshakes = IF "maxPendingHandshakes" \in E THEN s.maxPendingHandshakes
                                                                    ELSE c.maxPendingHandshakes
        /\ d.wanInterface = IF "wanInterface" \in E THEN s.wanInterface ELSE c.wanInterface
        /\ d.manageNAT = c.manageNAT
    <2>1. ASSUME NEW f \in F, f \notin Rates
          PROVE  d[f] = IF f \in E THEN s[f] ELSE c[f]
      BY <2>1, MixesField DEF F
    <2> QED
      BY <1>3, <2>1
  <1>8. checkListenAddr(d.listen)
    <2>1. ASSUME NEW x, ~checkListenAddr(x.listen) PROVE "listen" \in validateServer(x)
      <3>1. "listen" \in When(~checkListenAddr(x.listen), "listen")
        BY <2>1, InWhen
      <3> QED
        BY <1>4, <3>1
    <2>2. checkListenAddr(s.listen) /\ (~checkListenAddr(c.listen) => "listen" \in E)
      BY <2>1
    <2> QED
      BY <1>7, <2>2
  <1>9. ~many(d) /\ d.maxPendingHandshakes \in Int
    <2>1. ASSUME NEW x, "maxPendingHandshakes" \in DOMAIN x
          PROVE  "maxPendingHandshakes" \notin NotAllowed(x, serverAllowed) =>
                   x.maxPendingHandshakes \in Nat \ {0}
      <3>1. "maxPendingHandshakes" \in DOMAIN serverAllowed
        BY FieldNames
      <3>2. serverAllowed.maxPendingHandshakes = Positive
        BY SMT DEF serverAllowed
      <3> QED
        BY <2>1, <3>1, <3>2 DEF NotAllowed, Positive
    <2>2. "maxPendingHandshakes" \in DOMAIN c /\ "maxPendingHandshakes" \in DOMAIN s
          /\ DOMAIN d = DOMAIN c
      BY <1>3 DEF Mixes, F
    <2>3. d.maxPendingHandshakes \in Nat \ {0}
      BY <1>6, <2>1, <2>2
    <2>4. many(c) => "maxPendingPerSource" \in E
      BY <1>4, InWhen
    <2>5. CASE "maxPendingPerSource" \in E
      <3>1. d.maxPendingPerSource = 1
        BY <1>7, <2>5
      <3> QED
        BY <2>3, <3>1 DEF many
    <2>6. CASE "maxPendingPerSource" \notin E
      <3> DEFINE h == c.maxPendingHandshakes
                 p == c.maxPendingPerSource
      <3>1. p \in 1..h /\ h \in Int
        BY <2>4, <2>6 DEF many
      <3> HIDE DEF h, p
      <3>2. h \in Nat \ {0}
        BY <3>1
      <3>3. "maxPendingHandshakes" \notin E
        BY <3>2 DEF h, Positive
      <3>4. d.maxPendingPerSource = p /\ d.maxPendingHandshakes = h
        BY <1>7, <2>6, <3>3 DEF h, p
      <3> QED
        BY <2>3, <3>1, <3>4 DEF many
    <2> QED
      BY <2>3, <2>5, <2>6
  <1>10. ~noWan(d)
    <2>1. ~noWan(s) /\ (noWan(c) => "wanInterface" \in E)
      BY <1>4, InWhen
    <2>2. CASE "wanInterface" \in E
      BY <1>7, <2>1, <2>2, Zenon DEF noWan, required
    <2>3. CASE "wanInterface" \notin E
      BY <1>7, <2>1, <2>3, Zenon DEF noWan
    <2> QED
      BY <2>2, <2>3
  <1>11. /\ validateSubnet(d) \subseteq {"address"}
         /\ "subnet" \notin E => validateSubnet(d) = {}
         /\ d.subnet.fam = "v4"
    <2>1. validateSubnet(s) = {} /\ validateSubnet(c) \subseteq E
      BY <1>4
    <2> QED
      BY <1>7, <2>1, SubnetMix
  <1>12. /\ validateCommon(d) \subseteq {"queueDelayTarget"}
         /\ "rates" \notin E => validateCommon(d) = {}
    <2>1. validateCommon(s) = {} /\ validateCommon(c) \subseteq E
      BY <1>4
    <2>2. Mixes(d, c, s, E, CommonFields)
      BY <1>2, MixesPart DEF F
    <2> QED
      BY <2>1, <2>2, CommonMix
  <1> QED
    BY <1>4, <1>6, <1>8, <1>9, <1>10, <1>11, <1>12, InWhen

\* A field whose check cannot fail is never reported, nor is a single rate.
LEMMA ScalarRange ==
    ASSUME NEW r, NEW c
    PROVE  /\ \A f \in ScalarProblems(r, c) :
                f \notin Rates /\ f # "metricsAllowPublic" /\ f # "manageNAT" /\ f # "list"
           /\ r = "server" /\ "maxPendingHandshakes" \in ScalarProblems(r, c) =>
                c.maxPendingHandshakes \notin Positive
  <1> DEFINE bare == Rates \cup {"metricsAllowPublic", "manageNAT", "list"}
  <1>1. ASSUME NEW A, DOMAIN A \cap bare = {} PROVE NotAllowed(c, A) \cap bare = {}
    BY <1>1 DEF NotAllowed
  <1>2. /\ DOMAIN commonAllowed \cap bare = {} /\ DOMAIN clientAllowed \cap bare = {}
        /\ DOMAIN serverAllowed \cap bare = {}
    BY FieldNames DEF Rates
  <1>3. {"rates", "queueDelayTarget", "tunName", "metricsAddr", "server", "tunnelTable",
         "rulePriorityBase", "listen", "subnet", "address", "maxPendingPerSource",
         "wanInterface"} \cap bare = {}
    BY DEF Rates
  <1> DEFINE common == NotAllowed(c, commonAllowed)
                       \cup {"tunName", "metricsAddr", "rates", "queueDelayTarget"}
  <1>4. validateCommon(c) \subseteq common
    <2>1. When(~checkIfaceName(c.tunName), "tunName") \subseteq {"tunName"}
      BY InWhen
    <2>2. When(~checkMetricsAddr(c.metricsAddr, c.metricsAllowPublic), "metricsAddr")
            \subseteq {"metricsAddr"}
      BY InWhen
    <2> QED
      BY <2>1, <2>2, CongestionProblems DEF validateCommon
  <1>5. validateClient(c) \subseteq common \cup NotAllowed(c, clientAllowed)
          \cup {"server", "tunnelTable", "rulePriorityBase"}
    BY <1>4, Zenon DEF validateClient, When
  <1>6. validateServer(c) \subseteq common \cup NotAllowed(c, serverAllowed)
          \cup {"listen", "subnet", "address", "maxPendingPerSource", "wanInterface"}
    BY <1>4, Zenon DEF validateServer, validateSubnet, When
  <1>7. ScalarProblems(r, c) \cap bare = {}
    <2> HIDE DEF bare
    <2>1. common \cap bare = {}
      BY <1>1, <1>2, <1>3
    <2>2. validateClient(c) \cap bare = {}
      BY <1>1, <1>2, <1>3, <1>5, <2>1
    <2>3. validateServer(c) \cap bare = {}
      BY <1>1, <1>2, <1>3, <1>6, <2>1
    <2> QED
      BY <2>2, <2>3 DEF ScalarProblems
  <1>8. ASSUME r = "server", "maxPendingHandshakes" \in ScalarProblems(r, c)
        PROVE  c.maxPendingHandshakes \notin Positive
    <2>1. "maxPendingHandshakes" \in validateServer(c)
      BY <1>8 DEF ScalarProblems
    <2>2. "maxPendingHandshakes" \notin common
      BY FieldNames DEF NotAllowed
    <2> HIDE DEF common
    <2>3. "maxPendingHandshakes" \in NotAllowed(c, serverAllowed)
      BY <1>6, <2>1, <2>2
    <2>4. serverAllowed.maxPendingHandshakes = Positive
      BY SMT DEF serverAllowed
    <2> QED
      BY <2>3, <2>4 DEF NotAllowed
  <1> QED
    BY <1>7, <1>8

\* validateInterfaces and validatePeers, problem by problem.
Routed(in)  == in.gateway \in {"", "auto", "literal"}
HasKey(p)   == p.publicKeyFile # ""
HasPSK(p)   == p.pskFile # ""
Nameless(p) == p.name = ""

LEMMA InterfaceProblems ==
    ASSUME NEW e, NEW c, NEW s
    PROVE  LET V == validateInterface(e, c, s)
           IN  /\ "name" \in V <=> ~checkIfaceName(e.name) \/ e.name \in s.name
               /\ "fwmark" \in V <=> e.fwmark = 0 \/ e.fwmark \in s.mark
               /\ "routingTable" \in V <=> \/ reserved(e.routingTable)
                                           \/ e.routingTable = c.tunnelTable
                                           \/ e.routingTable \in s.table
               /\ "gateway" \in V <=> ~Routed(e)
               /\ "maxPacingRate" \in V <=> e.maxPacingRate <= 0
               /\ V \subseteq InterfaceFields
  <1> DEFINE V     == validateInterface(e, c, s)
             name  == ~checkIfaceName(e.name) \/ e.name \in s.name
             mark  == e.fwmark = 0 \/ e.fwmark \in s.mark
             table == \/ reserved(e.routingTable)
                      \/ e.routingTable = c.tunnelTable
                      \/ e.routingTable \in s.table
             gate  == ~Routed(e)
             rate  == e.maxPacingRate <= 0
  <1>1. V = When(name, "name") \cup When(mark, "fwmark") \cup When(table, "routingTable")
            \cup When(gate, "gateway") \cup When(rate, "maxPacingRate")
    BY Zenon DEF validateInterface, Routed
  <1> HIDE DEF V, name, mark, table, gate, rate
  <1>2. /\ "name" \in V <=> name
        /\ "fwmark" \in V <=> mark
        /\ "routingTable" \in V <=> table
        /\ "gateway" \in V <=> gate
        /\ "maxPacingRate" \in V <=> rate
        /\ V \subseteq InterfaceFields
    BY <1>1, InWhen DEF InterfaceFields
  <1> QED
    BY <1>2, Zenon DEF V, name, mark, table, gate, rate

LEMMA PeerProblems ==
    ASSUME NEW e, NEW c, NEW s
    PROVE  LET V == validatePeer(e, c, s)
           IN  /\ "name" \in V <=> Nameless(e) \/ e.name \in s.name
               /\ "publicKeyFile" \in V <=> ~HasKey(e)
               /\ "pskFile" \in V <=> ~HasPSK(e)
               /\ "tunnelIP" \in V <=> \/ e.tunnelIP.fam # "v4"
                                       \/ (c.subnet.fam # "none" /\ ~Contains(c.subnet, e.tunnelIP))
                                       \/ e.tunnelIP \in s.ip
               /\ "maxSessions" \in V <=> e.maxSessions < 1
               /\ V \subseteq PeerFields
  <1> DEFINE V    == validatePeer(e, c, s)
             name == Nameless(e) \/ e.name \in s.name
             key  == ~HasKey(e)
             psk  == ~HasPSK(e)
             ip   == \/ e.tunnelIP.fam # "v4"
                     \/ (c.subnet.fam # "none" /\ ~Contains(c.subnet, e.tunnelIP))
                     \/ e.tunnelIP \in s.ip
             few  == e.maxSessions < 1
  <1>1. V = When(name, "name") \cup When(key, "publicKeyFile") \cup When(psk, "pskFile")
            \cup When(ip, "tunnelIP") \cup When(few, "maxSessions")
    BY Zenon DEF validatePeer, Nameless, HasKey, HasPSK
  <1> HIDE DEF V, name, key, psk, ip, few
  <1>2. /\ "name" \in V <=> name
        /\ "publicKeyFile" \in V <=> key
        /\ "pskFile" \in V <=> psk
        /\ "tunnelIP" \in V <=> ip
        /\ "maxSessions" \in V <=> few
        /\ V \subseteq PeerFields
    BY <1>1, InWhen DEF PeerFields
  <1> QED
    BY <1>2, Zenon DEF V, name, key, psk, ip, few

\* The same for the n-th interface of a list.
LEMMA InterfaceAt ==
    ASSUME NEW c, NEW l, NEW n
    PROVE  LET V == ProblemsAt("client", c, l, n)
           IN  /\ "name" \in V <=> \/ ~checkIfaceName(l[n].name)
                                   \/ \E m \in 1..(n - 1) : l[n].name = l[m].name
               /\ "fwmark" \in V <=> \/ l[n].fwmark = 0
                                     \/ \E m \in 1..(n - 1) : l[n].fwmark = l[m].fwmark
               /\ "routingTable" \in V <=> \/ reserved(l[n].routingTable)
                                           \/ l[n].routingTable = c.tunnelTable
                                           \/ \E m \in 1..(n - 1) :
                                                 l[n].routingTable = l[m].routingTable
               /\ "gateway" \in V <=> ~Routed(l[n])
               /\ "maxPacingRate" \in V <=> l[n].maxPacingRate <= 0
               /\ V \subseteq InterfaceFields
  <1> DEFINE s == SeenBefore("client", l, n)
  <1>1. /\ s.name = {l[m].name : m \in 1..(n - 1)}
        /\ s.mark = {l[m].fwmark : m \in 1..(n - 1)}
        /\ s.table = {l[m].routingTable : m \in 1..(n - 1)}
    BY DEF SeenBefore
  <1>2. ProblemsAt("client", c, l, n) = validateInterface(l[n], c, s)
    BY DEF ProblemsAt
  <1> HIDE DEF s
  <1>3. /\ l[n].name \in s.name <=> \E m \in 1..(n - 1) : l[n].name = l[m].name
        /\ l[n].fwmark \in s.mark <=> \E m \in 1..(n - 1) : l[n].fwmark = l[m].fwmark
        /\ l[n].routingTable \in s.table <=>
             \E m \in 1..(n - 1) : l[n].routingTable = l[m].routingTable
    BY <1>1
  <1> QED
    BY <1>2, <1>3, InterfaceProblems

\* A column of the repaired list: the spare values are used nowhere else, so that
\* a value that was not reported stays different from those before it.
LEMMA ApartMix ==
    ASSUME NEW N \in Nat, NEW B, NEW a, NEW b, NEW s,
           \A n \in 1..N : b[n] = IF n \in B THEN s[n] ELSE a[n],
           \A n \in 1..N : n \notin B => \A m \in 1..(n - 1) : a[n] # a[m],
           \A n, m \in 1..N : n # m => a[n] # s[m] /\ s[n] # s[m],
           NEW n \in 1..N, NEW m \in 1..(n - 1)
    PROVE  b[n] # b[m]
  <1>1. m \in 1..N /\ m # n
    OBVIOUS
  <1>2. n \notin B => a[n] # a[m]
    OBVIOUS
  <1> QED
    BY <1>1, <1>2

\* No value of l that must be unique is the one of another place in p.
ApartClient(l, p, N) ==
    \A n, m \in 1..N : n # m =>
        /\ l[n].name # p[m].name
        /\ l[n].fwmark # p[m].fwmark
        /\ l[n].routingTable # p[m].routingTable

\* q holds the elements of p where a problem of l is, and those of l elsewhere.
MixesList(r, q, c, l, p, N, F) ==
    \A n \in 1..N : \A f \in F :
        q[n][f] = IF f \in ProblemsAt(r, c, l, n) THEN p[n][f] ELSE l[n][f]

SpareTables(c, o, l, p, N) ==
    \A n \in 1..N : /\ p[n].routingTable # c.tunnelTable
                    /\ l[n].routingTable # o.tunnelTable
                    /\ validateInterface(p[n], o, Unseen) = {}

\* The repaired interfaces pass, whichever of their fields and of the tunnel's table
\* are spare ones: p holds the spare elements, o the spare scalars.
LEMMA InterfacesMix ==
    ASSUME NEW c, NEW d, NEW o, NEW l, NEW p, NEW q, NEW N \in Nat,
           MixesList("client", q, c, l, p, N, InterfaceFields),
           d.tunnelTable = c.tunnelTable \/ d.tunnelTable = o.tunnelTable,
           ApartClient(l, p, N), ApartClient(p, p, N), SpareTables(c, o, l, p, N)
    PROVE  \A n \in 1..N : ProblemsAt("client", d, q, n) = {}
  <1> DEFINE bad(f) == {n \in 1..N : f \in ProblemsAt("client", c, l, n)}
             col(k, f) == [n \in 1..N |-> k[n][f]]
  <1>1. ASSUME NEW f \in {"name", "fwmark", "routingTable"}, NEW n \in 1..N, NEW m \in 1..(n - 1)
        PROVE  q[n][f] # q[m][f]
    <2> DEFINE a == col(l, f)
               b == col(q, f)
               s == col(p, f)
               B == bad(f)
    <2>1. \A k \in 1..N : b[k] = IF k \in B THEN s[k] ELSE a[k]
      <3>1. f \in InterfaceFields
        BY <1>1 DEF InterfaceFields
      <3> QED
        BY <3>1 DEF MixesList
    <2>2. \A k \in 1..N : k \notin B => \A j \in 1..(k - 1) : a[k] # a[j]
      <3> SUFFICES ASSUME NEW k \in 1..N, k \notin B, NEW j \in 1..(k - 1) PROVE a[k] # a[j]
        OBVIOUS
      <3>1. f \notin ProblemsAt("client", c, l, k) /\ j \in 1..N
        OBVIOUS
      <3>2. l[k][f] # l[j][f]
        BY <1>1, <3>1, InterfaceAt
      <3> QED
        BY <3>1, <3>2
    <2>3. \A k, j \in 1..N : k # j => a[k] # s[j] /\ s[k] # s[j]
      BY <1>1 DEF ApartClient
    <2>4. m \in 1..N
      BY <1>1
    <2> HIDE DEF a, b, s, B
    <2>5. b[n] # b[m]
      BY <1>1, <2>1, <2>2, <2>3, ApartMix
    <2> QED
      BY <1>1, <2>4, <2>5 DEF b
  <1>2. ASSUME NEW n \in 1..N PROVE ProblemsAt("client", d, q, n) = {}
    <2> DEFINE W == ProblemsAt("client", c, l, n)
    <2>1. /\ q[n].name = IF "name" \in W THEN p[n].name ELSE l[n].name
          /\ q[n].fwmark = IF "fwmark" \in W THEN p[n].fwmark ELSE l[n].fwmark
          /\ q[n].routingTable = IF "routingTable" \in W THEN p[n].routingTable
                                                         ELSE l[n].routingTable
          /\ q[n].gateway = IF "gateway" \in W THEN p[n].gateway ELSE l[n].gateway
          /\ q[n].maxPacingRate = IF "maxPacingRate" \in W THEN p[n].maxPacingRate
                                                           ELSE l[n].maxPacingRate
      BY <1>2 DEF MixesList, InterfaceFields
    <2>2. /\ p[n].routingTable # c.tunnelTable
          /\ l[n].routingTable # o.tunnelTable
          /\ validateInterface(p[n], o, Unseen) = {}
      BY <1>2 DEF SpareTables
    <2>3. /\ checkIfaceName(p[n].name) /\ p[n].fwmark # 0
          /\ ~reserved(p[n].routingTable) /\ p[n].routingTable # o.tunnelTable
          /\ Routed(p[n]) /\ ~(p[n].maxPacingRate <= 0)
      BY <2>2, InterfaceProblems
    <2>4. /\ "name" \notin W => checkIfaceName(l[n].name)
          /\ "fwmark" \notin W => l[n].fwmark # 0
          /\ "routingTable" \notin W =>
               ~reserved(l[n].routingTable) /\ l[n].routingTable # c.tunnelTable
          /\ "gateway" \notin W => Routed(l[n])
          /\ "maxPacingRate" \notin W => ~(l[n].maxPacingRate <= 0)
      BY InterfaceAt
    <2> HIDE DEF W
    <2>5. /\ checkIfaceName(q[n].name) /\ q[n].fwmark # 0
          /\ ~reserved(q[n].routingTable) /\ q[n].routingTable # d.tunnelTable
          /\ ~(q[n].maxPacingRate <= 0)
      BY <2>1, <2>2, <2>3, <2>4
    <2>6. Routed(q[n])
      BY <2>1, <2>3, <2>4, Zenon DEF Routed
    <2>7. /\ "name" \notin ProblemsAt("client", d, q, n)
          /\ "fwmark" \notin ProblemsAt("client", d, q, n)
          /\ "routingTable" \notin ProblemsAt("client", d, q, n)
          /\ "gateway" \notin ProblemsAt("client", d, q, n)
          /\ "maxPacingRate" \notin ProblemsAt("client", d, q, n)
      BY <1>1, <1>2, <2>5, <2>6, InterfaceAt
    <2> QED
      BY <2>7, InterfaceAt DEF InterfaceFields
  <1> QED
    BY <1>2

\* And for the n-th peer.
LEMMA PeerAt ==
    ASSUME NEW c, NEW l, NEW n
    PROVE  LET V == ProblemsAt("server", c, l, n)
           IN  /\ "name" \in V <=> \/ Nameless(l[n])
                                   \/ \E m \in 1..(n - 1) : l[n].name = l[m].name
               /\ "publicKeyFile" \in V <=> ~HasKey(l[n])
               /\ "pskFile" \in V <=> ~HasPSK(l[n])
               /\ "tunnelIP" \in V <=>
                    \/ l[n].tunnelIP.fam # "v4"
                    \/ (c.subnet.fam # "none" /\ ~Contains(c.subnet, l[n].tunnelIP))
                    \/ \E m \in 1..(n - 1) : l[n].tunnelIP = l[m].tunnelIP
               /\ "maxSessions" \in V <=> l[n].maxSessions < 1
               /\ V \subseteq PeerFields
  <1> DEFINE s == SeenBefore("server", l, n)
  <1>1. /\ s.name = {l[m].name : m \in 1..(n - 1)}
        /\ s.ip = {l[m].tunnelIP : m \in {k \in 1..(n - 1) : l[k].tunnelIP.fam = "v4"}}
    BY DEF SeenBefore
  <1>2. ProblemsAt("server", c, l, n) = validatePeer(l[n], c, s)
    BY DEF ProblemsAt
  <1> HIDE DEF s
  <1>3. /\ l[n].name \in s.name <=> \E m \in 1..(n - 1) : l[n].name = l[m].name
        /\ l[n].tunnelIP.fam = "v4" =>
             (l[n].tunnelIP \in s.ip <=> \E m \in 1..(n - 1) : l[n].tunnelIP = l[m].tunnelIP)
    BY <1>1
  <1> QED
    BY <1>2, <1>3, PeerProblems

ApartServer(l, p, N) ==
    \A n, m \in 1..N : n # m => l[n].name # p[m].name /\ l[n].tunnelIP # p[m].tunnelIP

SparePeers(d, p, N) ==
    \A n \in 1..N : /\ ~Nameless(p[n]) /\ HasKey(p[n]) /\ HasPSK(p[n])
                    /\ p[n].tunnelIP.fam = "v4" /\ Contains(d.subnet, p[n].tunnelIP)
                    /\ ~(p[n].maxSessions < 1)

\* The repaired peers pass if the subnet their addresses were compared with is the
\* same.
LEMMA PeersMix ==
    ASSUME NEW c, NEW d, NEW l, NEW p, NEW q, NEW N \in Nat,
           MixesList("server", q, c, l, p, N, PeerFields),
           d.subnet = c.subnet, d.subnet.fam = "v4",
           ApartServer(l, p, N), ApartServer(p, p, N), SparePeers(d, p, N)
    PROVE  \A n \in 1..N : ProblemsAt("server", d, q, n) = {}
  <1> DEFINE bad(f) == {n \in 1..N : f \in ProblemsAt("server", c, l, n)}
             col(k, f) == [n \in 1..N |-> k[n][f]]
  <1>1. ASSUME NEW f \in {"name", "tunnelIP"}, NEW n \in 1..N, NEW m \in 1..(n - 1)
        PROVE  q[n][f] # q[m][f]
    <2> DEFINE a == col(l, f)
               b == col(q, f)
               s == col(p, f)
               B == bad(f)
    <2>1. \A k \in 1..N : b[k] = IF k \in B THEN s[k] ELSE a[k]
      <3>1. f \in PeerFields
        BY <1>1 DEF PeerFields
      <3> QED
        BY <3>1 DEF MixesList
    <2>2. \A k \in 1..N : k \notin B => \A j \in 1..(k - 1) : a[k] # a[j]
      <3> SUFFICES ASSUME NEW k \in 1..N, k \notin B, NEW j \in 1..(k - 1) PROVE a[k] # a[j]
        OBVIOUS
      <3>1. f \notin ProblemsAt("server", c, l, k) /\ j \in 1..N
        OBVIOUS
      <3>2. l[k][f] # l[j][f]
        BY <1>1, <3>1, PeerAt
      <3> QED
        BY <3>1, <3>2
    <2>3. \A k, j \in 1..N : k # j => a[k] # s[j] /\ s[k] # s[j]
      BY <1>1 DEF ApartServer
    <2>4. m \in 1..N
      BY <1>1
    <2> HIDE DEF a, b, s, B
    <2>5. b[n] # b[m]
      BY <1>1, <2>1, <2>2, <2>3, ApartMix
    <2> QED
      BY <1>1, <2>4, <2>5 DEF b
  <1>2. ASSUME NEW n \in 1..N PROVE ProblemsAt("server", d, q, n) = {}
    <2> DEFINE W == ProblemsAt("server", c, l, n)
    <2>1. /\ q[n].name = IF "name" \in W THEN p[n].name ELSE l[n].name
          /\ q[n].publicKeyFile = IF "publicKeyFile" \in W THEN p[n].publicKeyFile
                                                           ELSE l[n].publicKeyFile
          /\ q[n].pskFile = IF "pskFile" \in W THEN p[n].pskFile ELSE l[n].pskFile
          /\ q[n].tunnelIP = IF "tunnelIP" \in W THEN p[n].tunnelIP ELSE l[n].tunnelIP
          /\ q[n].maxSessions = IF "maxSessions" \in W THEN p[n].maxSessions
                                                       ELSE l[n].maxSessions
      BY <1>2 DEF MixesList, PeerFields
    <2>2. /\ ~Nameless(p[n]) /\ HasKey(p[n]) /\ HasPSK(p[n])
          /\ p[n].tunnelIP.fam = "v4" /\ Contains(d.subnet, p[n].tunnelIP)
          /\ ~(p[n].maxSessions < 1)
      BY <1>2 DEF SparePeers
    <2>3. /\ "name" \notin W => ~Nameless(l[n])
          /\ "publicKeyFile" \notin W => HasKey(l[n])
          /\ "pskFile" \notin W => HasPSK(l[n])
          /\ "tunnelIP" \notin W => l[n].tunnelIP.fam = "v4" /\ Contains(c.subnet, l[n].tunnelIP)
          /\ "maxSessions" \notin W => ~(l[n].maxSessions < 1)
      BY PeerAt
    <2> HIDE DEF W
    <2>4. /\ q[n].tunnelIP.fam = "v4" /\ Contains(d.subnet, q[n].tunnelIP)
          /\ ~(q[n].maxSessions < 1)
      BY <2>1, <2>2, <2>3
    <2>5. ~Nameless(q[n]) /\ HasKey(q[n]) /\ HasPSK(q[n])
      BY <2>1, <2>2, <2>3, Zenon DEF Nameless, HasKey, HasPSK
    <2>6. /\ "name" \notin ProblemsAt("server", d, q, n)
          /\ "publicKeyFile" \notin ProblemsAt("server", d, q, n)
          /\ "pskFile" \notin ProblemsAt("server", d, q, n)
          /\ "tunnelIP" \notin ProblemsAt("server", d, q, n)
          /\ "maxSessions" \notin ProblemsAt("server", d, q, n)
      BY <1>1, <1>2, <2>4, <2>5, PeerAt
    <2> QED
      BY <2>6, PeerAt DEF PeerFields
  <1> QED
    BY <1>2

-------------------------------------------------------------------------------
\* A round of the loop sees the element it has checked.
LEMMA SeenStep ==
    ASSUME NEW r \in {"client", "server"}, NEW l, NEW k \in Nat \ {0}
    PROVE  See(r, l[k], SeenBefore(r, l, k)) = SeenBefore(r, l, k + 1)
  <1> DEFINE names(n)  == {l[m].name : m \in 1..(n - 1)}
             marks(n)  == IF r = "client" THEN {l[m].fwmark : m \in 1..(n - 1)} ELSE {}
             tables(n) == IF r = "client" THEN {l[m].routingTable : m \in 1..(n - 1)} ELSE {}
             ips(n)    == IF r = "server"
                          THEN {l[m].tunnelIP : m \in {j \in 1..(n - 1) : l[j].tunnelIP.fam = "v4"}}
                          ELSE {}
             before(n) == [name |-> names(n), mark |-> marks(n), table |-> tables(n), ip |-> ips(n)]
  <1>1. ASSUME NEW n PROVE SeenBefore(r, l, n) = before(n)
    BY Zenon DEF SeenBefore
  <1>2. 1..(k + 1 - 1) = 1..(k - 1) \cup {k}
    OBVIOUS
  <1>3. /\ names(k + 1) = names(k) \cup {l[k].name}
        /\ marks(k + 1) = marks(k) \cup (IF r = "client" THEN {l[k].fwmark} ELSE {})
        /\ tables(k + 1) = tables(k) \cup (IF r = "client" THEN {l[k].routingTable} ELSE {})
        /\ ips(k + 1) = ips(k) \cup (IF r = "server" /\ l[k].tunnelIP.fam = "v4"
                                     THEN {l[k].tunnelIP} ELSE {})
    BY <1>2
  <1> HIDE DEF names, marks, tables, ips
  <1>4. See(r, l[k], before(k)) = before(k + 1)
    BY <1>3 DEF See
  <1> QED
    BY <1>1, <1>4

LEMMA NothingSeen ==
    ASSUME NEW r, NEW l
    PROVE  SeenBefore(r, l, 1) = Unseen
  <1>1. 1..(1 - 1) = {}
    OBVIOUS
  <1> QED
    BY <1>1 DEF SeenBefore, Unseen

\* validate up to the loop.
LEMMA ScalarsExact ==
    ASSUME ValidateScalars, i = 1
    PROVE  ErrsExact'
  <1> DEFINE S == ScalarProblems(file.role, opt)
             long == ListProblem(file.role, list)
  <1>1. errs' = {<<0, f>> : f \in S} \cup When(long, <<0, "list">>)
    BY DEF ValidateScalars, ScalarProblems, ListProblem
  <1>2. UNCHANGED <<file, opt, list, i>>
    BY DEF ValidateScalars
  <1> HIDE DEF S, long
  <1>3. ASSUME NEW e PROVE e \in errs' <=> (\E f \in S : e = <<0, f>>) \/ (long /\ e = <<0, "list">>)
    BY <1>1, InWhen
  <1>4. ASSUME NEW f PROVE <<0, f>> \in errs' <=> f \in S \/ (f = "list" /\ long)
    BY <1>3
  <1>5. ASSUME NEW e, e \in errs' PROVE e[1] \in 0..(i' - 1) /\ e = <<e[1], e[2]>>
    BY <1>2, <1>3, <1>5
  <1>6. 1..(i' - 1) = {}
    BY <1>2
  <1> QED
    BY <1>2, <1>4, <1>5, <1>6 DEF ErrsExact, S, long

\* A round of the loop.
LEMMA RoundExact ==
    ASSUME ValidateElement, ErrsExact, i \in Nat \ {0}, seen = SeenBefore(file.role, list, i)
    PROVE  ErrsExact'
  <1> DEFINE P == ProblemsAt(file.role, opt, list, i)
  <1>1. UNCHANGED <<file, opt, list>> /\ i' = i + 1
    BY DEF ValidateElement
  <1>2. errs' = errs \cup {<<i, f>> : f \in P}
    BY DEF ValidateElement, ElementProblems, ProblemsAt
  <1> HIDE DEF P
  <1>3. ASSUME NEW n \in 0..(i - 1), NEW f PROVE <<n, f>> \in errs' <=> <<n, f>> \in errs
    BY <1>2
  <1>4. ASSUME NEW f PROVE <<i, f>> \in errs' <=> f \in P
    <2>1. <<i, f>> \notin errs
      <3>1. <<i, f>>[1] = i /\ i \notin 0..(i - 1)
        OBVIOUS
      <3> QED
        BY <3>1 DEF ErrsExact
    <2> QED
      BY <1>2, <2>1
  <1>5. \A f : <<0, f>> \in errs' <=>
          f \in ScalarProblems(file.role, opt) \/ (f = "list" /\ ListProblem(file.role, list))
    <2>1. 0 \in 0..(i - 1)
      OBVIOUS
    <2> QED
      BY <1>3, <2>1 DEF ErrsExact
  <1>6. \A n \in 1..(i' - 1) : \A f : <<n, f>> \in errs' <=> f \in ProblemsAt(file.role, opt, list, n)
    <2> TAKE n \in 1..(i' - 1)
    <2>1. CASE n = i
      BY <1>4, <2>1 DEF P
    <2>2. CASE n # i
      <3>1. n \in 1..(i - 1) /\ n \in 0..(i - 1)
        BY <1>1, <2>2
      <3> QED
        BY <1>3, <3>1 DEF ErrsExact
    <2> QED
      BY <2>1, <2>2
  <1>7. \A e \in errs' : e[1] \in 0..(i' - 1) /\ e = <<e[1], e[2]>>
    <2> TAKE e \in errs'
    <2>1. CASE e \in errs
      <3>1. e[1] \in 0..(i - 1) /\ e = <<e[1], e[2]>>
        BY <2>1 DEF ErrsExact
      <3> QED
        BY <1>1, <3>1
    <2>2. CASE e \notin errs
      <3>1. PICK f \in P : e = <<i, f>>
        BY <1>2, <2>2
      <3>2. e[1] = i /\ e[2] = f
        BY <3>1
      <3> QED
        BY <1>1, <3>1, <3>2
    <2> QED
      BY <2>1, <2>2
  <1> QED
    BY <1>1, <1>5, <1>6, <1>7 DEF ErrsExact

-------------------------------------------------------------------------------
\* Defaulting looks at each field alone.
Defaulted(f, v) ==
    CASE f \in DOMAIN numDefaults /\ v = 0   -> numDefaults[f]
      [] f \in DOMAIN textDefaults /\ v = "" -> textDefaults[f]
      [] OTHER -> v

LEMMA DefaultedField ==
    ASSUME NEW c
    PROVE  /\ DOMAIN applyDefaults(c) = DOMAIN c
           /\ \A f \in DOMAIN c : applyDefaults(c)[f] = Defaulted(f, c[f])
  BY Zenon DEF applyDefaults, Defaulted

LEMMA NotDefaulted ==
    ASSUME NEW f \in {"subnet", "address"}, NEW v
    PROVE  Defaulted(f, v) = v
  <1>1. f \notin DOMAIN textDefaults
    BY DEF textDefaults
  <1>2. f \notin DOMAIN numDefaults
    BY SMT DEF numDefaults, commonDefaults, clientDefaults, serverDefaults
  <1> QED
    BY <1>1, <1>2 DEF Defaulted

\* What a refusal has reported, as a function of the file.
LEMMA ReportedScalar ==
    ASSUME FileInv, LoadInv, at = "refused", NEW f, f # "list"
    PROVE  Reported(0, f) <=> Taken(f, ScalarProblems(file.role, applyDefaults(file.opt)))
  <1>1. opt = applyDefaults(file.opt) /\ ErrsExact
    BY DEF LoadInv
  <1> DEFINE S == ScalarProblems(file.role, opt)
  <1>2. ASSUME NEW g, g # "list" PROVE <<0, g>> \in errs <=> g \in S
    BY <1>1, <1>2 DEF ErrsExact
  <1>3. "rates" # "list" /\ (f \in Rates => f \notin S)
    BY ScalarRange
  <1> HIDE DEF S
  <1>4. Reported(0, f) <=> Taken(f, S)
    BY <1>2, <1>3 DEF Reported, Taken
  <1> QED
    BY <1>1, <1>4 DEF S

LEMMA ReportedList ==
    ASSUME FileInv, LoadInv, at = "refused"
    PROVE  Reported(0, "list") <=> ListProblem(file.role, file.list)
  <1>1. list = file.list /\ ErrsExact
    BY DEF LoadInv
  <1>2. "list" \notin ScalarProblems(file.role, opt) /\ "list" \notin Rates
    BY ScalarRange DEF Rates
  <1> QED
    BY <1>1, <1>2 DEF ErrsExact, Reported

LEMMA ReportedElement ==
    ASSUME FileInv, LoadInv, at = "refused", NEW n \in 1..Len(file.list), NEW f, f \notin Rates
    PROVE  Reported(n, f) <=>
             f \in ProblemsAt(file.role, applyDefaults(file.opt), file.list, n)
  <1>1. list = file.list /\ opt = applyDefaults(file.opt) /\ ErrsExact /\ i = Len(list) + 1
    BY DEF LoadInv
  <1>2. Len(list) \in Nat
    BY <1>1, SeqDomain DEF FileInv, Repairable
  <1>3. n \in 1..(i - 1)
    BY <1>1, <1>2
  <1>4. <<n, f>> \in errs <=> f \in ProblemsAt(file.role, opt, list, n)
    BY <1>1, <1>3 DEF ErrsExact
  <1> QED
    BY <1>1, <1>4 DEF Reported

-------------------------------------------------------------------------------
\* The repaired scalars of a client.
LEMMA ClientOpt ==
    ASSUME FileInv, LoadInv, at = "refused", file.role = "client"
    PROVE  LET c == applyDefaults(file.opt)
               d == applyDefaults(RepairedOpt)
               E == ScalarProblems("client", c)
           IN  /\ ClientFields \subseteq DOMAIN RepairedOpt
               /\ validateClient(d) \subseteq {"queueDelayTarget"}
               /\ "rates" \notin E => validateClient(d) = {}
               /\ \/ d.tunnelTable = c.tunnelTable
                  \/ d.tunnelTable = applyDefaults(Spare.client.opt).tunnelTable
  <1> DEFINE c == applyDefaults(file.opt)
             d == applyDefaults(RepairedOpt)
             s == applyDefaults(Spare.client.opt)
             E == ScalarProblems("client", c)
  <1>1. ClientFields \subseteq DOMAIN file.opt /\ ClientFields \subseteq DOMAIN Spare.client.opt
    BY CarefulAssumption DEF FileInv, Repairable, CarefulClient
  <1>2. DOMAIN RepairedOpt = DOMAIN file.opt
    BY DEF RepairedOpt
  <1>3. DOMAIN c = DOMAIN file.opt /\ DOMAIN d = DOMAIN file.opt /\ DOMAIN s = DOMAIN Spare.client.opt
    BY <1>2, DefaultedField
  <1>4. "list" \notin ClientFields /\ "tunnelTable" \in ClientFields /\ "tunnelTable" \notin Rates
    BY FieldNames DEF ClientFields, CommonFields, Rates
  <1>5. ASSUME NEW f \in ClientFields PROVE d[f] = IF Taken(f, E) THEN s[f] ELSE c[f]
    <2>1. Reported(0, f) <=> Taken(f, E)
      BY <1>4, ReportedScalar
    <2>2. RepairedOpt[f] = IF Taken(f, E) THEN Spare.client.opt[f] ELSE file.opt[f]
      BY <1>1, <2>1 DEF RepairedOpt
    <2>3. /\ d[f] = Defaulted(f, RepairedOpt[f])
          /\ c[f] = Defaulted(f, file.opt[f])
          /\ s[f] = Defaulted(f, Spare.client.opt[f])
      BY <1>1, <1>2, DefaultedField
    <2> HIDE DEF c, d, s, E
    <2> QED
      BY <2>2, <2>3
  <1>6. Mixes(d, c, s, E, ClientFields)
    <2> HIDE DEF c, d, s, E
    <2> QED
      BY <1>1, <1>3, <1>5 DEF Mixes
  <1>7. /\ validateClient(s) = {} /\ checkMetricsAddr(s.metricsAddr, FALSE)
    BY CarefulAssumption DEF CarefulClient
  <1>8. validateClient(c) \subseteq E /\ "metricsAllowPublic" \notin E
    BY ScalarRange DEF ScalarProblems
  <1>9. d.tunnelTable = c.tunnelTable \/ d.tunnelTable = s.tunnelTable
    BY <1>4, <1>5
  <1> HIDE DEF c, d, s, E
  <1>10. /\ validateClient(d) \subseteq {"queueDelayTarget"}
         /\ "rates" \notin E => validateClient(d) = {}
    BY <1>6, <1>7, <1>8, ClientMix
  <1> QED
    BY <1>1, <1>2, <1>9, <1>10 DEF c, d, s, E

\* The scalars the operator writes for a server.
ServerRepair ==
    IF Reported(0, "address")
    THEN [RepairedOpt EXCEPT !.address.net = RepairedOpt.subnet.net,
                             !.address.bits = RepairedOpt.subnet.bits]
    ELSE RepairedOpt

LEMMA ServerOpt ==
    ASSUME FileInv, LoadInv, at = "refused", file.role = "server"
    PROVE  LET c == applyDefaults(file.opt)
               d == applyDefaults(ServerRepair)
               E == ScalarProblems("server", c)
           IN  /\ ServerFields \subseteq DOMAIN ServerRepair
               /\ validateServer(d) \subseteq {"queueDelayTarget", "address"}
               /\ "rates" \notin E /\ "subnet" \notin E => validateServer(d) = {}
               /\ d.subnet = ServerRepair.subnet /\ d.subnet.fam = "v4"
               /\ d.maxPendingHandshakes \in Int
               /\ "subnet" \notin E => d.subnet = c.subnet
  <1> DEFINE c == applyDefaults(file.opt)
             d == applyDefaults(ServerRepair)
             s == applyDefaults(Spare.server.opt)
             E == ScalarProblems("server", c)
             F == ServerFields \ {"address"}
  <1>1. ServerFields \subseteq DOMAIN file.opt /\ ServerFields \subseteq DOMAIN Spare.server.opt
    BY CarefulAssumption DEF FileInv, Repairable, CarefulServer
  <1>2. DOMAIN RepairedOpt = DOMAIN file.opt
    BY DEF RepairedOpt
  <1>3. DOMAIN ServerRepair = DOMAIN file.opt
    BY <1>2 DEF ServerRepair
  <1>4. DOMAIN c = DOMAIN file.opt /\ DOMAIN d = DOMAIN file.opt /\ DOMAIN s = DOMAIN Spare.server.opt
    BY <1>3, DefaultedField
  <1>5. /\ "list" \notin ServerFields /\ {"subnet", "address"} \subseteq ServerFields
        /\ "subnet" \notin Rates /\ "address" \notin Rates /\ "subnet" # "address"
    BY FieldNames DEF ServerFields, CommonFields, Rates
  <1>6. ASSUME NEW f \in ServerFields
        PROVE  /\ RepairedOpt[f] = IF Taken(f, E) THEN Spare.server.opt[f] ELSE file.opt[f]
               /\ d[f] = Defaulted(f, ServerRepair[f])
               /\ c[f] = Defaulted(f, file.opt[f])
               /\ s[f] = Defaulted(f, Spare.server.opt[f])
    <2>1. Reported(0, f) <=> Taken(f, E)
      BY <1>5, ReportedScalar
    <2> QED
      BY <1>1, <1>3, <2>1, DefaultedField DEF RepairedOpt
  <1>7. ASSUME NEW f \in F PROVE d[f] = IF Taken(f, E) THEN s[f] ELSE c[f]
    <2>1. ServerRepair[f] = RepairedOpt[f]
      BY <1>1, <1>2 DEF ServerRepair
    <2> HIDE DEF c, d, s, E
    <2> QED
      BY <1>6, <2>1
  <1>8. Mixes(d, c, s, E, F)
    <2> HIDE DEF c, d, s, E
    <2> QED
      BY <1>1, <1>4, <1>7 DEF Mixes
  <1>9. /\ validateServer(s) = {} /\ checkMetricsAddr(s.metricsAddr, FALSE)
        /\ s.maxPendingPerSource = 1 /\ s.wanInterface \in required
        /\ {"fam", "net", "bits"} \subseteq DOMAIN s.address
    BY CarefulAssumption DEF CarefulServer
  <1>10. validateServer(c) \subseteq E /\ "metricsAllowPublic" \notin E /\ "manageNAT" \notin E
         /\ ("maxPendingHandshakes" \in E => c.maxPendingHandshakes \notin Positive)
    BY ScalarRange DEF ScalarProblems
  <1>11. c.maxPendingHandshakes \in Int
    BY DEF FileInv, Repairable
  <1>12. /\ d.subnet = ServerRepair.subnet /\ c.subnet = file.opt.subnet
         /\ d.address = ServerRepair.address /\ c.address = file.opt.address
         /\ s.address = Spare.server.opt.address
    BY <1>5, <1>6, NotDefaulted
  <1>13. /\ ServerRepair.subnet = RepairedOpt.subnet
         /\ d.subnet = IF "subnet" \in E THEN s.subnet ELSE c.subnet
    BY <1>1, <1>2, <1>5, <1>7 DEF ServerRepair, Taken
  <1>14. RepairedOpt.address = IF "address" \in E THEN s.address ELSE c.address
    BY <1>5, <1>6, <1>12 DEF Taken
  <1>15. Reported(0, "address") <=> "address" \in E
    BY <1>5, ReportedScalar DEF Taken
  <1> HIDE DEF c, d, s, E
  <1>16. Fitted(d, c, s, E)
    <2>1. CASE "address" \in E
      <3>1. ServerRepair.address = [s.address EXCEPT !.net = RepairedOpt.subnet.net,
                                                     !.bits = RepairedOpt.subnet.bits]
        BY <1>1, <1>2, <1>5, <1>14, <1>15, <2>1 DEF ServerRepair
      <3>2. /\ ServerRepair.address.fam = s.address.fam
            /\ ServerRepair.address.net = RepairedOpt.subnet.net
            /\ ServerRepair.address.bits = RepairedOpt.subnet.bits
        BY <1>9, <3>1
      <3> QED
        BY <1>12, <1>13, <2>1, <3>2 DEF Fitted
    <2>2. CASE "address" \notin E
      <3>1. ServerRepair = RepairedOpt
        BY <1>15, <2>2 DEF ServerRepair
      <3> QED
        BY <1>12, <1>14, <2>2, <3>1 DEF Fitted
    <2> QED
      BY <2>1, <2>2
  <1>17. /\ validateServer(d) \subseteq {"queueDelayTarget", "address"}
         /\ "rates" \notin E /\ "subnet" \notin E => validateServer(d) = {}
         /\ d.subnet.fam = "v4"
         /\ d.maxPendingHandshakes \in Int
    BY <1>8, <1>9, <1>10, <1>11, <1>16, ServerMix
  <1> QED
    BY <1>1, <1>3, <1>12, <1>13, <1>17 DEF c, d, s, E

-------------------------------------------------------------------------------
\* How long the repaired list is.
RepairedLen == IF Reported(0, "list") THEN maxPaths ELSE Len(file.list)

LEMMA RepairedLength ==
    ASSUME FileInv, LoadInv, at = "refused", file.list # << >>
    PROVE  /\ RepairedLen \in 1..Len(file.list)
           /\ file.role = "client" => RepairedLen <= maxPaths
           /\ Len(file.list) \in Nat /\ DOMAIN file.list = 1..Len(file.list)
           /\ Len(file.list) <= Len(Spare[file.role].list)
  <1>1. Len(file.list) \in Nat /\ DOMAIN file.list = 1..Len(file.list)
        /\ Len(file.list) <= Len(Spare[file.role].list)
    BY SeqDomain DEF FileInv, Repairable
  <1>2. Len(file.list) >= 1
    BY DEF FileInv, Repairable, IsSeq
  <1>3. Reported(0, "list") <=> file.role = "client" /\ Len(file.list) > maxPaths
    BY ReportedList DEF ListProblem
  <1> QED
    BY <1>1, <1>2, <1>3 DEF RepairedLen, maxPaths

\* The list the operator writes, element by element.
LEMMA RepairedElements ==
    ASSUME FileInv, LoadInv, at = "refused", file.list # << >>, NEW d
    PROVE  LET q == RepairedList(d)
           IN  /\ IsSeq(q) /\ Len(q) = RepairedLen /\ DOMAIN q = 1..RepairedLen
               /\ \A n \in 1..RepairedLen :
                    /\ DOMAIN q[n] = DOMAIN file.list[n]
                    /\ \A f \in DOMAIN file.list[n] : f \notin Rates =>
                         q[n][f] = IF f \in ProblemsAt(file.role, applyDefaults(file.opt),
                                                       file.list, n)
                                   THEN SpareElement(n, d)[f] ELSE file.list[n][f]
  <1> DEFINE q == RepairedList(d)
  <1>1. q = [n \in 1..RepairedLen |-> RepairedElement(n, d)]
    BY DEF RepairedList, RepairedLen
  <1>2. RepairedLen \in Nat /\ 1..RepairedLen \subseteq 1..Len(file.list)
    BY RepairedLength
  <1>3. IsSeq(q) /\ Len(q) = RepairedLen /\ DOMAIN q = 1..RepairedLen
    <2>1. IsSeq(q)
      BY RepairedIsSeq DEF FileInv, Repairable
    <2>2. DOMAIN q = 1..RepairedLen
      BY <1>1
    <2> HIDE DEF q
    <2>3. DOMAIN q = 1..Len(q) /\ Len(q) \in Nat
      BY <2>1, SeqDomain
    <2> QED
      BY <1>2, <2>1, <2>2, <2>3
  <1>4. ASSUME NEW n \in 1..RepairedLen, NEW f \in DOMAIN file.list[n], f \notin Rates
        PROVE  q[n][f] = IF f \in ProblemsAt(file.role, applyDefaults(file.opt), file.list, n)
                         THEN SpareElement(n, d)[f] ELSE file.list[n][f]
    <2>1. q[n][f] = IF Reported(n, f) THEN SpareElement(n, d)[f] ELSE file.list[n][f]
      BY <1>1, <1>4 DEF RepairedElement
    <2>2. Reported(n, f) <=>
            f \in ProblemsAt(file.role, applyDefaults(file.opt), file.list, n)
      BY <1>2, <1>4, ReportedElement
    <2> QED
      BY <2>1, <2>2
  <1>5. ASSUME NEW n \in 1..RepairedLen PROVE DOMAIN q[n] = DOMAIN file.list[n]
    BY <1>1, <1>5 DEF RepairedElement
  <1> QED
    BY <1>3, <1>4, <1>5

\* The spare elements of a client are apart from one another and from the file's.
LEMMA SpareClient ==
    /\ Len(Spare.client.list) \in Nat \ {0}
    /\ DOMAIN Spare.client.list = 1..Len(Spare.client.list)
    /\ \A n \in DOMAIN Spare.client.list :
         /\ DOMAIN Spare.client.list[n] = InterfaceFields
         /\ validateInterface(Spare.client.list[n], applyDefaults(Spare.client.opt), Unseen) = {}
    /\ FreshClient(Spare.client.opt, Spare.client.list)
  <1>1. Spare.client.list \in Seq(Interface) /\ Spare.client.list # << >>
    BY CarefulAssumption DEF CarefulClient
  <1>2. ASSUME NEW e \in Interface PROVE DOMAIN e = InterfaceFields
    BY <1>2 DEF Interface, InterfaceFields
  <1>3. \A n \in DOMAIN Spare.client.list : Spare.client.list[n] \in Interface
    BY <1>1
  <1>4. /\ Len(Spare.client.list) \in Nat \ {0}
        /\ DOMAIN Spare.client.list = 1..Len(Spare.client.list)
    BY <1>1
  <1>5. /\ \A n \in DOMAIN Spare.client.list :
             validateInterface(Spare.client.list[n], applyDefaults(Spare.client.opt), Unseen) = {}
        /\ FreshClient(Spare.client.opt, Spare.client.list)
    BY CarefulAssumption DEF CarefulClient
  <1> QED
    BY <1>2, <1>3, <1>4, <1>5

LEMMA ClientList ==
    ASSUME FileInv, LoadInv, at = "refused", file.role = "client"
    PROVE  LET d == applyDefaults(RepairedOpt)
               q == RepairedList(RepairedOpt)
           IN  /\ Repairable("client", RepairedOpt, q)
               /\ ~ListProblem("client", q)
               /\ \A n \in 1..Len(q) : ProblemsAt("client", d, q, n) = {}
  <1> DEFINE c == applyDefaults(file.opt)
             d == applyDefaults(RepairedOpt)
             o == applyDefaults(Spare.client.opt)
             l == file.list
             p == Spare.client.list
             q == RepairedList(RepairedOpt)
  <1>1. d.tunnelTable = c.tunnelTable \/ d.tunnelTable = o.tunnelTable
    BY ClientOpt
  <1>2. ClientFields \subseteq DOMAIN RepairedOpt
    BY ClientOpt
  <1>3. /\ \A n \in DOMAIN l, m \in DOMAIN p : n # m =>
             /\ l[n].name # p[m].name
             /\ l[n].fwmark # p[m].fwmark
             /\ l[n].routingTable # p[m].routingTable
        /\ \A m \in DOMAIN p : c.tunnelTable # p[m].routingTable
        /\ \A n \in DOMAIN l : l[n].routingTable # o.tunnelTable
    BY DEF FileInv, Repairable, FreshClient
  <1>4. /\ \A n \in DOMAIN p, m \in DOMAIN p : n # m =>
             /\ p[n].name # p[m].name
             /\ p[n].fwmark # p[m].fwmark
             /\ p[n].routingTable # p[m].routingTable
        /\ \A m \in DOMAIN p : o.tunnelTable # p[m].routingTable
    BY SpareClient DEF FreshClient
  <1>5. \A m \in DOMAIN p : d.tunnelTable # p[m].routingTable
    BY <1>1, <1>3, <1>4
  <1>6. \A m \in DOMAIN p : validateInterface(p[m], o, Unseen) = {}
    BY SpareClient
  <1>7. CASE l = << >>
    <2>1. q = <<p[1]>>
      BY <1>7 DEF RepairedList, SpareElement
    <2>2. Len(q) = 1 /\ q[1] = p[1] /\ DOMAIN q = {1} /\ IsSeq(q) /\ q # << >>
      <3> HIDE DEF q, p
      <3>1. q \in Seq({p[1]}) /\ Len(q) = 1 /\ q[1] = p[1] /\ q # << >>
        BY <2>1
      <3>2. IsSeq(q)
        BY <3>1, SeqIsSeq
      <3>3. DOMAIN q = {1}
        BY <2>1
      <3> QED
        BY <3>1, <3>2, <3>3
    <2>3. 1 \in DOMAIN p /\ Len(p) \in Nat \ {0} /\ DOMAIN p[1] = InterfaceFields
      BY SpareClient
    <2> HIDE DEF c, d, o, q
    <2>4. \A n \in 1..1 : ProblemsAt("client", d, q, n) = {}
      <3>1. MixesList("client", q, c, q, q, 1, InterfaceFields)
        BY DEF MixesList
      <3>2. ApartClient(q, q, 1)
        BY DEF ApartClient
      <3>3. SpareTables(c, o, q, q, 1)
        <4>1. /\ q[1].routingTable # c.tunnelTable
              /\ q[1].routingTable # o.tunnelTable
              /\ validateInterface(q[1], o, Unseen) = {}
          BY <1>3, <1>4, <1>6, <2>2, <2>3
        <4> QED
          BY <4>1 DEF SpareTables
      <3> QED
        BY <1>1, <3>1, <3>2, <3>3, InterfacesMix
    <2>5. FreshClient(RepairedOpt, q)
      BY <1>4, <1>5, <2>2, <2>3 DEF FreshClient, d, o
    <2>6. Repairable("client", RepairedOpt, q)
      BY <1>2, <2>2, <2>3, <2>5 DEF Repairable
    <2>7. ~ListProblem("client", q)
      BY <2>2 DEF ListProblem, maxPaths
    <2> QED
      BY <2>2, <2>4, <2>6, <2>7 DEF c, d, o, q
  <1>8. CASE l # << >>
    <2> DEFINE N == RepairedLen
    <2>1. N \in 1..Len(l) /\ N <= maxPaths /\ N \in Nat /\ Len(l) <= Len(p)
          /\ Len(l) \in Nat /\ DOMAIN l = 1..Len(l)
      BY <1>8, RepairedLength
    <2>2. DOMAIN p = 1..Len(p) /\ Len(p) \in Nat
      BY SpareClient
    <2>3. /\ IsSeq(q) /\ Len(q) = N /\ DOMAIN q = 1..N
          /\ \A n \in 1..N : DOMAIN q[n] = InterfaceFields
          /\ MixesList("client", q, c, l, p, N, InterfaceFields)
      <3>1. \A n \in 1..N : DOMAIN l[n] = InterfaceFields
        BY <2>1 DEF FileInv, Repairable
      <3>2. \A f \in InterfaceFields : f \notin Rates
        BY DEF InterfaceFields, Rates
      <3>3. \A n : SpareElement(n, RepairedOpt) = p[n]
        BY DEF SpareElement
      <3> QED
        BY <1>8, <3>1, <3>2, <3>3, RepairedElements DEF MixesList
    <2>4. \A n \in 1..N : n \in DOMAIN l /\ n \in DOMAIN p
      BY <2>1, <2>2
    <2> HIDE DEF c, d, o, q, p, l, N
    <2>5. ApartClient(l, p, N) /\ ApartClient(p, p, N)
      BY <1>3, <1>4, <2>4 DEF ApartClient
    <2>6. SpareTables(c, o, l, p, N)
      BY <1>3, <1>6, <2>4 DEF SpareTables
    <2>7. \A n \in 1..N : ProblemsAt("client", d, q, n) = {}
      BY <1>1, <2>1, <2>3, <2>5, <2>6, InterfacesMix
    <2>8. ASSUME NEW n \in 1..N, NEW f \in {"name", "fwmark", "routingTable"}
          PROVE  q[n][f] = l[n][f] \/ q[n][f] = p[n][f]
      <3>1. f \in InterfaceFields
        BY <2>8 DEF InterfaceFields
      <3> QED
        BY <2>3, <2>8, <3>1 DEF MixesList
    <2>9. ASSUME NEW n \in 1..N, NEW m \in DOMAIN p, n # m, NEW f \in {"name", "fwmark", "routingTable"}
          PROVE  q[n][f] # p[m][f]
      <3>1. l[n][f] # p[m][f] /\ p[n][f] # p[m][f]
        BY <1>3, <1>4, <2>4, <2>9
      <3> QED
        BY <2>8, <2>9, <3>1
    <2>10. \A n \in 1..N : q[n].routingTable # o.tunnelTable
      BY <1>3, <1>4, <2>4, <2>8
    <2>11. FreshClient(RepairedOpt, q)
      <3>1. \A n \in DOMAIN q, m \in DOMAIN p : n # m =>
             /\ q[n].name # p[m].name
             /\ q[n].fwmark # p[m].fwmark
             /\ q[n].routingTable # p[m].routingTable
        BY <2>3, <2>9
      <3> QED
        BY <1>5, <2>3, <2>10, <3>1 DEF FreshClient, d, o, p
    <2>12. Repairable("client", RepairedOpt, q)
      <3>1. Len(q) <= Len(p)
        BY <2>1, <2>2, <2>3
      <3> QED
        BY <1>2, <2>3, <2>11, <3>1 DEF Repairable, p
    <2>13. ~ListProblem("client", q)
      <3>1. q # << >>
        BY <2>1, <2>3
      <3> QED
        BY <2>1, <2>3, <3>1 DEF ListProblem, maxPaths
    <2> QED
      BY <2>3, <2>7, <2>12, <2>13 DEF d, q
  <1> QED
    BY <1>7, <1>8

\* The spare peers, moved into a subnet.
SparePeer(n, net) == [Spare.server.list[n] EXCEPT !.tunnelIP.net = net]

LEMMA SpareServer ==
    /\ Len(Spare.server.list) \in Nat \ {0}
    /\ DOMAIN Spare.server.list = 1..Len(Spare.server.list)
    /\ FreshServer(Spare.server.list)
    /\ \A n \in DOMAIN Spare.server.list : \A net :
         LET e == Spare.server.list[n]
             x == SparePeer(n, net)
         IN  /\ DOMAIN x = PeerFields
             /\ ~Nameless(x) /\ HasKey(x) /\ HasPSK(x) /\ ~(x.maxSessions < 1)
             /\ x.name = e.name
             /\ x.tunnelIP.fam = "v4" /\ x.tunnelIP.net = net
             /\ x.tunnelIP.host = e.tunnelIP.host
  <1>1. Spare.server.list \in Seq(Peer) /\ Spare.server.list # << >>
    BY CarefulAssumption DEF CarefulServer
  <1>2. /\ Len(Spare.server.list) \in Nat \ {0}
        /\ DOMAIN Spare.server.list = 1..Len(Spare.server.list)
    BY <1>1
  <1>3. /\ \A n \in DOMAIN Spare.server.list :
             validatePeer(Spare.server.list[n], applyDefaults(Spare.server.opt), Unseen) = {}
        /\ FreshServer(Spare.server.list)
    BY CarefulAssumption DEF CarefulServer
  <1>4. ASSUME NEW n \in DOMAIN Spare.server.list, NEW net
        PROVE  LET e == Spare.server.list[n]
                   x == SparePeer(n, net)
               IN  /\ DOMAIN x = PeerFields
                   /\ ~Nameless(x) /\ HasKey(x) /\ HasPSK(x) /\ ~(x.maxSessions < 1)
                   /\ x.name = e.name
                   /\ x.tunnelIP.fam = "v4" /\ x.tunnelIP.net = net
                   /\ x.tunnelIP.host = e.tunnelIP.host
    <2> DEFINE e == Spare.server.list[n]
               x == SparePeer(n, net)
    <2>1. e \in Peer
      BY <1>1
    <2>2. ~Nameless(e) /\ HasKey(e) /\ HasPSK(e) /\ e.tunnelIP.fam = "v4" /\ ~(e.maxSessions < 1)
      BY <1>3, PeerProblems
    <2>3. x = [e EXCEPT !.tunnelIP.net = net]
      BY DEF SparePeer
    <2> HIDE DEF e, x
    <2>4. DOMAIN e = PeerFields /\ DOMAIN e.tunnelIP = {"fam", "net", "host"}
      BY <2>1 DEF Peer, Addr, PeerFields
    <2>5. /\ DOMAIN x = PeerFields
          /\ x.name = e.name /\ x.publicKeyFile = e.publicKeyFile /\ x.pskFile = e.pskFile
          /\ x.maxSessions = e.maxSessions
          /\ x.tunnelIP = [e.tunnelIP EXCEPT !.net = net]
      BY <2>3, <2>4 DEF PeerFields
    <2>6. /\ x.tunnelIP.fam = "v4" /\ x.tunnelIP.net = net
          /\ x.tunnelIP.host = e.tunnelIP.host
      BY <2>2, <2>4, <2>5
    <2>7. ~Nameless(x) /\ HasKey(x) /\ HasPSK(x)
      BY <2>2, <2>5, Zenon DEF Nameless, HasKey, HasPSK
    <2> QED
      BY <2>2, <2>5, <2>6, <2>7 DEF e, x
  <1> QED
    BY <1>2, <1>3, <1>4

LEMMA ServerList ==
    ASSUME FileInv, LoadInv, at = "refused", file.role = "server"
    PROVE  LET d == applyDefaults(ServerRepair)
               q == RepairedList(ServerRepair)
           IN  /\ Repairable("server", ServerRepair, q)
               /\ ~ListProblem("server", q)
               /\ "subnet" \notin ScalarProblems("server", applyDefaults(file.opt)) =>
                    \A n \in 1..Len(q) : ProblemsAt("server", d, q, n) = {}
  <1> DEFINE c == applyDefaults(file.opt)
             d == applyDefaults(ServerRepair)
             E == ScalarProblems("server", c)
             l == file.list
             t == Spare.server.list
             p == [n \in DOMAIN t |-> SparePeer(n, ServerRepair.subnet.net)]
             q == RepairedList(ServerRepair)
  <1>1. /\ ServerFields \subseteq DOMAIN ServerRepair /\ d.maxPendingHandshakes \in Int
        /\ d.subnet = ServerRepair.subnet /\ d.subnet.fam = "v4"
        /\ "subnet" \notin E => d.subnet = c.subnet
    BY ServerOpt
  <1>2. \A n \in DOMAIN l, m \in DOMAIN t : n # m =>
          l[n].name # t[m].name /\ l[n].tunnelIP.host # t[m].tunnelIP.host
    BY DEF FileInv, Repairable, FreshServer
  <1>3. \A n \in DOMAIN t, m \in DOMAIN t : n # m =>
          t[n].name # t[m].name /\ t[n].tunnelIP.host # t[m].tunnelIP.host
    BY SpareServer DEF FreshServer
  <1>4. \A n \in DOMAIN t :
          /\ DOMAIN p[n] = PeerFields
          /\ ~Nameless(p[n]) /\ HasKey(p[n]) /\ HasPSK(p[n]) /\ ~(p[n].maxSessions < 1)
          /\ p[n].name = t[n].name
          /\ p[n].tunnelIP.fam = "v4" /\ p[n].tunnelIP.net = ServerRepair.subnet.net
          /\ p[n].tunnelIP.host = t[n].tunnelIP.host
    BY SpareServer
  <1>5. \A n \in DOMAIN t : p[n].tunnelIP.fam = "v4" /\ Contains(d.subnet, p[n].tunnelIP)
    BY <1>1, <1>4 DEF Contains
  <1>6. \A n \in DOMAIN t : SpareElement(n, ServerRepair) = p[n]
    BY DEF SpareElement, SparePeer
  <1>7. CASE l = << >>
    <2>1. 1 \in DOMAIN t /\ Len(t) \in Nat \ {0}
      BY SpareServer
    <2>2. q = <<p[1]>>
      BY <1>6, <1>7, <2>1 DEF RepairedList
    <2> HIDE DEF c, d, E, p, t, q, l
    <2>3. q \in Seq({p[1]}) /\ Len(q) = 1 /\ q[1] = p[1] /\ q # << >> /\ DOMAIN q = {1}
      BY <2>2
    <2>4. IsSeq(q)
      BY <2>3, SeqIsSeq
    <2>5. \A n \in 1..1 : ProblemsAt("server", d, q, n) = {}
      <3>1. MixesList("server", q, d, q, q, 1, PeerFields)
        BY DEF MixesList
      <3>2. ApartServer(q, q, 1)
        BY DEF ApartServer
      <3>3. SparePeers(d, q, 1)
        BY <1>4, <1>5, <2>1, <2>3 DEF SparePeers
      <3> QED
        BY <1>1, <3>1, <3>2, <3>3, PeersMix
    <2>6. FreshServer(q)
      BY <1>3, <1>4, <2>1, <2>3 DEF FreshServer, t
    <2>7. Repairable("server", ServerRepair, q)
      BY <1>1, <1>4, <2>1, <2>3, <2>4, <2>6 DEF Repairable, d, t
    <2>8. ~ListProblem("server", q)
      BY <2>3 DEF ListProblem
    <2> QED
      BY <2>3, <2>5, <2>7, <2>8 DEF c, d, E, q
  <1>8. CASE l # << >>
    <2> DEFINE N == RepairedLen
    <2>1. N \in 1..Len(l) /\ N \in Nat /\ Len(l) <= Len(t)
          /\ Len(l) \in Nat /\ DOMAIN l = 1..Len(l)
      BY <1>8, RepairedLength
    <2>2. DOMAIN t = 1..Len(t) /\ Len(t) \in Nat
      BY SpareServer
    <2>3. \A n \in 1..N : n \in DOMAIN l /\ n \in DOMAIN t
      BY <2>1, <2>2
    <2>4. /\ IsSeq(q) /\ Len(q) = N /\ DOMAIN q = 1..N
          /\ \A n \in 1..N : DOMAIN q[n] = PeerFields
          /\ MixesList("server", q, c, l, p, N, PeerFields)
      <3>1. \A n \in 1..N : DOMAIN l[n] = PeerFields
        BY <2>3 DEF FileInv, Repairable
      <3>2. \A f \in PeerFields : f \notin Rates
        BY DEF PeerFields, Rates
      <3> HIDE DEF p, t
      <3> QED
        BY <1>6, <1>8, <2>3, <3>1, <3>2, RepairedElements DEF MixesList
    <2> HIDE DEF c, d, E, q, p, t, l, N
    <2>5. ApartServer(l, p, N) /\ ApartServer(p, p, N)
      <3>1. \A n, m \in 1..N : n # m =>
              l[n].name # p[m].name /\ l[n].tunnelIP.host # p[m].tunnelIP.host
        BY <1>2, <1>4, <2>3
      <3>2. \A n, m \in 1..N : n # m =>
              p[n].name # p[m].name /\ p[n].tunnelIP.host # p[m].tunnelIP.host
        BY <1>3, <1>4, <2>3
      <3> QED
        BY <3>1, <3>2 DEF ApartServer
    <2>6. SparePeers(d, p, N)
      BY <1>4, <1>5, <2>3 DEF SparePeers
    <2>7. "subnet" \notin E => \A n \in 1..N : ProblemsAt("server", d, q, n) = {}
      BY <1>1, <2>1, <2>4, <2>5, <2>6, PeersMix
    <2>8. ASSUME NEW n \in 1..N
          PROVE  /\ q[n].name = l[n].name \/ q[n].name = p[n].name
                 /\ q[n].tunnelIP = l[n].tunnelIP \/ q[n].tunnelIP = p[n].tunnelIP
      BY <2>4, <2>8 DEF MixesList, PeerFields
    <2>9. \A n \in DOMAIN q, m \in DOMAIN t : n # m =>
            q[n].name # t[m].name /\ q[n].tunnelIP.host # t[m].tunnelIP.host
      BY <1>2, <1>3, <1>4, <2>3, <2>4, <2>8
    <2>10. FreshServer(q)
      BY <2>9 DEF FreshServer, t
    <2>11. Repairable("server", ServerRepair, q)
      <3>1. Len(q) <= Len(t)
        BY <2>1, <2>2, <2>4
      <3> QED
        BY <1>1, <2>4, <2>10, <3>1 DEF Repairable, d, t
    <2>12. ~ListProblem("server", q)
      <3>1. q # << >>
        BY <2>1, <2>4
      <3> QED
        BY <3>1 DEF ListProblem
    <2> QED
      BY <2>4, <2>7, <2>11, <2>12 DEF c, d, E, q
  <1> QED
    BY <1>7, <1>8

-------------------------------------------------------------------------------
\* A repair leaves nothing that hides another problem, and nothing at all if the
\* report had nothing of the kind.
LEMMA RepairIsEnough ==
    ASSUME FileInv, LoadInv, Repair
    PROVE  LET d == applyDefaults(file'.opt)
           IN  /\ FileInv'
               /\ NothingHidden(file'.role, d)
               /\ errs \cap Hiding = {} => Good(file'.role, d, file'.list)
  <1> DEFINE S == ScalarProblems(file.role, applyDefaults(file.opt))
  <1>1. at = "refused"
    BY DEF Repair
  <1>2. errs \cap Hiding = {} => "rates" \notin S /\ "subnet" \notin S
    <2>1. opt = applyDefaults(file.opt) /\ ErrsExact
      BY <1>1 DEF LoadInv
    <2>2. \A f : f \in S => <<0, f>> \in errs
      BY <2>1 DEF ErrsExact
    <2> HIDE DEF S
    <2> QED
      BY <2>2 DEF Hiding
  <1>3. DOMAIN file = {"role", "syntax", "opt", "list"}
    BY DEF FileInv
  <1>4. CASE file.role = "client"
    <2>1. file' = [file EXCEPT !.opt = RepairedOpt, !.list = RepairedList(RepairedOpt)]
      BY <1>4 DEF Repair
    <2>2. /\ file'.role = "client" /\ file'.opt = RepairedOpt
          /\ file'.list = RepairedList(RepairedOpt)
          /\ DOMAIN file' = {"role", "syntax", "opt", "list"}
      BY <1>3, <1>4, <2>1
    <2> DEFINE d == applyDefaults(RepairedOpt)
               q == RepairedList(RepairedOpt)
    <2>3. /\ validateClient(d) \subseteq {"queueDelayTarget"}
          /\ "rates" \notin S => validateClient(d) = {}
      BY <1>1, <1>4, ClientOpt
    <2>4. /\ Repairable("client", RepairedOpt, q)
          /\ ~ListProblem("client", q)
          /\ \A n \in 1..Len(q) : ProblemsAt("client", d, q, n) = {}
      BY <1>1, <1>4, ClientList
    <2> HIDE DEF d, q, S
    <2>5. NothingHidden("client", d)
      BY <2>3 DEF NothingHidden, ScalarProblems
    <2>6. errs \cap Hiding = {} => Good("client", d, q)
      BY <1>2, <2>3, <2>4 DEF Good, ScalarProblems
    <2>7. FileInv'
      BY <2>2, <2>4 DEF FileInv, q
    <2> QED
      BY <2>2, <2>5, <2>6, <2>7 DEF d, q
  <1>5. CASE file.role = "server"
    <2>1. file' = [file EXCEPT !.opt = ServerRepair, !.list = RepairedList(ServerRepair)]
      BY <1>5 DEF Repair, ServerRepair
    <2>2. /\ file'.role = "server" /\ file'.opt = ServerRepair
          /\ file'.list = RepairedList(ServerRepair)
          /\ DOMAIN file' = {"role", "syntax", "opt", "list"}
      BY <1>3, <1>5, <2>1
    <2> DEFINE d == applyDefaults(ServerRepair)
               q == RepairedList(ServerRepair)
    <2>3. /\ validateServer(d) \subseteq {"queueDelayTarget", "address"}
          /\ "rates" \notin S /\ "subnet" \notin S => validateServer(d) = {}
      BY <1>1, <1>5, ServerOpt
    <2>4. /\ Repairable("server", ServerRepair, q)
          /\ ~ListProblem("server", q)
          /\ "subnet" \notin S => \A n \in 1..Len(q) : ProblemsAt("server", d, q, n) = {}
      BY <1>1, <1>5, ServerList
    <2> HIDE DEF d, q, S
    <2>5. NothingHidden("server", d)
      BY <2>3 DEF NothingHidden, ScalarProblems
    <2>6. errs \cap Hiding = {} => Good("server", d, q)
      BY <1>2, <2>3, <2>4 DEF Good, ScalarProblems
    <2>7. FileInv'
      BY <2>2, <2>4 DEF FileInv, q
    <2> QED
      BY <2>2, <2>5, <2>6, <2>7 DEF d, q
  <1> QED
    BY <1>4, <1>5 DEF FileInv, Repairable

\* A file in which there is nothing to find is not refused.
LEMMA GoodIsAccepted ==
    ASSUME LoadInv, Verdict, Good(file.role, applyDefaults(file.opt), file.list), IsSeq(file.list)
    PROVE  errs = {}
  <1>1. /\ opt = applyDefaults(file.opt) /\ list = file.list /\ ErrsExact
        /\ i \in 1..(Len(list) + 1) /\ i > Len(list)
    BY DEF LoadInv, Verdict
  <1>2. Len(list) \in Nat
    BY <1>1, SeqDomain
  <1>3. i - 1 = Len(list)
    BY <1>1, <1>2
  <1> SUFFICES ASSUME NEW e \in errs PROVE FALSE
    OBVIOUS
  <1>4. e[1] \in 0..Len(list) /\ e = <<e[1], e[2]>>
    BY <1>1, <1>3 DEF ErrsExact
  <1>5. CASE e[1] = 0
    <2>1. <<0, e[2]>> \in errs
      BY <1>4, <1>5
    <2> QED
      BY <1>1, <2>1 DEF ErrsExact, Good
  <1>6. CASE e[1] # 0
    <2>1. e[1] \in 1..(i - 1) /\ <<e[1], e[2]>> \in errs /\ e[1] \in 1..Len(list)
      BY <1>2, <1>3, <1>4, <1>6
    <2>2. e[2] \in ProblemsAt(file.role, opt, list, e[1])
      BY <1>1, <2>1 DEF ErrsExact
    <2> QED
      BY <1>1, <2>1, <2>2 DEF Good
  <1> QED
    BY <1>5, <1>6

\* And what is found in one with nothing hidden hides nothing.
LEMMA HidesNothing ==
    ASSUME LoadInv, at = "refused", NothingHidden(file.role, applyDefaults(file.opt))
    PROVE  errs \cap Hiding = {}
  <1>1. opt = applyDefaults(file.opt) /\ ErrsExact
    BY DEF LoadInv
  <1>2. "rates" # "list" /\ "subnet" # "list"
    OBVIOUS
  <1>3. <<0, "rates">> \notin errs /\ <<0, "subnet">> \notin errs
    BY <1>1, <1>2 DEF ErrsExact, NothingHidden
  <1> QED
    BY <1>3 DEF Hiding

-------------------------------------------------------------------------------
LEMMA RepairInvInit == ConfigInit => RepairInv
  <1> SUFFICES ASSUME ConfigInit PROVE RepairInv
    OBVIOUS
  <1>1. file \in Files /\ at = "start" /\ reported = << >>
    BY DEF ConfigInit
  <1>2. /\ DOMAIN file = {"role", "syntax", "opt", "list"}
        /\ file.role \in DOMAIN Element /\ file.list \in Seq(Element[file.role])
        /\ file.role = "server" => file.opt.maxPendingHandshakes \in Int
    BY <1>1, FilesAssumption
  <1>3. file.role \in {"client", "server"} /\ IsSeq(file.list)
    BY <1>2, SeqIsSeq DEF Element
  <1>4. Len(file.list) <= Len(Spare[file.role].list)
    <2>1. /\ Len(Spare[file.role].list) >= Len(file.list)
          /\ Spare[file.role].list \in Seq(Element[file.role])
      BY <1>1, SpareAssumption
    <2> QED
      BY <1>2, <2>1
  <1>5. CASE file.role = "client"
    <2>1. ClientFields \subseteq DOMAIN file.opt /\ FreshClient(file.opt, file.list)
      BY <1>1, <1>5, CarefulAssumption DEF CarefulClient
    <2>2. file.list \in Seq(Interface)
      BY <1>2, <1>5 DEF Element
    <2>3. \A n \in DOMAIN file.list : file.list[n] \in Interface
      BY <2>2
    <2>4. \A n \in DOMAIN file.list : DOMAIN file.list[n] = InterfaceFields
      BY <2>3 DEF Interface, InterfaceFields
    <2> QED
      BY <1>1, <1>2, <1>3, <1>4, <1>5, <2>1, <2>4
         DEF RepairInv, FileInv, Repairable, LoadInv, RoundInv
  <1>6. CASE file.role = "server"
    <2>1. ServerFields \subseteq DOMAIN file.opt /\ FreshServer(file.list)
      BY <1>1, <1>6, CarefulAssumption DEF CarefulServer
    <2>2. file.list \in Seq(Peer)
      BY <1>2, <1>6 DEF Element
    <2>3. \A n \in DOMAIN file.list : file.list[n] \in Peer
      BY <2>2
    <2>4. \A n \in DOMAIN file.list : DOMAIN file.list[n] = PeerFields
      BY <2>3 DEF Peer, PeerFields
    <2>5. applyDefaults(file.opt).maxPendingHandshakes \in Int
      <3> DEFINE f == "maxPendingHandshakes"
                 v == file.opt[f]
      <3>1. f \in DOMAIN file.opt
        BY <2>1, FieldNames DEF ServerFields
      <3>2. applyDefaults(file.opt)[f] = Defaulted(f, v)
        BY <3>1, DefaultedField
      <3>3. v \in Int
        BY <1>2, <1>6
      <3>4. f \notin DOMAIN textDefaults
        BY DEF textDefaults
      <3>5. numDefaults[f] \in Int
        <4>1. /\ f \notin DOMAIN commonDefaults /\ f \notin DOMAIN clientDefaults
              /\ f \in DOMAIN serverDefaults /\ serverDefaults[f] = 256
          BY SMT DEF commonDefaults, clientDefaults, serverDefaults
        <4> QED
          BY <4>1, SMT DEF numDefaults
      <3> HIDE DEF f, v
      <3>6. Defaulted(f, v) \in {v, numDefaults[f]}
        BY <3>4 DEF Defaulted
      <3>7. applyDefaults(file.opt)[f] \in Int
        BY <3>2, <3>3, <3>5, <3>6
      <3> QED
        BY <3>7 DEF f
    <2> QED
      BY <1>1, <1>2, <1>3, <1>4, <1>6, <2>1, <2>4, <2>5
         DEF RepairInv, FileInv, Repairable, LoadInv, RoundInv
  <1> QED
    BY <1>3, <1>5, <1>6

LEMMA FileStep == FileInv /\ LoadInv /\ [ConfigNext]_configVars => FileInv'
  <1> SUFFICES ASSUME FileInv, LoadInv, [ConfigNext]_configVars PROVE FileInv'
    OBVIOUS
  <1>1. CASE Repair
    BY <1>1, RepairIsEnough
  <1>2. CASE RepairSyntax
    <2>1. /\ file'.role = file.role /\ file'.opt = file.opt /\ file'.list = file.list
          /\ DOMAIN file' = DOMAIN file
      BY <1>2 DEF RepairSyntax, FileInv
    <2> QED
      BY <2>1 DEF FileInv
  <1>3. CASE UNCHANGED file
    BY <1>3 DEF FileInv
  <1> QED
    BY <1>1, <1>2, <1>3 DEF ConfigNext, configVars, LoadFile, decodeStrict, Defaulting, ValidateScalars,
                            ValidateElement, Verdict

\* The decoded configuration is the file's, and the loop has reported what it found.
LEMMA LoadStep == IInv /\ FileInv /\ LoadInv /\ [ConfigNext]_configVars => LoadInv'
  <1> SUFFICES ASSUME IInv, FileInv, LoadInv, [ConfigNext]_configVars PROVE LoadInv'
    OBVIOUS
  <1>1. CASE LoadFile
    BY <1>1 DEF LoadFile, LoadInv
  <1>2. CASE decodeStrict
    BY <1>2 DEF decodeStrict, LoadInv
  <1>3. CASE Defaulting
    BY <1>3 DEF Defaulting, LoadInv
  <1>4. CASE ValidateScalars
    <2>1. i = 1 /\ seen = Unseen /\ opt = applyDefaults(file.opt) /\ list = file.list
      BY <1>4 DEF ValidateScalars, IInv, Shape, LoadInv
    <2>2. at' = "list" /\ UNCHANGED <<file, opt, list, i, seen>>
      BY <1>4 DEF ValidateScalars
    <2>3. i' \in 1..(Len(list') + 1)
      BY <2>1, <2>2, SeqDomain DEF IInv, Shape
    <2>4. seen' = SeenBefore(file'.role, list', i')
      BY <2>1, <2>2, NothingSeen
    <2>5. ErrsExact'
      BY <1>4, <2>1, ScalarsExact
    <2> QED
      BY <2>1, <2>2, <2>3, <2>4, <2>5 DEF LoadInv
  <1>5. CASE ValidateElement
    <2>1. /\ at = "list" /\ opt = applyDefaults(file.opt) /\ list = file.list
          /\ i \in 1..(Len(list) + 1) /\ i <= Len(list)
          /\ seen = SeenBefore(file.role, list, i) /\ ErrsExact
      BY <1>5 DEF ValidateElement, LoadInv
    <2>2. Len(list) \in Nat
      BY SeqDomain DEF IInv, Shape
    <2>3. i \in Nat \ {0} /\ i + 1 \in 1..(Len(list) + 1)
      BY <2>1, <2>2
    <2>4. UNCHANGED <<file, at, opt, list>> /\ i' = i + 1 /\ seen' = See(file.role, list[i], seen)
      BY <1>5 DEF ValidateElement
    <2>5. seen' = SeenBefore(file.role, list, i + 1)
      BY <2>1, <2>3, <2>4, SeenStep DEF FileInv, Repairable
    <2>6. ErrsExact'
      BY <1>5, <2>1, <2>3, RoundExact
    <2> QED
      BY <2>1, <2>3, <2>4, <2>5, <2>6 DEF LoadInv
  <1>6. CASE Verdict
    <2>1. /\ at = "list" /\ at' \in {"accepted", "refused"} /\ i > Len(list)
          /\ at' = "refused" => errs # {}
          /\ UNCHANGED <<file, opt, list, i, seen, errs>>
      BY <1>6 DEF Verdict
    <2>2. /\ opt = applyDefaults(file.opt) /\ list = file.list
          /\ i \in 1..(Len(list) + 1)
          /\ seen = SeenBefore(file.role, list, i) /\ ErrsExact
      BY <2>1 DEF LoadInv
    <2>3. i = Len(list) + 1
      BY <2>1, <2>2, SeqDomain DEF IInv, Shape
    <2>4. ErrsExact'
      BY <2>1, <2>2 DEF ErrsExact
    <2> QED
      BY <2>1, <2>2, <2>3, <2>4 DEF LoadInv
  <1>7. CASE Repair \/ RepairSyntax
    <2>1. at' = "start"
      BY <1>7 DEF Repair, RepairSyntax
    <2> QED
      BY <2>1 DEF LoadInv
  <1>8. CASE UNCHANGED configVars
    BY <1>8 DEF configVars, LoadInv, ErrsExact
  <1> QED
    BY <1>1, <1>2, <1>3, <1>4, <1>5, <1>6, <1>7, <1>8 DEF ConfigNext

LEMMA AppendTwo ==
    ASSUME NEW a, NEW b
    PROVE  Append(<<a>>, b) = <<a, b>>
  <1>1. <<a>> \in Seq({a, b}) /\ <<a, b>> \in Seq({a, b})
    OBVIOUS
  <1>2. Append(<<a>>, b) \in Seq({a, b}) /\ Len(Append(<<a>>, b)) = 2
    BY <1>1
  <1>3. Append(<<a>>, b)[1] = a /\ Append(<<a>>, b)[2] = b
    BY <1>1
  <1>4. Len(<<a, b>>) = 2 /\ <<a, b>>[1] = a /\ <<a, b>>[2] = b /\ 1..2 = {1, 2}
    OBVIOUS
  <1> QED
    BY <1>1, <1>2, <1>3, <1>4, SeqEqual

\* Each report leaves the next load less to find.
LEMMA RoundStep == IInv /\ RepairInv /\ [ConfigNext]_configVars => RoundInv'
  <1> SUFFICES ASSUME IInv, RepairInv, [ConfigNext]_configVars PROVE RoundInv'
    OBVIOUS
  <1> USE DEF RepairInv
  <1>1. CASE LoadFile \/ decodeStrict \/ Defaulting \/ ValidateScalars \/ ValidateElement
    <2>1. UNCHANGED <<file, reported>> /\ at # "refused" /\ at' # "refused"
      BY <1>1 DEF LoadFile, decodeStrict, Defaulting, ValidateScalars, ValidateElement
    <2> QED
      BY <2>1 DEF RoundInv
  <1>2. CASE RepairSyntax
    <2>1. /\ UNCHANGED reported /\ at # "refused" /\ at' # "refused"
          /\ file'.role = file.role /\ file'.opt = file.opt /\ file'.list = file.list
      BY <1>2 DEF RepairSyntax, FileInv
    <2> QED
      BY <2>1 DEF RoundInv
  <1>3. CASE Verdict
    <2>1. UNCHANGED <<file, errs>> /\ at = "list"
      BY <1>3 DEF Verdict
    <2>2. CASE errs = {}
      <3>1. reported' = reported /\ at' = "accepted"
        BY <1>3, <2>2 DEF Verdict
      <3> QED
        BY <2>1, <3>1 DEF RoundInv
    <2>3. CASE errs # {}
      <3>1. reported' = Append(reported, errs) /\ at' = "refused"
        BY <1>3, <2>3 DEF Verdict
      <3>2. ~Good(file.role, applyDefaults(file.opt), file.list)
        BY <1>3, <2>3, GoodIsAccepted DEF IInv, Shape
      <3>3. CASE reported = << >>
        <4>1. reported' = <<errs>>
          BY <3>1, <3>3
        <4>2. reported' = <<reported'[1]>> /\ Len(reported') = 1 /\ reported'[1] = errs
          BY <4>1
        <4> QED
          BY <2>1, <3>1, <4>2 DEF RoundInv
      <3>4. CASE reported = <<reported[1]>>
        <4>1. PICK a : reported = <<a>> /\ a = reported[1]
          BY <3>4
        <4>2. Len(reported) = 1
          BY <4>1
        <4>3. NothingHidden(file.role, applyDefaults(file.opt)) /\ a \cap Hiding # {}
          BY <2>1, <3>2, <4>1, <4>2 DEF RoundInv
        <4>4. reported' = <<a, errs>>
          BY <3>1, <4>1, AppendTwo
        <4>5. reported' = <<reported'[1], reported'[2]>> /\ Len(reported') = 2 /\ reported'[1] = a
          BY <4>4
        <4> QED
          BY <2>1, <3>1, <4>3, <4>5 DEF RoundInv
      <3>5. CASE reported = <<reported[1], reported[2]>>
        <4>1. Len(reported) = 2
          BY <3>5
        <4> QED
          BY <2>1, <3>2, <4>1 DEF RoundInv
      <3> QED
        BY <3>3, <3>4, <3>5 DEF RoundInv
    <2> QED
      BY <2>2, <2>3
  <1>4. CASE Repair
    <2>1. UNCHANGED <<errs, reported>> /\ at = "refused" /\ at' = "start"
      BY <1>4 DEF Repair
    <2>2. /\ NothingHidden(file'.role, applyDefaults(file'.opt))
          /\ errs \cap Hiding = {} => Good(file'.role, applyDefaults(file'.opt), file'.list)
      BY <1>4, RepairIsEnough
    <2>3. Len(reported) = 1 => reported[1] = errs
      BY <2>1 DEF RoundInv
    <2>4. Len(reported) = 2 => errs \cap Hiding = {}
      BY <2>1, HidesNothing DEF RoundInv
    <2>5. reported = <<reported[1]>> \/ reported = <<reported[1], reported[2]>>
      BY <2>1 DEF RoundInv
    <2> QED
      BY <2>1, <2>2, <2>3, <2>4, <2>5 DEF RoundInv
  <1>5. CASE UNCHANGED configVars
    BY <1>5 DEF configVars, RoundInv
  <1> QED
    BY <1>1, <1>2, <1>3, <1>4, <1>5 DEF ConfigNext

\* A careful operator who repairs what errList reported is refused at most once more,
\* and only if the first report had a problem that keeps other checks from running,
\* whatever the fields, the list and their faults: Validate reports every problem it
\* can see, and a repair makes no new one.
THEOREM ConfigOneReport == ConfigSpec => []OneReportIsEnough
  <1>1. RepairInv => OneReportIsEnough
    <2> SUFFICES ASSUME RepairInv, at = "refused"
                 PROVE  Len(reported) = 1 \/ (Len(reported) = 2 /\ reported[1] \cap Hiding # {})
      BY DEF OneReportIsEnough
    <2>1. reported = <<reported[1]>> \/ reported = <<reported[1], reported[2]>>
      BY DEF RepairInv, RoundInv
    <2>2. Len(reported) = 1 \/ Len(reported) = 2
      BY <2>1
    <2> QED
      BY <2>2 DEF RepairInv, RoundInv
  <1>2. IInv /\ RepairInv /\ [ConfigNext]_configVars => RepairInv'
    BY FileStep, LoadStep, RoundStep DEF RepairInv
  <1> QED
    BY <1>1, <1>2, IInvInit, IInvStep, RepairInvInit, PTL DEF ConfigSpec

\* The careful operator is refused twice at most, whatever was wrong with the file:
\* what a report hides is all reported by the next.
THEOREM ConfigTwoReports == ConfigSpec => []TwoReportsAreEnough
  <1>1. OneReportIsEnough => TwoReportsAreEnough
    <2> SUFFICES ASSUME OneReportIsEnough, at = "refused" PROVE Len(reported) <= 2
      BY DEF TwoReportsAreEnough
    <2>1. Len(reported) \in {1, 2}
      BY Zenon DEF OneReportIsEnough
    <2>2. \A k \in {1, 2} : k <= 2
      OBVIOUS
    <2> QED
      BY <2>1, <2>2, Zenon
  <1> QED
    BY <1>1, ConfigOneReport, PTL
===============================================================================
