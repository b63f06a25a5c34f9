--------------------------- MODULE TunDeviceProofs ---------------------------
(***************************************************************************)
(* Proofs about TunDevice for every set of readers and setters, every MTU  *)
(* range and every bound, with and without the poller.                     *)
(***************************************************************************)
EXTENDS TunDevice, FiniteSetTheorems, TLAPS

-------------------------------------------------------------------------------
\* The steps of Open, in order.
LEMMA OpenOrder ==
  /\ {OpenSteps[i] : i \in 1 .. 8}
       = {"open", "tunsetiff", "lookup", "dial", "setlink", "address", "verifylink",
          "verifyaddress"}
  /\ After("open") = "tunsetiff" /\ After("tunsetiff") = "lookup"
  /\ After("lookup") = "dial" /\ After("dial") = "setlink"
  /\ After("setlink") = "address" /\ After("address") = "verifylink"
  /\ After("verifylink") = "verifyaddress" /\ After("verifyaddress") = "ready"
<1>1. 1 .. 8 = {1, 2, 3, 4, 5, 6, 7, 8} OBVIOUS
<1>2. /\ OpenSteps[1] = "open" /\ OpenSteps[2] = "tunsetiff" /\ OpenSteps[3] = "lookup"
      /\ OpenSteps[4] = "dial" /\ OpenSteps[5] = "setlink" /\ OpenSteps[6] = "address"
      /\ OpenSteps[7] = "verifylink" /\ OpenSteps[8] = "verifyaddress"
  BY DEF OpenSteps
<1>3. {OpenSteps[i] : i \in 1 .. 8}
       = {"open", "tunsetiff", "lookup", "dial", "setlink", "address", "verifylink",
          "verifyaddress"}
  BY <1>1, <1>2
<1>4. After("open") = "tunsetiff" BY <1>1, <1>2 DEF After
<1>5. After("tunsetiff") = "lookup" BY <1>1, <1>2 DEF After
<1>6. After("lookup") = "dial" BY <1>1, <1>2 DEF After
<1>7. After("dial") = "setlink" BY <1>1, <1>2 DEF After
<1>8. After("setlink") = "address" BY <1>1, <1>2 DEF After
<1>9. After("address") = "verifylink" BY <1>1, <1>2 DEF After
<1>10. After("verifylink") = "verifyaddress" BY <1>1, <1>2 DEF After
<1>11. After("verifyaddress") = "ready" BY <1>1, <1>2 DEF After
<1>12. QED BY <1>3, <1>4, <1>5, <1>6, <1>7, <1>8, <1>9, <1>10, <1>11

\* What ReadPacket counts: a packet is counted once, as received or as oversize,
\* whatever happened to the context; an error only if the context is alive.
LEMMA ReturnsCounts ==
  ASSUME NEW r \in Readers, Returns(r)
  PROVE  \/ out[r].kind = "packet" /\ (Count("rxPackets") \/ Count("rxOversize"))
         \/ /\ out[r].kind \notin {"packet", "closed"} /\ ~ctx[r]
            /\ Count("rxErrors")
         \/ out[r].kind # "packet" /\ UNCHANGED stats
<1>1. CASE out[r].kind = "packet"
  <2>1. Classify(r) = IF out[r].n > maxPacket THEN "toolarge" ELSE "ok"
    BY <1>1 DEF Classify
  <2>2. CASE out[r].n > maxPacket
    BY <1>1, <2>1, <2>2 DEF Returns
  <2>3. CASE ~(out[r].n > maxPacket)
    BY <1>1, <2>1, <2>3 DEF Returns
  <2>4. QED BY <2>2, <2>3
<1>2. CASE out[r].kind # "packet"
  <2>1. Classify(r) = IF ctx[r] THEN "ctx"
                      ELSE IF out[r].kind = "closed" THEN "closed" ELSE "error"
    BY <1>2 DEF Classify
  <2>2. CASE ctx[r] \/ out[r].kind = "closed"
    BY <1>2, <2>1, <2>2 DEF Returns
  <2>3. CASE ~(ctx[r] \/ out[r].kind = "closed")
    BY <1>2, <2>1, <2>3 DEF Returns
  <2>4. QED BY <2>2, <2>3
<1>3. QED BY <1>1, <1>2

\* Counting readers: one more, one less.
LEMMA CountReaders ==
  ASSUME NEW S \in SUBSET Readers
  PROVE  /\ Cardinality(S) \in Nat
         /\ \A r \in Readers : r \notin S => Cardinality(S \cup {r}) = Cardinality(S) + 1
         /\ \A r \in S : Cardinality(S \ {r}) = Cardinality(S) - 1
<1>1. IsFiniteSet(S) BY FS_Subset, TunAssumption
<1>2. QED BY <1>1, FS_CardinalityType, FS_AddElement, FS_RemoveElement

\* What one call of ReadPacket may assume: Read's result is there only between the
\* read and the return, and the AfterFunc only from its registration on.
ReadInv ==
    \A r \in Readers :
      /\ rpc[r] # "return" => out[r] = Nothing
      /\ rpc[r] = "return" => out[r].kind # "none"
      /\ armed[r] => rpc[r] \notin {"idle", "arm"}

\* Reads whose context was cancelled before their AfterFunc was registered.
Cancelled == {r \in Readers : rpc[r] = "arm" /\ ctx[r]}

\* A cancellation starts one goroutine at most, now or when the AfterFunc is
\* registered.
PendingInv == pending + Cardinality(Cancelled) <= cancels

TInv == TypeOK /\ ReadInv /\ PendingInv

\* Nothing has happened yet.
LEMMA TInvInit == Init => TInv
<1> SUFFICES ASSUME Init PROVE TInv OBVIOUS
<1>1. TypeOK
  <2>1. ostage \in {OpenSteps[i] : i \in 1 .. 8} BY OpenOrder DEF Init
  <2>2. rxq \in Seq(1 .. MaxMTU) /\ Len(rxq) = 0 BY DEF Init
  <2>3. /\ pending \in 0 .. MaxCancels /\ sent \in 0 .. MaxSent /\ writes \in 0 .. MaxWrites
        /\ cancels \in 0 .. MaxCancels /\ faults \in 0 .. MaxFaults /\ Len(rxq) <= MaxQueue
    BY <2>2, TunAssumption DEF Init
  <2>4. out \in [Readers -> [kind : {"none", "packet", "closed", "timeout", "failure"},
                             n : 0 .. MaxMTU]]
    BY TunAssumption DEF Init, Nothing
  <2>5. pollable \in BOOLEAN BY TunAssumption DEF Init
  <2>6. QED BY <2>1, <2>2, <2>3, <2>4, <2>5 DEF Init, TypeOK, NoRequest
<1>2. ReadInv BY DEF Init, ReadInv
<1>3. PendingInv
  <2>1. Cancelled = {} BY DEF Init, Cancelled
  <2>2. QED BY <2>1, FS_EmptySet DEF Init, PendingInv
<1>4. QED BY <1>1, <1>2, <1>3 DEF TInv

\* Every step keeps the balance of goroutines and cancellations.
LEMMA PendingNext ==
  ASSUME TInv, [Next]_vars
  PROVE  /\ PendingInv' /\ pending' \in 0 .. MaxCancels /\ cancels' \in 0 .. MaxCancels
<1> USE DEF opening, closing, poller, reading, setting, bounds
<1>0. /\ pending \in Nat /\ cancels \in 0 .. MaxCancels /\ MaxCancels \in Nat
      /\ pending + Cardinality(Cancelled) <= cancels
      /\ rpc \in [Readers -> {"idle", "arm", "read", "blocked", "return"}]
      /\ ctx \in [Readers -> BOOLEAN] /\ armed \in [Readers -> BOOLEAN]
  <2>1. MaxCancels \in Nat BY TunAssumption
  <2>2. pending \in 0 .. MaxCancels /\ cancels \in 0 .. MaxCancels BY DEF TInv, TypeOK
  <2>3. pending + Cardinality(Cancelled) <= cancels BY DEF TInv, PendingInv
  <2>4. /\ rpc \in [Readers -> {"idle", "arm", "read", "blocked", "return"}]
        /\ ctx \in [Readers -> BOOLEAN] /\ armed \in [Readers -> BOOLEAN]
    BY DEF TInv, TypeOK
  <2>5. QED BY <2>1, <2>2, <2>3, <2>4
<1>1. /\ Cancelled \in SUBSET Readers /\ Cancelled' \in SUBSET Readers
  BY DEF Cancelled
<1>2. Cardinality(Cancelled) \in Nat /\ Cardinality(Cancelled') \in Nat
  BY <1>1, CountReaders
<1>3. SUFFICES /\ cancels' \in 0 .. MaxCancels /\ pending' \in Nat
               /\ pending' + Cardinality(Cancelled') <= cancels'
  BY <1>0, <1>2 DEF PendingInv
<1>4. CASE UNCHANGED <<cancels, pending>> /\ Cancelled' = Cancelled
  BY <1>0, <1>4
<1>5. ASSUME NEW r \in Readers, Arm(r)
      PROVE  /\ cancels' \in 0 .. MaxCancels /\ pending' \in Nat
             /\ pending' + Cardinality(Cancelled') <= cancels'
  <2>1. CASE ctx[r]
    <3>1. r \in Cancelled /\ Cancelled' = Cancelled \ {r}
      BY <1>0, <1>5, <2>1 DEF Arm, Cancelled
    <3>2. Cardinality(Cancelled') = Cardinality(Cancelled) - 1
      BY <1>1, <3>1, CountReaders
    <3>3. pending' = pending + 1 /\ cancels' = cancels BY <1>5, <2>1 DEF Arm
    <3>4. QED BY <1>0, <1>2, <3>2, <3>3
  <2>2. CASE ~ctx[r]
    <3>1. Cancelled' = Cancelled BY <1>0, <1>5, <2>2 DEF Arm, Cancelled
    <3>2. QED BY <1>4, <1>5, <2>2, <3>1 DEF Arm
  <2>3. QED BY <2>1, <2>2
<1>6. ASSUME NEW r \in Readers, Cancel(r)
      PROVE  /\ cancels' \in 0 .. MaxCancels /\ pending' \in Nat
             /\ pending' + Cardinality(Cancelled') <= cancels'
  <2>1. cancels' = cancels + 1 /\ cancels' \in 0 .. MaxCancels BY <1>0, <1>6 DEF Cancel
  <2>2. CASE rpc[r] = "arm"
    <3>1. r \notin Cancelled /\ Cancelled' = Cancelled \cup {r}
      BY <1>0, <1>6, <2>2 DEF Cancel, Cancelled
    <3>2. Cardinality(Cancelled') = Cardinality(Cancelled) + 1
      BY <1>1, <3>1, CountReaders
    <3>3. pending' = pending BY <1>6, <2>2 DEF Cancel, TInv, ReadInv
    <3>4. QED BY <1>0, <1>2, <2>1, <3>2, <3>3
  <2>3. CASE rpc[r] # "arm"
    <3>1. Cancelled' = Cancelled BY <1>0, <1>6, <2>3 DEF Cancel, Cancelled
    <3>2. pending' \in {pending, pending + 1} BY <1>6 DEF Cancel
    <3>3. QED BY <1>0, <1>2, <2>1, <3>1, <3>2
  <2>4. QED BY <2>2, <2>3
<1>7. CASE SetReadDeadline
  <2>1. Cancelled' = Cancelled BY <1>7 DEF SetReadDeadline, Cancelled
  <2>2. QED BY <1>0, <1>2, <1>7, <2>1 DEF SetReadDeadline
<1>8. ASSUME NEW r \in Readers, NEW size, NEW cancelled, Enter(r, size, cancelled)
      PROVE  UNCHANGED <<cancels, pending>> /\ Cancelled' = Cancelled
  BY <1>0, <1>8 DEF Enter, Cancelled
<1>9. ASSUME NEW r \in Readers, Read(r) \/ Wake(r) \/ Returns(r) \/ DescriptorFails(r)
      PROVE  UNCHANGED <<cancels, pending>> /\ Cancelled' = Cancelled
  <2>1. /\ UNCHANGED <<cancels, pending, ctx>> /\ rpc[r] # "arm"
        /\ \E x \in {"idle", "blocked", "return"} : rpc' = [rpc EXCEPT ![r] = x]
    BY <1>9 DEF Read, Wake, Returns, DescriptorFails, TakesPacket, FailsWith, Got
  <2>2. QED BY <1>0, <2>1 DEF Cancelled
<1>10. CASE UNCHANGED <<cancels, pending, rpc, ctx>> BY <1>4, <1>10 DEF Cancelled
<1>11. ASSUME NEW s \in Setters, NEW m, NEW auth, SetMTU(s, m, auth) \/ SetLink(s) \/ StoreMTU(s)
       PROVE  UNCHANGED <<cancels, pending, rpc, ctx>>
  BY <1>11 DEF SetMTU, SetLink, StoreMTU
<1>12. CASE OpenStep \/ OpenRefused \/ fail \/ failNL \/ WriteEnter \/ WritePacket \/ Close \/ CloseFile
              \/ CloseWait \/ CloseLink \/ (\E n \in 1 .. MaxMTU : KernelSends(n))
  BY <1>10, <1>12 DEF OpenStep, OpenRefused, fail, failNL, OpenFails, WriteEnter, WritePacket, Close, CloseFile,
    CloseWait, CloseLink, KernelSends
<1>13. CASE UNCHANGED vars BY <1>10, <1>13 DEF vars
<1>14. QED
  BY <1>4, <1>5, <1>6, <1>7, <1>8, <1>9, <1>10, <1>11, <1>12, <1>13 DEF Next, ReadPacket
Counters == [rxPackets : Nat, rxErrors : Nat, rxOversize : Nat,
             txPackets : Nat, txErrors : Nat, txShort : Nat]

Results == [kind : {"none", "packet", "closed", "timeout", "failure"}, n : 0 .. MaxMTU]

\* Counting keeps the counters counters, and moves only one of them.
LEMMA CountType ==
  ASSUME stats \in Counters,
         NEW c \in {"rxPackets", "rxErrors", "rxOversize", "txPackets", "txErrors", "txShort"},
         Count(c)
  PROVE  /\ stats' \in Counters
         /\ stats'[c] = stats[c] + 1
         /\ \A d \in {"rxPackets", "rxErrors", "rxOversize", "txPackets", "txErrors",
                      "txShort"} \ {c} : stats'[d] = stats[d]
BY DEF Count, Counters

\* What Read can return is typed.
LEMMA GotType ==
  ASSUME TypeOK, NEW r \in Readers
  PROVE  /\ Nothing \in Results
         /\ \A k \in {"closed", "timeout", "failure"} : Error(k) \in Results
         /\ rxq # <<>> => /\ Packet(Head(rxq)) \in Results
                          /\ Tail(rxq) \in Seq(1 .. MaxMTU)
                          /\ Len(Tail(rxq)) <= MaxQueue
<1>1. MaxMTU \in Nat /\ MaxQueue \in Nat BY TunAssumption
<1>2. rxq \in Seq(1 .. MaxMTU) /\ Len(rxq) <= MaxQueue BY DEF TypeOK
<1>3. ASSUME rxq # <<>>
      PROVE  /\ Head(rxq) \in 1 .. MaxMTU
             /\ Tail(rxq) \in Seq(1 .. MaxMTU)
             /\ Len(Tail(rxq)) <= MaxQueue
  BY <1>1, <1>2, <1>3
<1>4. QED BY <1>1, <1>3 DEF Results, Nothing, Error, Packet

\* Every step keeps the types.
LEMMA TypeNext == TInv /\ [Next]_vars => TypeOK'
<1> SUFFICES ASSUME TInv, [Next]_vars PROVE TypeOK' OBVIOUS
<1> USE DEF opening, closing, poller, reading, setting, bounds
<1>0. TypeOK BY DEF TInv
<1>1. pending' \in 0 .. MaxCancels /\ cancels' \in 0 .. MaxCancels BY PendingNext
<1>2. /\ MaxCancels \in Nat /\ MaxFaults \in Nat /\ MaxSent \in Nat /\ MaxWrites \in Nat
      /\ MinMTU \in Nat /\ MaxMTU \in Nat /\ ConfigMTU \in MinMTU .. MaxMTU /\ MaxQueue \in Nat
  BY TunAssumption
<1>3. /\ stats \in Counters /\ out \in [Readers -> Results]
  BY <1>0 DEF TypeOK, Counters, Results
<1>4. ASSUME Fault PROVE faults' \in 0 .. MaxFaults BY <1>0, <1>2, <1>4 DEF Fault, TypeOK
<1>5. CASE OpenStep
  <2>1. ostage' \in {OpenSteps[i] : i \in 1 .. 8} \cup {"ready"}
    BY <1>5, OpenOrder DEF OpenStep
  <2>2. {fd', nl'} \subseteq BOOLEAN BY <1>0, <1>5 DEF OpenStep, TypeOK
  <2>3. {kmtu', mtu'} \subseteq {0} \cup MinMTU .. MaxMTU
    BY <1>0, <1>2, <1>5 DEF OpenStep, TypeOK
  <2>4. QED BY <1>0, <1>1, <1>5, <2>1, <2>2, <2>3 DEF OpenStep, TypeOK
<1>6. CASE OpenRefused \/ fail \/ failNL
  BY <1>0, <1>1, <1>4, <1>6 DEF OpenRefused, fail, failNL, OpenFails, TypeOK
<1>7. ASSUME NEW r \in Readers, NEW size, NEW cancelled \in BOOLEAN, Enter(r, size, cancelled)
      PROVE  TypeOK'
  BY <1>0, <1>1, <1>7 DEF Enter, TypeOK
<1>8. ASSUME NEW r \in Readers, Arm(r) PROVE TypeOK'
  BY <1>0, <1>1, <1>8 DEF Arm, TypeOK
<1>9. ASSUME NEW r \in Readers, Cancel(r) PROVE TypeOK'
  BY <1>0, <1>1, <1>9 DEF Cancel, TypeOK
<1>10. CASE SetReadDeadline BY <1>0, <1>1, <1>10 DEF SetReadDeadline, TypeOK
<1>11. ASSUME NEW r \in Readers, NEW o \in Results, Got(r, o),
              rxq' \in Seq(1 .. MaxMTU), Len(rxq') <= MaxQueue, taken' \in Nat,
              faults' \in 0 .. MaxFaults
       PROVE  TypeOK'
  <2>1. /\ out' \in [Readers -> Results]
        /\ rpc' \in [Readers -> {"idle", "arm", "read", "blocked", "return"}]
    BY <1>0, <1>3, <1>11 DEF Got, TypeOK
  <2>2. fd' \in BOOLEAN BY <1>11 DEF Got
  <2>3. QED BY <1>0, <1>1, <1>11, <2>1, <2>2 DEF Got, TypeOK, Results
<1>12. ASSUME NEW r \in Readers, TakesPacket(r) PROVE TypeOK'
  <2>1. taken' \in Nat BY <1>0, <1>12 DEF TakesPacket, TypeOK
  <2>2. faults' \in 0 .. MaxFaults BY <1>0, <1>12 DEF TakesPacket, TypeOK
  <2>3. QED BY <1>0, <1>11, <1>12, <2>1, <2>2, GotType DEF TakesPacket
<1>13. ASSUME NEW r \in Readers, NEW k \in {"closed", "timeout"}, FailsWith(r, k)
       PROVE  TypeOK'
  <2>1. /\ rxq' \in Seq(1 .. MaxMTU) /\ Len(rxq') <= MaxQueue /\ taken' \in Nat
        /\ faults' \in 0 .. MaxFaults
    BY <1>0, <1>13 DEF FailsWith, TypeOK
  <2>2. QED BY <1>0, <1>11, <1>13, <2>1, GotType DEF FailsWith
<1>14. ASSUME NEW r \in Readers, DescriptorFails(r) PROVE TypeOK'
  <2>1. /\ rxq' \in Seq(1 .. MaxMTU) /\ Len(rxq') <= MaxQueue /\ taken' \in Nat
        /\ faults' \in 0 .. MaxFaults
    BY <1>0, <1>4, <1>14 DEF DescriptorFails, TypeOK
  <2>2. QED BY <1>0, <1>11, <1>14, <2>1, GotType DEF DescriptorFails
<1>15. ASSUME NEW r \in Readers, Read(r) \/ Wake(r) PROVE TypeOK'
  <2>1. CASE /\ rpc' = [rpc EXCEPT ![r] = "blocked"]
             /\ UNCHANGED <<opening, closing, poller, rxq, ctx, armed, out, setting, wpc,
                           stats, taken, bounds>>
    BY <1>0, <1>1, <2>1 DEF TypeOK
  <2>2. QED BY <1>12, <1>13, <1>15, <2>1 DEF Read, Wake
<1>16. ASSUME NEW r \in Readers, Returns(r) PROVE TypeOK'
  <2>1. stats' \in Counters BY <1>3, <1>16, ReturnsCounts, CountType
  <2>2. out' \in [Readers -> Results] BY <1>0, <1>3, <1>16, GotType DEF Returns
  <2>3. QED BY <1>0, <1>1, <1>16, <2>1, <2>2 DEF Returns, TypeOK, Counters, Results
<1>17. CASE WriteEnter BY <1>0, <1>1, <1>2, <1>17 DEF WriteEnter, TypeOK
<1>18. CASE WritePacket
  <2>1. stats' \in Counters BY <1>3, <1>18, CountType DEF WritePacket
  <2>2. faults' \in 0 .. MaxFaults BY <1>0, <1>4, <1>18 DEF WritePacket, TypeOK
  <2>3. QED BY <1>0, <1>1, <1>18, <2>1, <2>2 DEF WritePacket, TypeOK, Counters
<1>19. ASSUME NEW s \in Setters, NEW m \in Requests, NEW auth \in BOOLEAN, SetMTU(s, m, auth)
       PROVE  TypeOK'
  <2>1. [mtu |-> m, auth |-> auth] \in [mtu : {0} \cup MinMTU .. MaxMTU, auth : BOOLEAN]
    BY <1>19 DEF SetMTU, guardMTU
  <2>2. /\ req' \in [Setters -> [mtu : {0} \cup MinMTU .. MaxMTU, auth : BOOLEAN]]
        /\ spc' \in [Setters -> {"idle", "link", "store"}]
    BY <1>0, <1>19, <2>1 DEF SetMTU, TypeOK
  <2>3. QED BY <1>0, <1>1, <1>19, <2>2 DEF SetMTU, TypeOK
<1>20. ASSUME NEW s \in Setters, SetLink(s) \/ StoreMTU(s) PROVE TypeOK'
  <2>1. /\ req' \in [Setters -> [mtu : {0} \cup MinMTU .. MaxMTU, auth : BOOLEAN]]
        /\ spc' \in [Setters -> {"idle", "link", "store"}]
    <3>1. NoRequest \in [mtu : {0} \cup MinMTU .. MaxMTU, auth : BOOLEAN] BY DEF NoRequest
    <3>2. ASSUME SetReturns(s)
          PROVE  /\ req' \in [Setters -> [mtu : {0} \cup MinMTU .. MaxMTU, auth : BOOLEAN]]
                 /\ spc' \in [Setters -> {"idle", "link", "store"}]
      BY <1>0, <3>1, <3>2 DEF SetReturns, TypeOK
    <3>3. ASSUME spc' = [spc EXCEPT ![s] = "store"], UNCHANGED req
          PROVE  /\ req' \in [Setters -> [mtu : {0} \cup MinMTU .. MaxMTU, auth : BOOLEAN]]
                 /\ spc' \in [Setters -> {"idle", "link", "store"}]
      BY <1>0, <3>3 DEF TypeOK
    <3>4. QED BY <1>20, <3>2, <3>3 DEF SetLink, StoreMTU
  <2>2. faults' \in 0 .. MaxFaults BY <1>0, <1>4, <1>20 DEF SetLink, StoreMTU, TypeOK
  <2>3. {kmtu', mtu'} \subseteq {0} \cup MinMTU .. MaxMTU
    <3>1. {kmtu, mtu, req[s].mtu} \subseteq {0} \cup MinMTU .. MaxMTU BY <1>0 DEF TypeOK
    <3>2. {kmtu', mtu'} \subseteq {kmtu, mtu, req[s].mtu} BY <1>20 DEF SetLink, StoreMTU
    <3>3. QED BY <3>1, <3>2
  <2>4. QED BY <1>0, <1>1, <1>20, <2>1, <2>2, <2>3 DEF SetLink, StoreMTU, TypeOK
<1>21. CASE Close \/ CloseFile \/ CloseWait \/ CloseLink
  BY <1>0, <1>1, <1>21 DEF Close, CloseFile, CloseWait, CloseLink, TypeOK
<1>22. ASSUME NEW n \in 1 .. MaxMTU, KernelSends(n) PROVE TypeOK'
  <2>1. rxq' \in Seq(1 .. MaxMTU) /\ Len(rxq') <= MaxQueue
    <3>1. rxq \in Seq(1 .. MaxMTU) BY <1>0 DEF TypeOK
    <3>2. rxq' = Append(rxq, n) /\ Len(rxq) < MaxQueue BY <1>22 DEF KernelSends
    <3>3. QED BY <1>2, <3>1, <3>2
  <2>2. sent' \in 0 .. MaxSent BY <1>0, <1>2, <1>22 DEF KernelSends, TypeOK
  <2>3. QED BY <1>0, <1>1, <1>22, <2>1, <2>2 DEF KernelSends, TypeOK
<1>23. CASE UNCHANGED vars BY <1>0, <1>23 DEF vars, TypeOK
<1>24. QED
  BY <1>5, <1>6, <1>7, <1>8, <1>9, <1>10, <1>14, <1>15, <1>16, <1>17, <1>18, <1>19, <1>20,
     <1>21, <1>22, <1>23 DEF Next, ReadPacket

\* Every step of a reader keeps the order of its own steps.
LEMMA ReadNext == TInv /\ [Next]_vars => ReadInv'
<1> SUFFICES ASSUME TInv, [Next]_vars PROVE ReadInv' OBVIOUS
<1> USE DEF opening, closing, poller, reading, setting, bounds
<1>0. /\ ReadInv
      /\ rpc \in [Readers -> {"idle", "arm", "read", "blocked", "return"}]
      /\ armed \in [Readers -> BOOLEAN] /\ out \in [Readers -> Results]
  BY DEF TInv, TypeOK, Results
<1>1. CASE UNCHANGED <<rpc, armed, out>> BY <1>0, <1>1 DEF ReadInv
<1>2. ASSUME NEW r \in Readers, NEW size, NEW cancelled, Enter(r, size, cancelled) PROVE ReadInv'
  BY <1>0, <1>2 DEF Enter, ReadInv
<1>3. ASSUME NEW r \in Readers, Arm(r) PROVE ReadInv' BY <1>0, <1>3 DEF Arm, ReadInv
<1>4. ASSUME NEW r \in Readers, Cancel(r) PROVE ReadInv' BY <1>0, <1>4 DEF Cancel, ReadInv
<1>5. ASSUME NEW r \in Readers, Read(r) \/ Wake(r) \/ DescriptorFails(r) PROVE ReadInv'
  <2>1. /\ armed' = armed /\ rpc[r] \in {"read", "blocked"}
        /\ \/ rpc' = [rpc EXCEPT ![r] = "blocked"] /\ out' = out
           \/ /\ rpc' = [rpc EXCEPT ![r] = "return"]
              /\ \E o : out' = [out EXCEPT ![r] = o] /\ o.kind # "none"
    <3>1. Packet(Head(rxq)).kind # "none" BY DEF Packet
    <3>2. /\ Error("closed").kind # "none" /\ Error("timeout").kind # "none"
          /\ Error("failure").kind # "none"
      BY DEF Error
    <3>3. QED
      BY <1>5, <3>1, <3>2 DEF Read, Wake, DescriptorFails, TakesPacket, FailsWith, Got
  <2>2. QED BY <1>0, <2>1 DEF ReadInv
<1>6. ASSUME NEW r \in Readers, Returns(r) PROVE ReadInv' BY <1>0, <1>6 DEF Returns, ReadInv
<1>7. ASSUME NEW s \in Setters, NEW m, NEW auth, SetMTU(s, m, auth) \/ SetLink(s) \/ StoreMTU(s)
      PROVE  UNCHANGED <<rpc, armed, out>>
  BY <1>7 DEF SetMTU, SetLink, StoreMTU
<1>8. CASE OpenStep \/ OpenRefused \/ fail \/ failNL \/ WriteEnter \/ WritePacket \/ Close \/ CloseFile
             \/ CloseWait \/ CloseLink \/ SetReadDeadline \/ (\E n \in 1 .. MaxMTU : KernelSends(n))
  BY <1>1, <1>8 DEF OpenStep, OpenRefused, fail, failNL, OpenFails, WriteEnter, WritePacket, Close, CloseFile,
    CloseWait, CloseLink, SetReadDeadline, KernelSends
<1>9. CASE UNCHANGED vars BY <1>1, <1>9 DEF vars
<1>10. QED
  BY <1>1, <1>2, <1>3, <1>4, <1>5, <1>6, <1>7, <1>8, <1>9 DEF Next, ReadPacket

\* The type invariant, with what makes it inductive, holds in every state.
LEMMA TInvariance == Spec => []TInv
<1>1. TInv /\ [Next]_vars => TInv' BY TypeNext, ReadNext, PendingNext DEF TInv
<1>2. QED BY <1>1, TInvInit, PTL DEF Spec

\* Type correctness: among others the deadline goroutines that have not run never
\* outnumber the cancellations, and the MTU never leaves MinMTU .. MaxMTU.
THEOREM TunTyped == Spec => []TypeOK
<1>1. TInv => TypeOK BY DEF TInv
<1>2. QED BY <1>1, TInvariance, PTL
-------------------------------------------------------------------------------
\* Open and Close by their stages: what each step of Open has opened, that Close only
\* runs on a device that Open has returned, and that a file being closed keeps its
\* descriptor open only for a read that is parked, which Close waits for if it can.
StageInv ==
    /\ ostage = "open" => ~fd
    /\ ostage \in {"open", "tunsetiff", "lookup", "dial"} => ~nl
    /\ ostage = "failed" => ~fd /\ ~nl
    /\ cstage # "idle" => Ready
    /\ cstage \in {"idle", "file"} => ~shut
    /\ cstage \in {"wait", "link", "done"} => shut
    /\ shut /\ fd => Parked # {}
    /\ cstage \in {"link", "done"} /\ fd => ~pollable
    /\ cstage = "done" => ~nl

\* Every step keeps the stages.
LEMMA StageNext == TypeOK /\ StageInv /\ [Next]_vars => StageInv'
<1> SUFFICES ASSUME TypeOK, StageInv, [Next]_vars PROVE StageInv' OBVIOUS
<1> USE DEF opening, closing, poller, reading, setting, bounds, Ready
<1>0. /\ rpc \in [Readers -> {"idle", "arm", "read", "blocked", "return"}]
      /\ cstage \in {"idle", "file", "wait", "link", "done"}
  BY DEF TypeOK
<1>1. CASE UNCHANGED <<ostage, fd, nl, shut, cstage, pollable>> /\ Parked' = Parked
  BY <1>1 DEF StageInv
<1>2. CASE OpenStep
  <2>1. /\ ostage \in {"open", "tunsetiff", "lookup", "dial", "setlink", "address",
                       "verifylink", "verifyaddress"}
        /\ ostage' = After(ostage) /\ nl' = (nl \/ ostage = "dial")
        /\ UNCHANGED <<shut, cstage>>
    BY <1>2, OpenOrder DEF OpenStep
  <2>2. ostage' \notin {"open", "failed"} BY <2>1, OpenOrder
  <2>3. ostage' \in {"tunsetiff", "lookup", "dial"} => ostage \in {"open", "tunsetiff", "lookup"}
    BY <2>1, OpenOrder
  <2>4. cstage = "idle" /\ ~shut BY <2>1 DEF StageInv
  <2>5. ostage' \in {"tunsetiff", "lookup", "dial"} => ~nl'
    BY <2>1, <2>3 DEF StageInv
  <2>6. QED BY <2>1, <2>2, <2>4, <2>5 DEF StageInv
<1>3. CASE OpenRefused \/ fail \/ failNL
  <2>1. /\ ostage # "ready" /\ ostage' = "failed" /\ UNCHANGED <<shut, cstage>>
        /\ ~fd' /\ ~nl'
    BY <1>3 DEF OpenRefused, fail, failNL, OpenFails, ConfigureSteps, StageInv
  <2>2. QED BY <2>1 DEF StageInv
<1>4. CASE Close \/ CloseFile \/ CloseWait \/ CloseLink
  <2>1. Parked' = Parked BY <1>4 DEF Close, CloseFile, CloseWait, CloseLink, Parked
  <2>2. CASE Close BY <2>1, <2>2 DEF Close, StageInv
  <2>3. CASE CloseFile BY <2>1, <2>3 DEF CloseFile, StageInv
  <2>4. CASE CloseWait BY <2>1, <2>4 DEF CloseWait, StageInv
  <2>5. CASE CloseLink BY <2>1, <2>5 DEF CloseLink, StageInv
  <2>6. QED BY <1>4, <2>2, <2>3, <2>4, <2>5
<1>5. ASSUME NEW r \in Readers, NEW size, NEW cancelled,
             Enter(r, size, cancelled) \/ Arm(r) \/ Cancel(r) \/ Returns(r)
      PROVE  StageInv'
  <2>1. UNCHANGED <<ostage, fd, nl, shut, cstage, pollable>>
    BY <1>5 DEF Enter, Arm, Cancel, Returns
  <2>2. Parked' = Parked BY <1>0, <1>5 DEF Enter, Arm, Cancel, Returns, Parked
  <2>3. QED BY <1>1, <2>1, <2>2
<1>6. ASSUME NEW r \in Readers, Read(r) \/ Wake(r) \/ DescriptorFails(r) PROVE StageInv'
  <2>1. UNCHANGED <<ostage, nl, shut, cstage, pollable>>
    BY <1>6 DEF Read, Wake, DescriptorFails, TakesPacket, FailsWith, Got
  <2>2. CASE ~shut /\ fd' = fd BY <2>1, <2>2 DEF StageInv
  <2>3. CASE /\ rpc' = [rpc EXCEPT ![r] = "return"]
             /\ fd' = (fd /\ ~(shut /\ Parked \subseteq {r}))
    <3>1. Parked \ {r} \subseteq Parked' BY <1>0, <2>3 DEF Parked
    <3>2. QED BY <2>1, <2>3, <3>1 DEF StageInv
  <2>4. QED BY <1>6, <2>2, <2>3 DEF Read, Wake, DescriptorFails, TakesPacket, FailsWith, Got
<1>7. ASSUME NEW s \in Setters, NEW m, NEW auth, SetMTU(s, m, auth) \/ SetLink(s) \/ StoreMTU(s)
      PROVE  StageInv'
  BY <1>1, <1>7 DEF SetMTU, SetLink, StoreMTU, Parked
<1>8. CASE WriteEnter \/ WritePacket \/ SetReadDeadline
             \/ (\E n \in 1 .. MaxMTU : KernelSends(n))
  BY <1>1, <1>8 DEF WriteEnter, WritePacket, SetReadDeadline, KernelSends, Parked
<1>9. CASE UNCHANGED vars BY <1>1, <1>9 DEF vars, Parked
<1>10. QED
  BY <1>2, <1>3, <1>4, <1>5, <1>6, <1>7, <1>8, <1>9 DEF Next, ReadPacket

\* Whichever call of Open fails, the path it takes closes what is open by then, and a
\* Close that has returned leaves the descriptor only to a read in the system call.
THEOREM TunNoDescriptorLeak == Spec => []NoDescriptorLeak
<1>1. Init => StageInv BY DEF Init, StageInv
<1>2. TInv => TypeOK BY DEF TInv
<1>3. StageInv => NoDescriptorLeak BY DEF StageInv, NoDescriptorLeak
<1>4. QED BY <1>1, <1>2, <1>3, StageNext, TInvariance, PTL DEF Spec

-------------------------------------------------------------------------------
\* The reads that hold a packet they have not returned yet.
Holding == {r \in Readers : out[r].kind = "packet"}

\* Every step keeps the account of packets.
LEMMA PacketsNext == TInv /\ NoPacketLost /\ [Next]_vars => NoPacketLost'
<1> SUFFICES ASSUME TInv, NoPacketLost, [Next]_vars PROVE NoPacketLost' OBVIOUS
<1> USE DEF opening, closing, poller, reading, setting, bounds
<1>0. /\ TypeOK /\ ReadInv /\ taken \in Nat
      /\ stats \in Counters /\ out \in [Readers -> Results]
      /\ stats.rxPackets \in Nat /\ stats.rxOversize \in Nat
  BY DEF TInv, TypeOK, Counters, Results
<1>1. /\ Holding \in SUBSET Readers /\ Holding' \in SUBSET Readers BY DEF Holding
<1>2. Cardinality(Holding) \in Nat BY <1>1, CountReaders
<1>3. taken = stats.rxPackets + stats.rxOversize + Cardinality(Holding)
  BY DEF NoPacketLost, Holding
<1>4. SUFFICES taken' = stats'.rxPackets + stats'.rxOversize + Cardinality(Holding')
  BY DEF NoPacketLost, Holding
<1>5. CASE /\ taken' = taken /\ Holding' = Holding
           /\ stats'.rxPackets = stats.rxPackets /\ stats'.rxOversize = stats.rxOversize
  BY <1>3, <1>5
<1>6. CASE UNCHANGED <<taken, out, stats>> BY <1>5, <1>6 DEF Holding
<1>7. ASSUME NEW r \in Readers, rpc[r] # "return", TakesPacket(r)
      PROVE  taken' = stats'.rxPackets + stats'.rxOversize + Cardinality(Holding')
  <2>1. out' = [out EXCEPT ![r] = Packet(Head(rxq))] /\ UNCHANGED stats
    BY <1>7 DEF TakesPacket, Got
  <2>2. Packet(Head(rxq)).kind = "packet" BY DEF Packet
  <2>3. out[r].kind # "packet" BY <1>0, <1>7 DEF ReadInv, Nothing
  <2>4. r \notin Holding /\ Holding' = Holding \cup {r}
    BY <1>0, <2>1, <2>2, <2>3 DEF Holding
  <2>5. Cardinality(Holding') = Cardinality(Holding) + 1 BY <1>1, <2>4, CountReaders
  <2>6. taken' = taken + 1 BY <1>7 DEF TakesPacket
  <2>7. QED BY <1>0, <1>2, <1>3, <2>1, <2>5, <2>6
<1>8. ASSUME NEW r \in Readers, NEW k \in {"closed", "timeout", "failure"}, rpc[r] # "return",
             Got(r, Error(k)), UNCHANGED taken
      PROVE  taken' = stats'.rxPackets + stats'.rxOversize + Cardinality(Holding')
  <2>1. out' = [out EXCEPT ![r] = Error(k)] /\ UNCHANGED stats BY <1>8 DEF Got
  <2>2. Error(k).kind # "packet" BY DEF Error
  <2>3. out[r].kind # "packet" BY <1>0, <1>8 DEF ReadInv, Nothing
  <2>4. Holding' = Holding BY <1>0, <2>1, <2>2, <2>3 DEF Holding
  <2>5. QED BY <1>5, <1>8, <2>1, <2>4
<1>9. ASSUME NEW r \in Readers, Read(r) \/ Wake(r) \/ DescriptorFails(r)
      PROVE  taken' = stats'.rxPackets + stats'.rxOversize + Cardinality(Holding')
  <2>1. rpc[r] # "return" BY <1>9 DEF Read, Wake, DescriptorFails
  <2>2. \/ TakesPacket(r)
        \/ \E k \in {"closed", "timeout", "failure"} : Got(r, Error(k)) /\ UNCHANGED taken
        \/ UNCHANGED <<taken, out, stats>>
    BY <1>9 DEF Read, Wake, DescriptorFails, FailsWith
  <2>3. QED BY <1>6, <1>7, <1>8, <2>1, <2>2
<1>10. ASSUME NEW r \in Readers, Returns(r)
       PROVE  taken' = stats'.rxPackets + stats'.rxOversize + Cardinality(Holding')
  <2>1. out' = [out EXCEPT ![r] = Nothing] /\ taken' = taken BY <1>10 DEF Returns
  <2>2. Nothing.kind # "packet" BY DEF Nothing
  <2>3. Holding' = Holding \ {r} BY <1>0, <2>1, <2>2 DEF Holding
  <2>4. CASE out[r].kind = "packet"
    <3>1. r \in Holding BY <2>4 DEF Holding
    <3>2. Cardinality(Holding') = Cardinality(Holding) - 1 BY <1>1, <2>3, <3>1, CountReaders
    <3>3. Count("rxPackets") \/ Count("rxOversize") BY <1>10, <2>4, ReturnsCounts
    <3>4. \/ /\ stats'.rxPackets = stats.rxPackets + 1
             /\ stats'.rxOversize = stats.rxOversize
          \/ /\ stats'.rxPackets = stats.rxPackets
             /\ stats'.rxOversize = stats.rxOversize + 1
      BY <1>0, <3>3, CountType
    <3>5. QED BY <1>0, <1>2, <1>3, <2>1, <3>2, <3>4
  <2>5. CASE out[r].kind # "packet"
    <3>1. Holding' = Holding BY <2>3, <2>5 DEF Holding
    <3>2. Count("rxErrors") \/ UNCHANGED stats BY <1>10, <2>5, ReturnsCounts
    <3>3. stats'.rxPackets = stats.rxPackets /\ stats'.rxOversize = stats.rxOversize
      BY <1>0, <3>2, CountType
    <3>4. QED BY <1>5, <2>1, <3>1, <3>3
  <2>6. QED BY <2>4, <2>5
<1>11. CASE WritePacket
  <2>1. Count("txErrors") \/ Count("txShort") \/ Count("txPackets") BY <1>11 DEF WritePacket
  <2>2. stats'.rxPackets = stats.rxPackets /\ stats'.rxOversize = stats.rxOversize
    BY <1>0, <2>1, CountType
  <2>3. QED BY <1>5, <1>11, <2>2 DEF WritePacket, Holding
<1>12. ASSUME NEW r \in Readers, NEW size, NEW cancelled,
              Enter(r, size, cancelled) \/ Arm(r) \/ Cancel(r)
       PROVE  UNCHANGED <<taken, out, stats>>
  BY <1>12 DEF Enter, Arm, Cancel
<1>13. ASSUME NEW s \in Setters, NEW m, NEW auth, SetMTU(s, m, auth) \/ SetLink(s) \/ StoreMTU(s)
       PROVE  UNCHANGED <<taken, out, stats>>
  BY <1>13 DEF SetMTU, SetLink, StoreMTU
<1>14. CASE OpenStep \/ OpenRefused \/ fail \/ failNL \/ WriteEnter \/ Close \/ CloseFile
              \/ CloseWait \/ CloseLink \/ SetReadDeadline \/ (\E n \in 1 .. MaxMTU : KernelSends(n))
  BY <1>6, <1>14 DEF OpenStep, OpenRefused, fail, failNL, OpenFails, WriteEnter, Close, CloseFile,
    CloseWait, CloseLink, SetReadDeadline, KernelSends
<1>15. CASE UNCHANGED vars BY <1>6, <1>15 DEF vars
<1>16. QED
  BY <1>6, <1>9, <1>10, <1>11, <1>12, <1>13, <1>14, <1>15 DEF Next, ReadPacket

\* No packet is lost: every packet a read has taken from the kernel is counted as
\* received or as oversize, or is held by a read about to return it, for any number
\* of concurrent readers, cancellations, failing reads and a Close at any moment.
THEOREM TunNoPacketLost == Spec => []NoPacketLost
<1>1. Init => NoPacketLost
  <2> SUFFICES ASSUME Init PROVE NoPacketLost OBVIOUS
  <2>1. {r \in Readers : out[r].kind = "packet"} = {} BY DEF Init, Nothing
  <2>2. Cardinality({r \in Readers : out[r].kind = "packet"}) = 0 BY <2>1, FS_EmptySet
  <2>3. taken = 0 /\ stats.rxPackets = 0 /\ stats.rxOversize = 0 BY DEF Init
  <2>4. QED BY <2>2, <2>3 DEF NoPacketLost
<1>2. QED BY <1>1, PacketsNext, TInvariance, PTL DEF Spec
-------------------------------------------------------------------------------
\* One caller of SetMTU, as the code needs it: d.mtu is read, checked against and
\* written without a lock across the netlink request.
OneSetter == \A s, t \in Setters : s = t

\* The interface's MTU through Open, and through a SetMTU between its request and
\* the store.
MTUInv ==
    /\ ~Ready => \A s \in Setters : spc[s] = "idle"
    /\ ostage \in {"address", "verifylink", "verifyaddress"} => kmtu = ConfigMTU
    /\ \A s \in Setters : spc[s] = "store" => kmtu = req[s].mtu
    /\ Ready /\ (\A s \in Setters : spc[s] # "store") => mtu = kmtu

\* Every step keeps the MTUs in agreement.
LEMMA MTUNext ==
  ASSUME OneSetter
  PROVE  TypeOK /\ MTUInv /\ [Next]_vars => MTUInv'
<1> SUFFICES ASSUME TypeOK, MTUInv, [Next]_vars PROVE MTUInv' OBVIOUS
<1> USE DEF opening, closing, poller, reading, setting, bounds, Ready
<1>0. /\ spc \in [Setters -> {"idle", "link", "store"}]
      /\ req \in [Setters -> [mtu : {0} \cup MinMTU .. MaxMTU, auth : BOOLEAN]]
  BY DEF TypeOK
<1>1. CASE UNCHANGED <<ostage, kmtu, mtu, spc, req>> BY <1>1 DEF MTUInv
<1>2. CASE OpenStep
  <2>1. /\ ostage \in {"open", "tunsetiff", "lookup", "dial", "setlink", "address",
                       "verifylink", "verifyaddress"}
        /\ UNCHANGED <<spc, req>>
    BY <1>2, OpenOrder DEF OpenStep
  <2>2. \A s \in Setters : spc[s] = "idle" BY <2>1 DEF MTUInv
  <2>3. ostage' \in {"address", "verifylink", "verifyaddress"} => kmtu' = ConfigMTU
    BY <1>2, <2>1, OpenOrder DEF OpenStep, MTUInv
  <2>4. ostage' = "ready" => mtu' = kmtu'
    BY <1>2, <2>1, OpenOrder DEF OpenStep, MTUInv
  <2>5. QED BY <2>1, <2>2, <2>3, <2>4 DEF MTUInv
<1>3. CASE OpenRefused \/ fail \/ failNL
  <2>1. ostage # "ready" /\ ostage' = "failed" /\ UNCHANGED <<spc, req>>
    BY <1>3 DEF OpenRefused, fail, failNL, OpenFails, ConfigureSteps
  <2>2. QED BY <2>1 DEF MTUInv
<1>4. ASSUME NEW s \in Setters, NEW m, NEW auth, SetMTU(s, m, auth) PROVE MTUInv'
  <2>1. /\ ostage = "ready" /\ UNCHANGED <<ostage, kmtu, mtu>> /\ spc[s] = "idle"
        /\ spc' = [spc EXCEPT ![s] = "link"]
    BY <1>4 DEF SetMTU
  <2>2. /\ \A t \in Setters : spc'[t] = "link" /\ spc[t] = "idle" BY <1>0, <2>1 DEF OneSetter
  <2>3. QED BY <2>1, <2>2 DEF MTUInv
<1>5. ASSUME NEW s \in Setters, spc[s] # "idle" PROVE ostage = "ready"
  BY <1>5 DEF MTUInv
<1>6. ASSUME NEW s \in Setters, SetLink(s) PROVE MTUInv'
  <2>1. ostage = "ready" /\ ostage' = "ready" /\ mtu' = mtu BY <1>5, <1>6 DEF SetLink
  <2>2. \A t \in Setters : t = s BY DEF OneSetter
  <2>3. mtu = kmtu BY <1>6, <2>1, <2>2 DEF MTUInv, SetLink
  <2>4. CASE kmtu' = req[s].mtu /\ spc' = [spc EXCEPT ![s] = "store"] /\ UNCHANGED req
    <3>1. spc'[s] = "store" /\ req'[s] = req[s] BY <1>0, <2>4
    <3>2. QED BY <2>1, <2>2, <2>4, <3>1 DEF MTUInv
  <2>5. CASE SetReturns(s) /\ UNCHANGED kmtu
    <3>1. spc'[s] = "idle" BY <1>0, <2>5 DEF SetReturns
    <3>2. QED BY <2>1, <2>2, <2>3, <2>5, <3>1 DEF MTUInv
  <2>6. QED BY <1>6, <2>4, <2>5 DEF SetLink
<1>7. ASSUME NEW s \in Setters, StoreMTU(s) PROVE MTUInv'
  <2>1. ostage = "ready" /\ ostage' = "ready" /\ kmtu' = kmtu BY <1>5, <1>7 DEF StoreMTU
  <2>2. \A t \in Setters : t = s BY DEF OneSetter
  <2>3. mtu' = req[s].mtu /\ kmtu = req[s].mtu BY <1>7 DEF MTUInv, StoreMTU
  <2>4. spc'[s] = "idle" BY <1>0, <1>7 DEF StoreMTU, SetReturns
  <2>5. QED BY <2>1, <2>2, <2>3, <2>4 DEF MTUInv
<1>8. ASSUME NEW r \in Readers, NEW size, NEW cancelled,
             \/ Enter(r, size, cancelled) \/ ReadPacket(r) \/ DescriptorFails(r)
             \/ Cancel(r)
      PROVE  UNCHANGED <<ostage, kmtu, mtu, spc, req>>
  BY <1>8 DEF Enter, ReadPacket, Arm, Read, Wake, Returns, DescriptorFails, Cancel,
    TakesPacket, FailsWith, Got
<1>9. CASE WriteEnter \/ WritePacket \/ SetReadDeadline \/ Close \/ CloseFile \/ CloseWait
             \/ CloseLink \/ (\E n \in 1 .. MaxMTU : KernelSends(n))
  BY <1>1, <1>9 DEF WriteEnter, WritePacket, SetReadDeadline, Close, CloseFile, CloseWait,
    CloseLink, KernelSends
<1>10. CASE UNCHANGED vars BY <1>1, <1>10 DEF vars
<1>11. QED BY <1>1, <1>2, <1>3, <1>4, <1>6, <1>7, <1>8, <1>9, <1>10 DEF Next

\* With one caller of SetMTU, d.mtu is the interface's MTU whenever no SetMTU is at
\* work, after failed requests and a Close in the middle too.
THEOREM TunMTUAgrees ==
  ASSUME OneSetter
  PROVE  Spec => []MTUAgrees
<1>1. Init => MTUInv BY DEF Init, MTUInv, Ready
<1>2. TInv => TypeOK BY DEF TInv
<1>3. MTUInv => MTUAgrees BY DEF MTUInv, MTUAgrees
<1>4. QED BY <1>1, <1>2, <1>3, MTUNext, TInvariance, PTL DEF Spec

-------------------------------------------------------------------------------
\* One goroutine that reads: a deadline wakes every parked read, so that with more
\* of them one cancellation fails as many reads.
OneReader == \A r, t \in Readers : r = t

Failing == {r \in Readers : out[r].kind = "failure"}

\* The account of errors: each cancellation pays for one goroutine, then for the
\* deadline it sets, then for the error that deadline causes; each fault for one
\* failing read.
ErrorInv ==
    /\ \A r \in Readers : out[r].kind = "timeout" => deadline
    /\ stats.rxErrors + Cardinality(Failing) + pending + Cardinality(Cancelled)
         + (IF deadline THEN 1 ELSE 0) <= faults + cancels

\* Every step keeps the account.
LEMMA ErrorNext ==
  ASSUME OneReader
  PROVE  TInv /\ ErrorInv /\ [Next]_vars => ErrorInv'
<1> SUFFICES ASSUME TInv, ErrorInv, [Next]_vars PROVE ErrorInv' OBVIOUS
<1> USE DEF opening, closing, poller, reading, setting, bounds
<1> DEFINE D  == IF deadline THEN 1 ELSE 0
           E  == stats.rxErrors
           F  == Cardinality(Failing)
           C  == Cardinality(Cancelled)
<1>0. /\ TypeOK /\ ReadInv /\ deadline \in BOOLEAN
      /\ rpc \in [Readers -> {"idle", "arm", "read", "blocked", "return"}]
      /\ ctx \in [Readers -> BOOLEAN] /\ armed \in [Readers -> BOOLEAN]
      /\ stats \in Counters /\ out \in [Readers -> Results]
  BY DEF TInv, TypeOK, Counters, Results
<1>1. Failing \in SUBSET Readers /\ Cancelled \in SUBSET Readers BY DEF Failing, Cancelled
<1>2. E \in Nat /\ F \in Nat /\ C \in Nat /\ pending \in Nat /\ faults \in Nat /\ cancels \in Nat
  <2>1. F \in Nat /\ C \in Nat BY <1>1, CountReaders
  <2>2. E \in Nat BY <1>0 DEF Counters
  <2>3. MaxFaults \in Nat /\ MaxCancels \in Nat BY TunAssumption
  <2>4. pending \in Nat /\ faults \in Nat /\ cancels \in Nat BY <1>0, <2>3 DEF TypeOK
  <2>5. QED BY <2>1, <2>2, <2>4
<1>3. /\ \A r \in Readers : out[r].kind = "timeout" => deadline
      /\ E + F + pending + C + D <= faults + cancels
  BY DEF ErrorInv
<1>4. CASE UNCHANGED <<rpc, ctx, out, deadline, pending, cancels>> /\ stats'.rxErrors = E
             /\ faults' \in {faults, faults + 1}
  <2>1. Failing' = Failing /\ Cancelled' = Cancelled BY <1>4 DEF Failing, Cancelled
  <2>2. E + F + pending + C + D <= faults' + cancels BY <1>2, <1>3, <1>4
  <2>3. QED BY <1>3, <1>4, <2>1, <2>2 DEF ErrorInv
<1>5. ASSUME NEW r \in Readers, NEW size, NEW cancelled, Enter(r, size, cancelled) PROVE ErrorInv'
  <2>1. UNCHANGED <<out, deadline, pending, cancels, faults, stats>> BY <1>5 DEF Enter
  <2>2. Failing' = Failing /\ Cancelled' = Cancelled
    BY <1>0, <1>5 DEF Enter, Failing, Cancelled
  <2>3. QED BY <1>3, <2>1, <2>2 DEF ErrorInv
<1>6. ASSUME NEW r \in Readers, Arm(r) PROVE ErrorInv'
  <2>1. UNCHANGED <<out, deadline, cancels, faults, stats>> /\ Failing' = Failing
    BY <1>6 DEF Arm, Failing
  <2>2. pending' + Cardinality(Cancelled') = pending + C
    <3>1. CASE ctx[r]
      <4>1. r \in Cancelled /\ Cancelled' = Cancelled \ {r}
        BY <1>0, <1>6, <3>1 DEF Arm, Cancelled
      <4>2. Cardinality(Cancelled') = C - 1 BY <1>1, <4>1, CountReaders
      <4>3. pending' = pending + 1 BY <1>6, <3>1 DEF Arm
      <4>4. QED BY <1>2, <4>2, <4>3
    <3>2. CASE ~ctx[r]
      <4>1. Cancelled' = Cancelled BY <1>0, <1>6, <3>2 DEF Arm, Cancelled
      <4>2. QED BY <1>6, <3>2, <4>1 DEF Arm
    <3>3. QED BY <3>1, <3>2
  <2>3. pending' \in Nat /\ Cardinality(Cancelled') \in Nat
    <3>1. Cancelled' \in SUBSET Readers BY DEF Cancelled
    <3>2. QED BY <1>2, <1>6, <3>1, CountReaders DEF Arm
  <2>4. E + F + pending' + Cardinality(Cancelled') + D <= faults + cancels
    BY <1>2, <1>3, <2>2, <2>3
  <2>5. QED BY <1>3, <2>1, <2>4 DEF ErrorInv
<1>7. ASSUME NEW r \in Readers, Cancel(r) PROVE ErrorInv'
  <2>1. /\ UNCHANGED <<out, deadline, faults, stats>> /\ Failing' = Failing
        /\ cancels' = cancels + 1
    BY <1>7 DEF Cancel, Failing
  <2>2. \/ pending' = pending /\ Cardinality(Cancelled') = C + 1
        \/ pending' \in {pending, pending + 1} /\ Cardinality(Cancelled') = C
    <3>1. CASE rpc[r] = "arm"
      <4>1. r \notin Cancelled /\ Cancelled' = Cancelled \cup {r}
        BY <1>0, <1>7, <3>1 DEF Cancel, Cancelled
      <4>2. Cardinality(Cancelled') = C + 1 BY <1>1, <4>1, CountReaders
      <4>3. pending' = pending BY <1>0, <1>7, <3>1 DEF Cancel, ReadInv
      <4>4. QED BY <4>2, <4>3
    <3>2. CASE rpc[r] # "arm"
      <4>1. Cancelled' = Cancelled BY <1>0, <1>7, <3>2 DEF Cancel, Cancelled
      <4>2. QED BY <1>7, <4>1 DEF Cancel
    <3>3. QED BY <3>1, <3>2
  <2>3. E + F + pending' + Cardinality(Cancelled') + D <= faults + cancels'
    BY <1>2, <1>3, <2>1, <2>2
  <2>4. QED BY <1>3, <2>1, <2>3 DEF ErrorInv
<1>8. CASE SetReadDeadline
  <2>1. /\ UNCHANGED <<out, faults, cancels, stats>> /\ Failing' = Failing
        /\ Cancelled' = Cancelled /\ pending' = pending - 1 /\ pending > 0
        /\ deadline => deadline'
    BY <1>0, <1>8 DEF SetReadDeadline, Failing, Cancelled
  <2>2. E + F + pending' + C + (IF deadline' THEN 1 ELSE 0) <= faults + cancels
    BY <1>2, <1>3, <2>1
  <2>3. QED BY <1>3, <2>1, <2>2 DEF ErrorInv
<1>9. ASSUME NEW r \in Readers, rpc[r] \in {"read", "blocked"}, NEW o, Got(r, o),
             \/ o.kind \in {"packet", "closed"} /\ UNCHANGED faults
             \/ o.kind = "timeout" /\ deadline /\ UNCHANGED faults
             \/ o.kind = "failure" /\ faults' = faults + 1
      PROVE  ErrorInv'
  <2>1. /\ UNCHANGED <<deadline, pending, cancels, stats, ctx>>
        /\ out' = [out EXCEPT ![r] = o] /\ rpc' = [rpc EXCEPT ![r] = "return"]
    BY <1>9 DEF Got
  <2>2. out[r].kind = "none" BY <1>0, <1>9 DEF ReadInv, Nothing
  <2>3. Cancelled' = Cancelled BY <1>0, <1>9, <2>1 DEF Cancelled
  <2>4. \A t \in Readers : out'[t].kind = "timeout" => deadline
    BY <1>0, <1>3, <1>9, <2>1
  <2>5. CASE o.kind = "failure"
    <3>1. r \notin Failing /\ Failing' = Failing \cup {r}
      BY <1>0, <2>1, <2>2, <2>5 DEF Failing
    <3>2. Cardinality(Failing') = F + 1 BY <1>1, <3>1, CountReaders
    <3>3. E + Cardinality(Failing') + pending + C + D <= faults' + cancels
      BY <1>2, <1>3, <1>9, <2>5, <3>2
    <3>4. QED BY <2>1, <2>3, <2>4, <3>3 DEF ErrorInv
  <2>6. CASE o.kind # "failure"
    <3>1. Failing' = Failing BY <1>0, <2>1, <2>2, <2>6 DEF Failing
    <3>2. QED BY <1>3, <1>9, <2>1, <2>3, <2>4, <2>6, <3>1 DEF ErrorInv
  <2>7. QED BY <2>5, <2>6
<1>10. ASSUME NEW r \in Readers, Read(r) \/ Wake(r) \/ DescriptorFails(r) PROVE ErrorInv'
  <2>1. rpc[r] \in {"read", "blocked"} BY <1>10 DEF Read, Wake, DescriptorFails
  <2>2. CASE rpc' = [rpc EXCEPT ![r] = "blocked"]
             /\ UNCHANGED <<opening, closing, poller, rxq, ctx, armed, out, setting, wpc,
                           stats, taken, bounds>>
    <3>1. Failing' = Failing /\ Cancelled' = Cancelled
      BY <1>0, <2>1, <2>2 DEF Failing, Cancelled
    <3>2. QED BY <1>3, <2>2, <3>1 DEF ErrorInv
  <2>3. CASE TakesPacket(r)
    <3>1. Packet(Head(rxq)).kind = "packet" BY DEF Packet
    <3>2. QED BY <1>9, <2>1, <2>3, <3>1 DEF TakesPacket
  <2>4. CASE FailsWith(r, "closed")
    <3>1. Error("closed").kind = "closed" BY DEF Error
    <3>2. QED BY <1>9, <2>1, <2>4, <3>1 DEF FailsWith
  <2>5. CASE FailsWith(r, "timeout") /\ deadline
    <3>1. Error("timeout").kind = "timeout" BY DEF Error
    <3>2. QED BY <1>9, <2>1, <2>5, <3>1 DEF FailsWith
  <2>6. CASE DescriptorFails(r)
    <3>1. Error("failure").kind = "failure" BY DEF Error
    <3>2. QED BY <1>9, <2>1, <2>6, <3>1 DEF DescriptorFails, Fault
  <2>7. QED BY <1>10, <2>2, <2>3, <2>4, <2>5, <2>6 DEF Read, Wake
<1>11. ASSUME NEW r \in Readers, Returns(r) PROVE ErrorInv'
  <2>1. /\ UNCHANGED <<pending, cancels, faults, ctx>> /\ deadline' = FALSE
        /\ out' = [out EXCEPT ![r] = Nothing] /\ rpc' = [rpc EXCEPT ![r] = "idle"]
        /\ rpc[r] = "return"
    BY <1>11 DEF Returns
  <2>2. \A t \in Readers : t = r BY DEF OneReader
  <2>3. \A t \in Readers : out'[t].kind = "none" BY <1>0, <2>1, <2>2 DEF Nothing
  <2>4. Cancelled' = Cancelled BY <1>0, <2>1 DEF Cancelled
  <2>5. Failing' = Failing \ {r} BY <2>2, <2>3 DEF Failing
  <2>6. CASE out[r].kind = "failure"
    <3>1. Cardinality(Failing') = F - 1
      BY <1>1, <2>5, <2>6, CountReaders DEF Failing
    <3>2. stats'.rxErrors \in {E, E + 1}
      BY <1>0, <1>11, <2>6, ReturnsCounts, CountType
    <3>3. stats'.rxErrors + Cardinality(Failing') + pending + C + 0 <= faults + cancels
      BY <1>2, <1>3, <3>1, <3>2
    <3>4. QED BY <2>1, <2>3, <2>4, <3>3 DEF ErrorInv
  <2>7. CASE out[r].kind # "failure"
    <3>1. Failing' = Failing BY <2>5, <2>7 DEF Failing
    <3>2. \/ stats'.rxErrors = E
          \/ stats'.rxErrors = E + 1 /\ out[r].kind \notin {"packet", "closed", "failure"}
      BY <1>0, <1>11, <2>7, ReturnsCounts, CountType
    <3>3. CASE stats'.rxErrors = E
      <4>1. E + F + pending + C + 0 <= faults + cancels BY <1>2, <1>3
      <4>2. QED BY <2>1, <2>3, <2>4, <3>1, <3>3, <4>1 DEF ErrorInv
    <3>4. CASE stats'.rxErrors = E + 1 /\ out[r].kind \notin {"packet", "closed", "failure"}
      <4>1. out[r].kind = "timeout"
        <5>1. out[r].kind \in {"none", "packet", "closed", "timeout", "failure"}
          BY <1>0 DEF Results
        <5>2. out[r].kind # "none" BY <1>0, <2>1 DEF ReadInv
        <5>3. QED BY <3>4, <5>1, <5>2
      <4>2. D = 1 BY <1>3, <4>1
      <4>3. (E + 1) + F + pending + C + 0 <= faults + cancels BY <1>2, <1>3, <4>2
      <4>4. QED BY <2>1, <2>3, <2>4, <3>1, <3>4, <4>3 DEF ErrorInv
    <3>5. QED BY <3>2, <3>3, <3>4
  <2>8. QED BY <2>6, <2>7
<1>12. CASE WritePacket
  <2>1. Count("txErrors") \/ Count("txShort") \/ Count("txPackets") BY <1>12 DEF WritePacket
  <2>2. stats'.rxErrors = E BY <1>0, <2>1, CountType
  <2>3. QED BY <1>4, <1>12, <2>2 DEF WritePacket, Fault
<1>13. ASSUME NEW s \in Setters, NEW m, NEW auth, SetMTU(s, m, auth) \/ SetLink(s) \/ StoreMTU(s)
       PROVE  ErrorInv'
  BY <1>4, <1>13 DEF SetMTU, SetLink, StoreMTU, Fault
<1>14. CASE OpenStep \/ OpenRefused \/ fail \/ failNL \/ WriteEnter \/ Close \/ CloseFile
              \/ CloseWait \/ CloseLink \/ (\E n \in 1 .. MaxMTU : KernelSends(n))
  BY <1>4, <1>14 DEF OpenStep, OpenRefused, fail, failNL, OpenFails, WriteEnter, Close, CloseFile,
    CloseWait, CloseLink, KernelSends, Fault
<1>15. CASE UNCHANGED vars BY <1>4, <1>15 DEF vars
<1>16. QED
  BY <1>5, <1>6, <1>7, <1>8, <1>10, <1>11, <1>12, <1>13, <1>14, <1>15 DEF Next, ReadPacket

\* With one reader, a cancellation whose goroutine runs late costs the calls that
\* follow one error at most: the errors counted are paid for by failing system
\* calls and by cancellations, one each.
THEOREM TunOneErrorPerCancel ==
  ASSUME OneReader
  PROVE  Spec => []OneErrorPerCancel
<1>1. Init => ErrorInv
  <2> SUFFICES ASSUME Init PROVE ErrorInv OBVIOUS
  <2>1. Failing = {} BY DEF Init, Failing, Nothing
  <2>2. Cancelled = {} BY DEF Init, Cancelled
  <2>3. Cardinality(Failing) = 0 /\ Cardinality(Cancelled) = 0 BY <2>1, <2>2, FS_EmptySet
  <2>4. \A r \in Readers : out[r].kind # "timeout" BY DEF Init, Nothing
  <2>5. /\ stats.rxErrors = 0 /\ pending = 0 /\ deadline = FALSE /\ faults = 0 /\ cancels = 0
    BY DEF Init
  <2>6. QED BY <2>3, <2>4, <2>5 DEF ErrorInv
<1>2. TInv /\ ErrorInv => OneErrorPerCancel
  <2> SUFFICES ASSUME TInv, ErrorInv PROVE OneErrorPerCancel OBVIOUS
  <2>1. Cardinality(Failing) \in Nat /\ Cardinality(Cancelled) \in Nat
    BY CountReaders DEF Failing, Cancelled
  <2>2. MaxCancels \in Nat /\ MaxFaults \in Nat BY TunAssumption
  <2>3. /\ stats.rxErrors \in Nat /\ pending \in Nat /\ faults \in Nat /\ cancels \in Nat
    BY <2>2 DEF TInv, TypeOK
  <2>4. QED BY <2>1, <2>3 DEF ErrorInv, OneErrorPerCancel
<1>3. QED BY <1>1, <1>2, ErrorNext, TInvariance, PTL DEF Spec
-------------------------------------------------------------------------------
\* Without the poller no deadline is ever set, so that no read times out and every
\* error is one of the descriptor.
QuietInv ==
    /\ ~pollable /\ ~deadline
    /\ \A r \in Readers : out[r].kind # "timeout"
    /\ stats.rxErrors + Cardinality(Failing) <= faults

\* Every step keeps the account of the descriptor's errors.
LEMMA QuietNext == TInv /\ QuietInv /\ [Next]_vars => QuietInv'
<1> SUFFICES ASSUME TInv, QuietInv, [Next]_vars PROVE QuietInv' OBVIOUS
<1> USE DEF opening, closing, poller, reading, setting, bounds
<1> DEFINE E == stats.rxErrors
           F == Cardinality(Failing)
<1>0. /\ TypeOK /\ ReadInv
      /\ rpc \in [Readers -> {"idle", "arm", "read", "blocked", "return"}]
      /\ stats \in Counters /\ out \in [Readers -> Results]
  BY DEF TInv, TypeOK, Counters, Results
<1>1. Failing \in SUBSET Readers BY DEF Failing
<1>2. E \in Nat /\ F \in Nat /\ faults \in Nat
  <2>1. F \in Nat BY <1>1, CountReaders
  <2>2. E \in Nat BY <1>0 DEF Counters
  <2>3. MaxFaults \in Nat BY TunAssumption
  <2>4. faults \in Nat BY <1>0, <2>3 DEF TypeOK
  <2>5. QED BY <2>1, <2>2, <2>4
<1>3. /\ ~pollable /\ ~deadline /\ E + F <= faults
      /\ \A r \in Readers : out[r].kind # "timeout"
  BY DEF QuietInv
<1>4. CASE UNCHANGED <<out, deadline, pollable>> /\ stats'.rxErrors = E
             /\ faults' \in {faults, faults + 1}
  <2>1. Failing' = Failing BY <1>4 DEF Failing
  <2>2. E + F <= faults' BY <1>2, <1>3, <1>4
  <2>3. QED BY <1>3, <1>4, <2>1, <2>2 DEF QuietInv
<1>5. ASSUME NEW r \in Readers, NEW size, NEW cancelled,
             Enter(r, size, cancelled) \/ Arm(r) \/ Cancel(r)
      PROVE  QuietInv'
  BY <1>4, <1>5 DEF Enter, Arm, Cancel
<1>6. CASE SetReadDeadline
  <2>1. UNCHANGED <<out, pollable, stats, faults>> /\ ~deadline'
    BY <1>3, <1>6 DEF SetReadDeadline
  <2>2. Failing' = Failing BY <2>1 DEF Failing
  <2>3. QED BY <1>3, <2>1, <2>2 DEF QuietInv
<1>7. ASSUME NEW r \in Readers, rpc[r] # "return", NEW o, Got(r, o),
             \/ o.kind \in {"packet", "closed"} /\ UNCHANGED faults
             \/ o.kind = "failure" /\ faults' = faults + 1
      PROVE  QuietInv'
  <2>1. /\ UNCHANGED <<deadline, pollable, stats>> /\ out' = [out EXCEPT ![r] = o]
    BY <1>7 DEF Got
  <2>2. out[r].kind = "none" BY <1>0, <1>7 DEF ReadInv, Nothing
  <2>3. \A t \in Readers : out'[t].kind # "timeout" BY <1>0, <1>3, <1>7, <2>1
  <2>4. CASE o.kind = "failure"
    <3>1. r \notin Failing /\ Failing' = Failing \cup {r}
      BY <1>0, <2>1, <2>2, <2>4 DEF Failing
    <3>2. Cardinality(Failing') = F + 1 BY <1>1, <3>1, CountReaders
    <3>3. E + Cardinality(Failing') <= faults' BY <1>2, <1>3, <1>7, <2>4, <3>2
    <3>4. QED BY <1>3, <2>1, <2>3, <3>3 DEF QuietInv
  <2>5. CASE o.kind # "failure"
    <3>1. Failing' = Failing BY <1>0, <2>1, <2>2, <2>5 DEF Failing
    <3>2. QED BY <1>3, <1>7, <2>1, <2>3, <2>5, <3>1 DEF QuietInv
  <2>6. QED BY <2>4, <2>5
<1>8. ASSUME NEW r \in Readers, Read(r) \/ Wake(r) \/ DescriptorFails(r) PROVE QuietInv'
  <2>1. rpc[r] # "return" BY <1>8 DEF Read, Wake, DescriptorFails
  <2>2. CASE UNCHANGED <<out, deadline, pollable, stats, faults>> BY <1>4, <2>2
  <2>3. CASE TakesPacket(r)
    <3>1. Packet(Head(rxq)).kind = "packet" BY DEF Packet
    <3>2. QED BY <1>7, <2>1, <2>3, <3>1 DEF TakesPacket
  <2>4. CASE FailsWith(r, "closed")
    <3>1. Error("closed").kind = "closed" BY DEF Error
    <3>2. QED BY <1>7, <2>1, <2>4, <3>1 DEF FailsWith
  <2>5. CASE DescriptorFails(r)
    <3>1. Error("failure").kind = "failure" BY DEF Error
    <3>2. QED BY <1>7, <2>1, <2>5, <3>1 DEF DescriptorFails, Fault
  <2>6. QED BY <1>3, <1>8, <2>2, <2>3, <2>4, <2>5 DEF Read, Wake
<1>9. ASSUME NEW r \in Readers, Returns(r) PROVE QuietInv'
  <2>1. /\ UNCHANGED <<pollable, faults>> /\ deadline' = FALSE
        /\ out' = [out EXCEPT ![r] = Nothing] /\ rpc[r] = "return"
    BY <1>9 DEF Returns
  <2>2. Nothing.kind = "none" BY DEF Nothing
  <2>3. /\ \A t \in Readers : out'[t].kind # "timeout"
        /\ Failing' = Failing \ {r}
    BY <1>0, <1>3, <2>1, <2>2 DEF Failing
  <2>4. CASE out[r].kind = "failure"
    <3>1. Cardinality(Failing') = F - 1 BY <1>1, <2>3, <2>4, CountReaders DEF Failing
    <3>2. stats'.rxErrors \in {E, E + 1} BY <1>0, <1>9, <2>4, ReturnsCounts, CountType
    <3>3. stats'.rxErrors + Cardinality(Failing') <= faults BY <1>2, <1>3, <3>1, <3>2
    <3>4. QED BY <1>3, <2>1, <2>3, <3>3 DEF QuietInv
  <2>5. CASE out[r].kind # "failure"
    <3>1. Failing' = Failing BY <2>3, <2>5 DEF Failing
    <3>2. out[r].kind \in {"packet", "closed"}
      <4>1. out[r].kind \in {"none", "packet", "closed", "timeout", "failure"}
        BY <1>0 DEF Results
      <4>2. out[r].kind # "none" BY <1>0, <2>1 DEF ReadInv
      <4>3. QED BY <1>3, <2>5, <4>1, <4>2
    <3>3. stats'.rxErrors = E BY <1>0, <1>9, <3>2, ReturnsCounts, CountType
    <3>4. QED BY <1>3, <2>1, <2>3, <3>1, <3>3 DEF QuietInv
  <2>6. QED BY <2>4, <2>5
<1>10. CASE WritePacket
  <2>1. Count("txErrors") \/ Count("txShort") \/ Count("txPackets") BY <1>10 DEF WritePacket
  <2>2. stats'.rxErrors = E BY <1>0, <2>1, CountType
  <2>3. QED BY <1>4, <1>10, <2>2 DEF WritePacket, Fault
<1>11. ASSUME NEW s \in Setters, NEW m, NEW auth, SetMTU(s, m, auth) \/ SetLink(s) \/ StoreMTU(s)
       PROVE  QuietInv'
  BY <1>4, <1>11 DEF SetMTU, SetLink, StoreMTU, Fault
<1>12. CASE OpenStep \/ OpenRefused \/ fail \/ failNL \/ WriteEnter \/ Close \/ CloseFile
              \/ CloseWait \/ CloseLink \/ (\E n \in 1 .. MaxMTU : KernelSends(n))
  BY <1>4, <1>12 DEF OpenStep, OpenRefused, fail, failNL, OpenFails, WriteEnter, Close, CloseFile,
    CloseWait, CloseLink, KernelSends, Fault
<1>13. CASE UNCHANGED vars BY <1>4, <1>13 DEF vars
<1>14. QED
  BY <1>5, <1>6, <1>8, <1>9, <1>10, <1>11, <1>12, <1>13 DEF Next, ReadPacket

\* On a descriptor the poller does not watch, as Open makes it, no cancellation is
\* counted as an error, for any number of readers: the price of the blocking
\* descriptor is ParkedReadEnds, that of a polled one CancelNotCounted.
THEOREM TunCancelNotCounted ==
  ASSUME TRUE \notin Pollables
  PROVE  Spec => []CancelNotCounted
<1>1. Init => QuietInv
  <2> SUFFICES ASSUME Init PROVE QuietInv OBVIOUS
  <2>1. Failing = {} /\ \A r \in Readers : out[r].kind # "timeout"
    BY DEF Init, Failing, Nothing
  <2>2. Cardinality(Failing) = 0 BY <2>1, FS_EmptySet
  <2>3. pollable = FALSE /\ deadline = FALSE /\ stats.rxErrors = 0 /\ faults = 0
    BY TunAssumption DEF Init
  <2>4. QED BY <2>1, <2>2, <2>3 DEF QuietInv
<1>2. TInv /\ QuietInv => CancelNotCounted
  <2> SUFFICES ASSUME TInv, QuietInv PROVE CancelNotCounted OBVIOUS
  <2>1. Cardinality(Failing) \in Nat BY CountReaders DEF Failing
  <2>2. MaxFaults \in Nat BY TunAssumption
  <2>3. stats.rxErrors \in Nat /\ faults \in Nat BY <2>2 DEF TInv, TypeOK
  <2>4. QED BY <2>1, <2>3 DEF QuietInv, CancelNotCounted
<1>3. QED BY <1>1, <1>2, QuietNext, TInvariance, PTL DEF Spec
===============================================================================
