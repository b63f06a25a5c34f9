------------------------------- MODULE TunDevice -------------------------------
(***************************************************************************)
(* linuxDevice (internal/tun/tun_linux.go): Open, and the concurrent calls *)
(* of ReadPacket, WritePacket, SetMTU and Close on the open device, with   *)
(* the goroutine that context.AfterFunc starts when a read is cancelled.   *)
(*                                                                         *)
(* A packet is its length. Of the counters those of packets and errors are *)
(* kept; byte counters, names and addresses are left out.                  *)
(***************************************************************************)
EXTENDS Naturals, Sequences, FiniteSets

CONSTANTS
    Readers,     \* goroutines that call ReadPacket, one call after the other
    Setters,     \* goroutines that call SetMTU
    Requests,    \* the MTUs they ask for
    MinMTU, MaxMTU,
    ConfigMTU,   \* Config.MTU
    MaxPacket,   \* Config.MaxPacket
    Pollables,   \* may the runtime's poller watch the descriptor: TRUE, FALSE or either
    MaxQueue,    \* bound on the packets the kernel holds
    MaxSent,     \* bound on the packets the kernel hands up
    MaxWrites,   \* bound on the calls of WritePacket
    MaxCancels,  \* bound on cancelled contexts
    MaxFaults    \* bound on failing system calls

ASSUME TunAssumption ==
    /\ IsFiniteSet(Readers)
    /\ MinMTU \in Nat /\ MaxMTU \in Nat /\ MinMTU > 0
    /\ ConfigMTU \in MinMTU .. MaxMTU      \* Config.validate
    /\ MaxPacket \in Nat
    /\ Requests \subseteq Nat
    /\ Pollables \subseteq BOOLEAN
    /\ {MaxQueue, MaxSent, MaxWrites, MaxCancels, MaxFaults} \subseteq Nat

VARIABLES
    ostage,    \* the next step of Open, or how it ended
    fd,        \* the kernel's descriptor is open
    shut,      \* Close of the os.File has begun
    nl,        \* the netlink connection is open
    kmtu,      \* the interface's MTU
    mtu,       \* d.mtu
    closed,    \* d.closed
    cstage,    \* the next step of Close
    rxq,       \* packets the kernel holds for a reader
    deadline,  \* the descriptor's read deadline is in the past
    pending,   \* AfterFunc goroutines that have not set the deadline yet
    pollable,  \* the runtime's poller watches the descriptor
    rpc,       \* per reader: the next step of ReadPacket
    ctx,       \* per reader: its context is cancelled
    armed,     \* per reader: its AfterFunc is registered
    out,       \* per reader: what Read returned
    spc,       \* per setter: the next step of SetMTU
    req,       \* per setter: the MTU it applies, and its authentication
    wpc,       \* the next step of WritePacket
    stats,     \* counters
    taken,     \* packets a Read has taken from the kernel (history)
    sent, writes, cancels, faults

opening == <<ostage, fd, nl, kmtu, mtu>>
closing == <<closed, shut, cstage>>
poller  == <<deadline, pending, pollable>>
reading == <<rpc, ctx, armed, out>>
setting == <<spc, req>>
bounds  == <<sent, writes, cancels, faults>>
vars    == <<opening, closing, poller, rxq, reading, setting, wpc, stats, taken, bounds>>

NoRequest == [mtu |-> 0, auth |-> FALSE]
Nothing   == [kind |-> "none", n |-> 0]
Packet(n) == [kind |-> "packet", n |-> n]
Error(k)  == [kind |-> k, n |-> 0]

\* Config.maxPacket, evaluated once, in Open.
maxPacket == IF MaxPacket > 0 THEN MaxPacket ELSE ConfigMTU

Init ==
    /\ ostage = "open" /\ fd = FALSE /\ nl = FALSE
    /\ kmtu = 0 /\ mtu = 0
    /\ closed = FALSE /\ shut = FALSE /\ cstage = "idle"
    /\ rxq = <<>>
    /\ deadline = FALSE /\ pending = 0 /\ pollable \in Pollables
    /\ rpc = [r \in Readers |-> "idle"]
    /\ ctx = [r \in Readers |-> FALSE]
    /\ armed = [r \in Readers |-> FALSE]
    /\ out = [r \in Readers |-> Nothing]
    /\ spc = [s \in Setters |-> "idle"]
    /\ req = [s \in Setters |-> NoRequest]
    /\ wpc = "idle"
    /\ stats = [rxPackets |-> 0, rxErrors |-> 0, rxOversize |-> 0,
                txPackets |-> 0, txErrors |-> 0, txShort |-> 0]
    /\ taken = 0
    /\ sent = 0 /\ writes = 0 /\ cancels = 0 /\ faults = 0

Fault == faults < MaxFaults /\ faults' = faults + 1

Count(c) == stats' = [stats EXCEPT ![c] = @ + 1]

-------------------------------------------------------------------------------
\* Open: every system call may fail.
OpenSteps == <<"open", "tunsetiff", "lookup", "dial", "setlink", "address",
               "verifylink", "verifyaddress">>

After(step) ==
    CHOOSE s \in {"tunsetiff", "lookup", "dial", "setlink", "address", "verifylink",
                  "verifyaddress", "ready"} :
      \E i \in 1 .. 8 : OpenSteps[i] = step
                        /\ s = (IF i = 8 THEN "ready" ELSE OpenSteps[i + 1])

OpenStep ==
    /\ ostage \in {OpenSteps[i] : i \in 1 .. 8}
    /\ ostage' = After(ostage)
    /\ fd' = (fd \/ ostage = "open")
    /\ nl' = (nl \/ ostage = "dial")
    /\ kmtu' = IF ostage = "setlink" THEN ConfigMTU ELSE kmtu
    /\ mtu' = IF ostage = "verifyaddress" THEN ConfigMTU ELSE mtu
    /\ UNCHANGED <<closing, poller, rxq, reading, setting, wpc, stats, taken, bounds>>

\* Open gives up in one of `steps`.
OpenFails(steps) ==
    /\ ostage \in steps
    /\ Fault
    /\ ostage' = "failed"
    /\ UNCHANGED <<kmtu, mtu, closing, poller, rxq, reading, setting, wpc, stats, taken,
                   sent, writes, cancels>>

\* There is no descriptor yet.
OpenRefused == OpenFails({"open"}) /\ UNCHANGED <<fd, nl>>

\* "From here every early return must close fd."
fail ==
    /\ OpenFails({"tunsetiff", "lookup", "dial"})
    /\ fd' = FALSE
    /\ UNCHANGED nl

ConfigureSteps == {"setlink", "address", "verifylink", "verifyaddress"}

failNLKeepsLink ==   \* mutant: fail where failNL is due
    /\ OpenFails(ConfigureSteps)
    /\ fd' = FALSE
    /\ UNCHANGED nl

\* From the dial on the netlink connection is to be closed too.
failNL ==
    /\ OpenFails(ConfigureSteps)
    /\ nl' = FALSE
    /\ fd' = FALSE

Ready == ostage = "ready"

\* The reads that wait for a packet: in the poller, or in the system call without
\* it. Each holds a reference to the file.
Parked == {r \in Readers : rpc[r] = "blocked"}

-------------------------------------------------------------------------------
\* ReadPacket up to AfterFunc. On a closed device, with a buffer of no more than
\* maxPacket bytes, or with a context already cancelled, it returns at once.
Enter(r, size, cancelled) ==
    /\ Ready
    /\ rpc[r] = "idle"
    /\ ~closed /\ size > maxPacket /\ ~cancelled
    /\ rpc' = [rpc EXCEPT ![r] = "arm"]
    /\ ctx' = [ctx EXCEPT ![r] = cancelled]
    /\ UNCHANGED <<opening, closing, poller, rxq, armed, out, setting, wpc, stats, taken, bounds>>

\* mutant: a hook that only sees cancellations after its registration
ArmLate(r) ==
    /\ rpc[r] = "arm"
    /\ rpc' = [rpc EXCEPT ![r] = "read"]
    /\ armed' = [armed EXCEPT ![r] = TRUE]
    /\ UNCHANGED <<opening, closing, poller, rxq, ctx, out, setting, wpc, stats, taken, bounds>>

\* context.AfterFunc: on a context already cancelled the goroutine starts at once.
Arm(r) ==
    /\ rpc[r] = "arm"
    /\ rpc' = [rpc EXCEPT ![r] = "read"]
    /\ armed' = [armed EXCEPT ![r] = ~ctx[r]]
    /\ pending' = IF ctx[r] THEN pending + 1 ELSE pending
    /\ UNCHANGED <<opening, closing, deadline, pollable, rxq, ctx, out, setting, wpc, stats,
                   taken, bounds>>

Cancel(r) ==
    /\ rpc[r] # "idle" /\ ~ctx[r]
    /\ cancels < MaxCancels
    /\ cancels' = cancels + 1
    /\ ctx' = [ctx EXCEPT ![r] = TRUE]
    /\ armed' = [armed EXCEPT ![r] = FALSE]
    /\ pending' = IF armed[r] THEN pending + 1 ELSE pending
    /\ UNCHANGED <<opening, closing, deadline, pollable, rxq, rpc, out, setting, wpc, stats,
                   taken, sent, writes, faults>>

\* The goroutine: SetReadDeadline(time.Unix(0, 1)), its error ignored. It fails on
\* a descriptor that is closed or that the poller does not watch.
SetReadDeadline ==
    /\ pending > 0
    /\ pending' = pending - 1
    /\ deadline' = (deadline \/ (pollable /\ ~shut))
    /\ UNCHANGED <<opening, closing, pollable, rxq, reading, setting, wpc, stats, taken, bounds>>

\* Read of the os.File has returned and dropped its reference: the last one on a
\* file that is being closed closes the descriptor.
Got(r, o) ==
    /\ rpc' = [rpc EXCEPT ![r] = "return"]
    /\ out' = [out EXCEPT ![r] = o]
    /\ fd' = (fd /\ ~(shut /\ Parked \subseteq {r}))
    /\ UNCHANGED <<ostage, nl, kmtu, mtu, closing, poller, ctx, armed, setting, wpc, stats,
                   sent, writes, cancels>>

TakesPacket(r) ==
    /\ rxq # <<>>
    /\ Got(r, Packet(Head(rxq)))
    /\ rxq' = Tail(rxq)
    /\ taken' = taken + 1
    /\ UNCHANGED faults

FailsWith(r, k) ==
    /\ Got(r, Error(k))
    /\ UNCHANGED <<rxq, taken, faults>>

DescriptorFails(r) ==
    /\ rpc[r] \in {"read", "blocked"}
    /\ Fault
    /\ Got(r, Error("failure"))
    /\ UNCHANGED <<rxq, taken>>

\* The first attempt looks at the deadline before it tries the system call.
Read(r) ==
    /\ rpc[r] = "read"
    /\ IF shut THEN FailsWith(r, "closed")
       ELSE IF deadline THEN FailsWith(r, "timeout")
       ELSE IF rxq # <<>> THEN TakesPacket(r)
       ELSE /\ rpc' = [rpc EXCEPT ![r] = "blocked"]
            /\ UNCHANGED <<opening, closing, poller, rxq, ctx, armed, out, setting, wpc,
                           stats, taken, bounds>>

\* A parked read: the poller wakes it for a packet, a deadline or a Close; without
\* the poller it sits in the system call, which only a packet ends.
Wake(r) ==
    /\ rpc[r] = "blocked"
    /\ \/ pollable /\ shut /\ FailsWith(r, "closed")
       \/ pollable /\ deadline /\ FailsWith(r, "timeout")
       \/ TakesPacket(r)

\* mutant: the context is looked at before the error
ClassifyCtxFirst(r) ==
    CASE ctx[r]                   -> "ctx"
      [] out[r].kind = "packet" -> IF out[r].n > maxPacket THEN "toolarge" ELSE "ok"
      [] OTHER                  -> IF out[r].kind = "closed" THEN "closed" ELSE "error"

\* What ReadPacket makes of what Read returned.
Classify(r) ==
    CASE out[r].kind = "packet" -> IF out[r].n > maxPacket THEN "toolarge" ELSE "ok"
      [] OTHER -> IF ctx[r] THEN "ctx"
                  ELSE IF out[r].kind = "closed" THEN "closed" ELSE "error"

ReturnsUncleared(r) ==   \* mutant: the deadline is not cleared
    /\ rpc[r] = "return"
    /\ CASE Classify(r) = "ok"       -> Count("rxPackets")
         [] Classify(r) = "toolarge" -> Count("rxOversize")
         [] Classify(r) = "error"    -> Count("rxErrors")
         [] OTHER                    -> UNCHANGED stats
    /\ rpc' = [rpc EXCEPT ![r] = "idle"]
    /\ armed' = [armed EXCEPT ![r] = FALSE]
    /\ out' = [out EXCEPT ![r] = Nothing]
    /\ UNCHANGED <<opening, closing, poller, rxq, ctx, setting, wpc, taken, bounds>>

\* The result, its counter, and the deferred calls: stop the AfterFunc if it has
\* not started, clear the deadline.
Returns(r) ==
    /\ rpc[r] = "return"
    /\ CASE Classify(r) = "ok"       -> Count("rxPackets")
         [] Classify(r) = "toolarge" -> Count("rxOversize")
         [] Classify(r) = "error"    -> Count("rxErrors")
         [] OTHER                    -> UNCHANGED stats
    /\ rpc' = [rpc EXCEPT ![r] = "idle"]
    /\ armed' = [armed EXCEPT ![r] = FALSE]
    /\ out' = [out EXCEPT ![r] = Nothing]
    /\ deadline' = FALSE
    /\ UNCHANGED <<opening, closing, pending, pollable, rxq, ctx, setting, wpc, taken, bounds>>

ReadPacket(r) == Arm(r) \/ Read(r) \/ Wake(r) \/ Returns(r)

-------------------------------------------------------------------------------
\* WritePacket: the closed flag, then the write, which may meet a Close between.
WriteEnter ==
    /\ Ready
    /\ wpc = "idle" /\ writes < MaxWrites
    /\ writes' = writes + 1
    /\ wpc' = IF closed THEN "idle" ELSE "write"
    /\ UNCHANGED <<opening, closing, poller, rxq, reading, setting, stats, taken,
                   sent, cancels, faults>>

WritePacket ==
    /\ wpc = "write"
    /\ wpc' = "idle"
    /\ \/ shut /\ Count("txErrors") /\ UNCHANGED faults
       \/ ~shut /\ Fault /\ (Count("txErrors") \/ Count("txShort"))
       \/ ~shut /\ Count("txPackets") /\ UNCHANGED faults
    /\ UNCHANGED <<opening, closing, poller, rxq, reading, setting, taken,
                   sent, writes, cancels>>

-------------------------------------------------------------------------------
\* guardMTU, for a change of the current MTU.
GuardIgnoresRange(m, auth) == m <= mtu \/ auth         \* mutant

guardMTU(m, auth) == m \in MinMTU .. MaxMTU /\ (m <= mtu \/ auth)

SetMTU(s, m, auth) ==
    /\ Ready
    /\ spc[s] = "idle"
    /\ ~closed /\ guardMTU(m, auth) /\ m # mtu     \* else it returns at once
    /\ spc' = [spc EXCEPT ![s] = "link"]
    /\ req' = [req EXCEPT ![s] = [mtu |-> m, auth |-> auth]]
    /\ UNCHANGED <<opening, closing, poller, rxq, reading, wpc, stats, taken, bounds>>

\* The call is over, and its variables with it.
SetReturns(s) ==
    /\ spc' = [spc EXCEPT ![s] = "idle"]
    /\ req' = [req EXCEPT ![s] = NoRequest]

\* The netlink request; it fails once the connection is gone or the interface, which
\* is not persistent and goes with the descriptor, or by itself.
SetLinkStoresOnError(s) ==   \* mutant: an error does not keep d.mtu from changing
    /\ spc[s] = "link"
    /\ \/ nl /\ fd /\ kmtu' = req[s].mtu /\ UNCHANGED faults
       \/ nl /\ fd /\ Fault /\ UNCHANGED kmtu
       \/ ~(nl /\ fd) /\ UNCHANGED <<kmtu, faults>>
    /\ spc' = [spc EXCEPT ![s] = "store"]
    /\ UNCHANGED <<ostage, fd, nl, mtu, closing, poller, rxq, reading, req, wpc, stats, taken,
                   sent, writes, cancels>>

SetLink(s) ==
    /\ spc[s] = "link"
    /\ \/ /\ nl /\ fd
          /\ kmtu' = req[s].mtu
          /\ spc' = [spc EXCEPT ![s] = "store"]
          /\ UNCHANGED <<req, faults>>
       \/ nl /\ fd /\ Fault /\ SetReturns(s) /\ UNCHANGED kmtu
       \/ ~(nl /\ fd) /\ SetReturns(s) /\ UNCHANGED <<kmtu, faults>>
    /\ UNCHANGED <<ostage, fd, nl, mtu, closing, poller, rxq, reading, wpc, stats, taken,
                   sent, writes, cancels>>

StoreMTU(s) ==
    /\ spc[s] = "store"
    /\ mtu' = req[s].mtu
    /\ SetReturns(s)
    /\ UNCHANGED <<ostage, fd, nl, kmtu, closing, poller, rxq, reading, wpc, stats, taken,
                   bounds>>

-------------------------------------------------------------------------------
\* Close, once: the flag, the file, the netlink connection.
Close ==
    /\ Ready
    /\ cstage = "idle"
    /\ cstage' = "file"
    /\ closed' = TRUE
    /\ UNCHANGED <<opening, shut, poller, rxq, reading, setting, wpc, stats, taken, bounds>>

CloseFileSkipped ==   \* mutant: the flag alone is set
    /\ cstage = "file"
    /\ cstage' = "link"
    /\ UNCHANGED <<opening, closed, shut, poller, rxq, reading, setting, wpc, stats, taken,
                   bounds>>

\* Close of the os.File: later calls fail, the poller wakes the parked reads, and the
\* descriptor is closed with the last reference to the file. A file the poller
\* watches waits for that; one it does not watch returns.
CloseFile ==
    /\ cstage = "file"
    /\ shut' = TRUE
    /\ fd' = (fd /\ Parked # {})
    /\ cstage' = IF pollable /\ Parked # {} THEN "wait" ELSE "link"
    /\ UNCHANGED <<ostage, nl, kmtu, mtu, closed, poller, rxq, reading, setting, wpc, stats,
                   taken, bounds>>

CloseWait ==
    /\ cstage = "wait" /\ ~fd
    /\ cstage' = "link"
    /\ UNCHANGED <<opening, closed, shut, poller, rxq, reading, setting, wpc, stats, taken,
                   bounds>>

CloseLink ==
    /\ cstage = "link"
    /\ cstage' = "done"
    /\ nl' = FALSE
    /\ UNCHANGED <<ostage, fd, kmtu, mtu, closed, shut, poller, rxq, reading, setting, wpc, stats,
                   taken, bounds>>

\* The kernel hands up a packet no larger than the interface's MTU.
KernelSends(n) ==
    /\ Ready
    /\ fd
    /\ n <= kmtu
    /\ Len(rxq) < MaxQueue
    /\ sent < MaxSent
    /\ sent' = sent + 1
    /\ rxq' = Append(rxq, n)
    /\ UNCHANGED <<opening, closing, poller, reading, setting, wpc, stats, taken,
                   writes, cancels, faults>>

-------------------------------------------------------------------------------
Next ==
    \/ OpenStep \/ OpenRefused \/ fail \/ failNL
    \/ \E r \in Readers :
         \/ \E size \in maxPacket .. maxPacket + 1, cancelled \in BOOLEAN :
              Enter(r, size, cancelled)
         \/ ReadPacket(r)
         \/ DescriptorFails(r)
         \/ Cancel(r)
    \/ SetReadDeadline
    \/ WriteEnter \/ WritePacket
    \/ \E s \in Setters :
         \/ \E m \in Requests, auth \in BOOLEAN : SetMTU(s, m, auth)
         \/ SetLink(s)
         \/ StoreMTU(s)
    \/ Close \/ CloseFile \/ CloseWait \/ CloseLink
    \/ \E n \in 1 .. MaxMTU : KernelSends(n)

Spec == Init /\ [][Next]_vars

\* Goroutines that can run do run; nobody has to call, to cancel or to send.
FairSpec ==
    /\ Spec
    /\ \A r \in Readers : WF_vars(ReadPacket(r))
    /\ WF_vars(SetReadDeadline)
    /\ WF_vars(CloseFile) /\ WF_vars(CloseWait) /\ WF_vars(CloseLink)

-------------------------------------------------------------------------------
TypeOK ==
    /\ ostage \in {OpenSteps[i] : i \in 1 .. 8} \cup {"ready", "failed"}
    /\ {fd, nl, closed, shut, deadline, pollable} \subseteq BOOLEAN
    /\ {kmtu, mtu} \subseteq {0} \cup MinMTU .. MaxMTU
    /\ cstage \in {"idle", "file", "wait", "link", "done"}
    /\ rxq \in Seq(1 .. MaxMTU) /\ Len(rxq) <= MaxQueue
    /\ pending \in 0 .. MaxCancels
    /\ rpc \in [Readers -> {"idle", "arm", "read", "blocked", "return"}]
    /\ ctx \in [Readers -> BOOLEAN]
    /\ armed \in [Readers -> BOOLEAN]
    /\ out \in [Readers -> [kind : {"none", "packet", "closed", "timeout", "failure"},
                            n : 0 .. MaxMTU]]
    /\ spc \in [Setters -> {"idle", "link", "store"}]
    /\ req \in [Setters -> [mtu : {0} \cup MinMTU .. MaxMTU, auth : BOOLEAN]]
    /\ wpc \in {"idle", "write"}
    /\ stats \in [rxPackets : Nat, rxErrors : Nat, rxOversize : Nat,
                  txPackets : Nat, txErrors : Nat, txShort : Nat]
    /\ taken \in Nat
    /\ sent \in 0 .. MaxSent /\ writes \in 0 .. MaxWrites
    /\ cancels \in 0 .. MaxCancels /\ faults \in 0 .. MaxFaults

\* Nothing stays open: an Open that failed, in whichever of its steps, leaves neither
\* the descriptor nor the netlink connection behind (TUN-09), and neither does a Close
\* that has returned (TUN-10), except to a read parked in the system call without the
\* poller, and then only until that read ends.
NoDescriptorLeak ==
    /\ ostage = "failed" => ~fd /\ ~nl
    /\ cstage = "done" => ~nl /\ (fd => ~pollable /\ Parked # {})

\* A cancelled, failed or closed read swallows no packet: every packet taken from
\* the kernel was returned whole or counted as oversize, or is about to be.
NoPacketLost ==
    taken = stats.rxPackets + stats.rxOversize
            + Cardinality({r \in Readers : out[r].kind = "packet"})

\* d.mtu is the interface's MTU whenever no SetMTU is at work, failed ones
\* included.
MTUAgrees ==
    Ready /\ (\A s \in Setters : spc[s] = "idle") => mtu = kmtu

\* Without the poller a parked read sits in the system call, and only a packet or a
\* failing descriptor ends it: ParkedReadEnds.
Stuck(r) == ~pollable /\ r \in Parked

\* "A ctx that is cancelled unblocks the read" (Device.ReadPacket, TUN-19), in every
\* order of the registration, the goroutine and the read; without the poller as long
\* as the read is not parked.
CancelUnblocks ==
    \A r \in Readers : (rpc[r] # "idle" /\ ctx[r]) ~> (rpc[r] = "idle" \/ Stuck(r))

\* ErrClosed comes from "a read unblocked by Close": once the device is closed every
\* read in progress ends, the parked ones of an unwatched descriptor apart, and no
\* later one is ever left waiting.
CloseUnblocks == closed ~> [](\A r \in Readers : rpc[r] = "idle" \/ Stuck(r))

\* A read whose context is cancelled, on a device whose Close has returned, ends:
\* less than ReadPacket's comment asks of either.
ParkedReadEnds ==
    \A r \in Readers :
      (r \in Parked /\ ctx[r] /\ cstage = "done") ~> r \notin Parked

\* The counter of receive errors counts what the descriptor did, and no cancellation:
\* neither the cancelled call nor a later one, whose context is alive.
CancelNotCounted == stats.rxErrors <= faults

\* The goroutine of a cancelled read may set the deadline after that read has
\* returned, and the next read then fails. It costs one call and no more: beside
\* the failing descriptor's, there is at most one error per cancellation.
OneErrorPerCancel == stats.rxErrors <= faults + cancels
===============================================================================
