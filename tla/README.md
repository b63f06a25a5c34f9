# Red_MPUDP: specifications, model checking and proofs

Red_MPUDP is a multipath UDP tunnel in Go, at an early milestone: what exists is
the ground the tunnel will stand on. There is a crash-recovery journal and the
`cleanup` command that undoes a daemon's changes to the host, a TUN device, a pool
of packet buffers, bounded queues, a manual clock for tests, configuration loading
and key handling. The design documents under `docs/superpowers` also describe the
Noise handshake, path scheduling and replication; no code for those exists yet, so
nothing here models them.

This directory models the parts that have state and can go wrong in ways a unit
test hardly reaches, checks them with TLC on small instances, and proves the
properties that matter most with TLAPS for every value of the constants.
`PROJECT.json` is the index: components, runs, mutants, the map from definitions to
source lines, findings, hazards and theorems.

## Inventory

| Component | Source | State | Operations | Hard because |
|---|---|---|---|---|
| recovery | `internal/journal/recover.go`, `host_linux.go` | the host: routes, rules, nftables tables, sysctls, resolver | `Recover`: seven loops or steps, one gate | many calls, each may fail; the process may be killed; nothing keeps two cleanups apart; the operator uses the host too |
| journal schema | `internal/journal/schema.go` | none | `Validate`, `checkOwner` | decides what may be deleted as root |
| cleanup command | `cmd/red-mpudp/cleanup.go` | exit code | flags, `Load`, pins, `Recover` | is re-run until it succeeds |
| journal store | `internal/journal/store.go` | journal path, temporary files | `WriteTo`, `fsyncDir`, `Load`, `EnsureDir` | power loss between two system calls, readers during a rename |
| TUN device | `internal/tun/tun.go`, `tun_linux.go` | descriptor, netlink connection, MTU, counters, read deadline | `Open`, `ReadPacket`, `WritePacket`, `SetMTU`, `Close` | cancellation by a goroutine that sets a deadline, racing the read, the next read and Close |
| packet buffers | `internal/packetbuf/pool.go`, `internal/tun/pooled.go` | per-class `sync.Pool`, per-buffer fields | `Get`, `Resize`, `Release`, `ReadInto`, `WriteFrom` | ownership moves between goroutines; a recycled buffer carries its last life |
| bounded ring, byte queue | `internal/bounded/ring.go`, `queue.go` | slots, head, count, byte count | `Push`, `PushEvict`, `Pop`, `Peek`, `Reset`; `Enqueue`, `Dequeue`, `DropExpired` | wrap-around, budget arithmetic, expiry from the front only |
| test clock | `internal/testclock/clock.go` | time, timers, channels | `Set`, `Advance`, timers, tickers, `Stop`, `Reset` | `Set` drops its lock to deliver, so its own callbacks change the timers it walks |
| configuration | `internal/config/*.go`, `cmd/red-mpudp/config.go` | the accumulated problems, the `seen` maps | `Load`, defaults, `Validate` | unsigned wrap-around, early returns that hide later checks, per-element duplicates |
| identity, keys | `internal/identity`, `cmd/red-mpudp/keys.go`, `main.go` | key files | `keygen`, `psk`, `public-key`: `writeExclusive`, `LoadPrivateKeyFile`, `ParseKey` | two commands on one path, a torn file under the final name, the mode checked on a path that is opened again |
| congestion spike | `internal/congestion/phase0sim` | link queue, rates, smoothed RTT, next evaluation, last feedback, loss flag | `Run`: `step`, `observeLoss`, `feedback`, `tick` of two flows | a feedback loop sampled once per RTT, whose own output moves the RTT; integer division; feedback that stops |
| harness and forwarder | `test/integration` | network namespaces | shell commands, plaintext forwarding | outside the product |
| clock, reason codes, build info, QUIC experiment, Noise package | | none | | thin or constant; see `PROJECT.json` for each |

How they interact: the daemon (not written yet) records what it installs through
`WriteTo`; `cleanup` reads it with `Load` and hands it to `Recover`, which acts
through the `Host` interface. The TUN device fills buffers of the pool through
`ReadInto` and empties them through `WriteFrom`. `ByteQueue` is built on `Ring` and
takes its time from a clock. The key commands share only files with anything else.

What makes each correct:

* recovery is *fail-closed*: the kill switch is the last thing to go, and goes only
  from a host with no tunnel state; nothing of the operator's is touched; exit 0 means
  done; running it again changes nothing; it eventually succeeds;
* the store never exposes a partial journal and does not lose an acknowledged one;
* the TUN device leaks no descriptor, loses no packet, and can be unblocked;
* a packet buffer has one owner, is not leaked, and returns to its own class;
* ring and queue are FIFO, the byte count is exact, expiry leaves nothing expired;
* the test clock fires what is due, moves forward only, and accounts for every arming;
* an accepted configuration keeps uplinks, peers and rule priorities apart;
* a key that `keygen` or `psk` reported written is whole and keeps its path, and a
  partial one is never taken for a key;
* the rate controller answers every overflow, halves at most once per RTT, falls to its
  minimum when feedback stops, and with TCP beside it leaves no standing queue.

## Modules

| Module | Models | Read with |
|---|---|---|
| `FailClosed` | what recovery promises: tunnel state only shrinks, and kill-switch tables go only when none is left | |
| `Recovery` | `cleanup` and `Recover` over `LinuxHost` | `MCRecovery`, `RecoveryProofs` |
| `JournalStore` | `WriteTo`, `fsyncDir`, `Load` on a file system with a page cache | `MCFiles`, `FilesProofs` |
| `KeyFiles` | `keygen`, `psk` and `public-key` on one path | `MCFiles`, `FilesProofs` |
| `Fifo` | a bounded queue with eviction | |
| `Ring` | `Ring[T]`; implements `Fifo` | `MCPackets`, `RingProofs` |
| `ByteQueue` | `ByteQueue`, on an instance of `Ring` | `MCPackets`, `RingProofs` |
| `TunDevice` | `linuxDevice` | `TunDeviceProofs` |
| `PacketBuf` | `Pool`, `Buffer`, `ReadInto`, `WriteFrom` | `MCPackets`, `PacketBufProofs` |
| `TestClock` | the manual clock | `MCPackets`, `MCTestClock`, `TestClockProofs` |
| `Config` | loading, validation, repair and reload | `MCFiles`, `MCConfig`, `ConfigProofs` |
| `Congestion` | `Sim.Run`: the link, the controller and the TCP flow | `MCPackets`, `CongestionProofs` |

`MCFiles` and `MCPackets` each check several modules that share no state: a behaviour
chooses at its start which of them it is about.

### Recovery

`pc[p]` is the loop process `p` is in, `idx[p]` the record it is at, `errs[p]` the
length of the error list, `rep[p]` the report. Every `Host` call is one step
(`DeleteRoute`, `DeleteRule`, `RestoreResolver`, `GetSysctl`, `SetSysctl`,
`DeleteRouteTable`, `DeleteNFTable`); `Gate` is the `len(errs) > 0` test in front of
the tables and the kill switch. `Start` is the command's flag checks, `Load`, owner
pins and validation with its exit code. `Kill` ends a process anywhere; the
`Operator...` actions are other people's changes.

Abstractions and assumptions:

* Identifiers are opaque. A rule's family and priority are one selector `sel`; a
  route's destination, device and gateway one `dst`. "Malformed" stands for what the
  regular expressions reject.
* `ip route del` with no metric matches any metric, and the code omits metric 0
  (`Selects`); in the same way `ip rule del` with no fwmark matches any mark, and the
  code omits mark 0 (`SelectsRule`). A host's "not found" is success
  (`idempotentDelete`).
* A journal records each sysctl once (`SysctlsRecordedOnce`), and the operator keeps
  its routes out of the tunnel's tables (`RoutesAssumption`): a flush of a table cannot
  tell them apart.
* The journal stays on disk after a success, as in the code.
* `ResolverSupported` is FALSE for the present `LinuxHost`, whose `RestoreResolver`
  is a stub; TRUE stands for a Host that can restore.

### JournalStore

Every write has a file of its own, `cache` what processes see of it and `disk` what a
power loss leaves. `links` are the inodes the journal path has named, `synced` how
many of those renames are on stable storage; `PowerLoss` may fall back to any rename
not before `synced`. `WriteTo` is `CreateTemp`, `Chmod`, `Write`, `Sync`, `Close`,
`Rename`, `FsyncDir`, each of which may fail. `Load` opens, stats the open file and
reads it; other processes may add a hard link or loosen the mode in between, and a
`Load` that overlaps a `WriteTo` may be refused (the rename changes the link count it
sees). A `WriteTo` may return an error although its rename is in place. Where a
directory cannot be synced (EINVAL, which the code accepts) `AckedIsDurable` claims
nothing.

### TunDevice

`Open` is its eight system calls; a failure takes one of the code's three ways out, for
the steps that are on it: nothing is open yet (`OpenRefused`), `fail` closes the
descriptor, `failNL` the netlink connection too. `ReadPacket` is split at its checks, the
registration of the `AfterFunc`, the read, a blocked read and the return; `pending` counts
`AfterFunc` goroutines that were started and have not set the deadline yet, which `stop()`
does not wait for. `SetMTU` is the netlink call and the store.

`pollable` says whether the runtime poller watches the descriptor. The code opens it in
blocking mode, so that it does not (FALSE); its comments and tests expect that it does
(TRUE). `Pollables` are the cases a run or a theorem covers, and both are covered. An
`os.File` counts its references: `CloseFile` sets `shut`, which fails every later call,
while the kernel's descriptor `fd` is closed with the last reference. With the poller Close
wakes the parked reads and waits for them (`CloseWait`); without it Close returns, and a
read parked in the system call (`Parked`) keeps the descriptor, and with it the interface,
until a packet or an error ends it.

`Config.validate` is `TunAssumption`. The model allows any finite number of readers and
of `SetMTU` callers; the run has one of each, since `Device` does not promise concurrent
use of one method, apart from Close. Three properties need that: a deadline wakes every
parked read, so that with several readers one cancellation can fail as many reads; a read
that returns resets the deadline, and with it the one that another reader's cancellation
has just set, which leaves that reader parked; and two `SetMTU` callers can store in the
other order than their requests reached the kernel. The proofs name the conditions
(`OneReader`, `OneSetter`).

### PacketBuf

A goroutine gets, resizes, hands over, reads into, writes from and releases a buffer.
`Get` sets what the code sets; a buffer's class is set when `New` allocates it and
travels with the buffer from then on. `Release` is two steps, the stores and the `Put`,
because from the `Put` on the buffer is another goroutine's. `sync.Pool` may drop any buffer (`Collect`). Each owner calls
`Release` once, as the package asks; mutants that call it twice break `OneOwner`.

### Ring, ByteQueue

One step per call: neither is safe for concurrent use. `ByteQueue` adds ints of width
`IntMax` (`Plus` wraps); `DropExpired` is one iteration per step, with the clock
running on. `QueueAssumption` is what `NewByteQueue` and `Enqueue` panic without.
`BudgetFits` (`2 * MaxBytes <= IntMax`) is what keeps `curBytes + size` from overflowing;
the code does not check it.

### KeyFiles

A process runs one command, generates one key and may create one file, so its name is
also the name of its key and its inode. `Start` is the command line (secret-bearing
flags, subcommand, one path) and the generation, which may fail; `Create`, `WriteKey` and
`SyncKey` are `writeExclusive`, `StatKey`, `OpenKey` and `ReadKey` are
`LoadPrivateKeyFile`, each of which may fail with the command's exit code. `os.File.Write` is one `write(2)` after
another, so that a reader, a kill or a full disk finds any prefix. A text is a sequence
of kinds of characters (base64, padding, CR, NL, other), on which `ParseKey` does what
the code does; an encoded key has `KeyChars` of them. `KeyAssumption` asks for at least
one, and keeps the operator, the processes and "no file" apart.

* `unnamed` remembers which files the operator took from the path, or a power loss: the
  code syncs the file and not its directory, so a new name may be lost as a whole.
  `KeysKept` allows that and nothing else.
* The mode is checked on the path, which is then opened again: the operator may loosen
  the mode (`ChmodKey`) or replace the file between `StatKey` and `ReadKey`, and the key is
  read. No property is stated about the mode of what is read: it would have to exempt
  this case, and what is left of it is the guard of `StatKey`.
* A torn file keeps its name and every re-run is refused until the operator removes it,
  as in the code; `WholeKeys` says that nobody takes it for a key.

### Congestion

One step is one iteration of `Run`. Rates are bytes per iteration, and times are
relative to the present (`wait` is `nextEval - now`, `age` is `now - lastFeedback`), so
that the state space is finite without a bound on the clock; ages beyond `TooOld` are
alike. The link and the TCP flow use floats in the code and are rounded down here; the
controller's arithmetic is on integers, as in the code. The warm-up may end before any
iteration and the measuring window never ends, which covers every `WarmupNs` and
`MeasureNs`. `cut` and `owed` are history: the last halving, and the first overflow that
has not been answered. The delivered-byte counters are left out: nothing reads them
during a run.

### TestClock

`Set` takes the earliest due entry under the lock (`Fire`), delivers it without the
lock (`Deliver`), and goes on; other goroutines and callbacks act whenever the lock is
free, and may call `Set` or `Advance` themselves: `Setters` are the goroutines and the
callbacks that do. The package comment forbids the re-entrant call because it
"deadlocks"; it does not, since no lock is held during a delivery, and it is one more
overlapping `Set` here. `Durations` may be negative, as `NewTimer`, `AfterFunc` and `Reset`
accept them.

Time goes back in two ways. A negative duration gives an entry a deadline in the past,
which the next `Set` stores as the time (see Findings). And a `Set` that another has
overtaken while it delivered stores its own, smaller argument when it returns;
`BackOnlyIfOvertaken` says that nothing else does, for durations that are not negative
(`NoNegative`). A `Reset` of an `AfterFunc` timer that has fired or was stopped re-creates
its entry without the function, as in the code: it fires and runs nothing (see Findings).

### Config

One load is: read and decode (as one of a few outcomes), defaults, scalar checks, one
round per interface or peer with its `seen` maps, and the verdict. A refused file is
repaired where the report says and loaded again. `RulePriority` is `UintBits` wide: 32
in the code, 16 in the run, with bases on both sides of the wrap, and any width in the
proofs (`WidthAssumption`). `FilesAssumption` and `SpareAssumption` say that a base, read
or written by the operator, is a natural number, the field being unsigned, and that
`max_pending_handshakes` is an integer. `CarefulAssumption` is about the operator who
repairs: a value written over a reported one passes its check whatever the fields that were
not reported hold, and where values must be unique it is used nowhere else in the file. Of
the file itself it asks nothing more than the fields that `Validate` reads. TLC evaluates
it for the files and values of the run. Fields no check reads
(`scheduler.mode`, replica budgets, `log_level`) are left out. Three facts about the code
show in the model: a sum that wraps lets the largest bases pass, and a non-positive rate or
an invalid subnet ends or disables the checks that depend on it, so that the next load may
report more (`Hiding`; see Findings for both); and a peer may have the server's own tunnel
address, which nothing checks.

## Runs

| Run | What it shows | Bounds |
|---|---|---|
| `recovery_overlap` | Two overlapping cleanups of one journal with one fault or kill and one operator action: fail-closed teardown (refinement of `FailClosed`), `KillSwitchLast`, `ExitOkIsComplete`, `OperatorSysctlsKept`, `OperatorRoutingKept`, `RerunIsNoOp` | one record of each kind: each loop is entered, failed in and passed by both processes; one fault is enough for every "one failed, the other did not" |
| `recovery_rerun` | One cleanup re-run after up to two faults, with two routes, two kill-switch tables and a resolver record, or a journal `Validate` refuses: `CleanupSucceeds`, `ExitOkIsComplete` | two records per loop, so that one fails and the next succeeds |
| `files` | The journal: two writes and one refused journal, repeated loads, three faults, kills or power losses: `NeverTorn`, `AckedIsDurable`, `NoTempLeak`. A key file: three commands, two faults, kills, power losses or operator steps: `KeysKept`, `WholeKeys`. A configuration with up to two values at or beyond a bound: `UplinksApart`, `PeersApart`, `TwoReportsAreEnough` | two writes overlap and overtake each other; two writers of a key and one reader, with a key of two characters that can be cut at every place; symmetric in the valid writes and in the commands; pairs of bad values, so that one check can hide another, lists of up to five, and pairs of bad elements beside the scalars that their checks read |
| `packets` | The ring: `FifoOrder`, `NoStaleReference`. The byte queue: `BytesExact`, `NoExpiredLeft`. The pool, with three goroutines, three buffers and two classes: `OneOwner`, `NoLeak`, `BufferIntact`. The test clock, with two handles armed up to twice and two overlapping Sets: `NeverOverdue`, `ArmingAccounted`, `BackOnlyIfOvertaken`. The controller, from each of five rates, with three buffers: `StaleMeansMinimum`, `LossAnswered`, `CutsApart`, `SimQueueDrains` | capacity 3 wraps, fills and evicts, and its state space is complete; budget 4 with an int of at most 8, the tightest `BudgetFits` allows, and sizes on, under and over the budget; a buffer can pass through all three goroutines and the pool; two entries due at once or in order, re-armed during delivery; a buffer of the link below the delay target, one just above and one far above, so that loss, delay and neither drive the controller, four iterations per base RTT, rates on both sides of the capacity, and no bound on time |
| `tun` | From Open to Close with one failing call and two cancellations, with and without the poller: `NoDescriptorLeak`, `NoPacketLost`, `MTUAgrees`, `CancelUnblocks`, `CloseUnblocks` | two cancellations, so that a late deadline meets the next read; an MTU that can rise and fall, and requests beyond it |
| `recovery_resolver` | finding: a route goes before the resolver is restored | one cleanup of a journal with a resolver record |
| `recovery_nometric` | finding: the re-run takes the operator's route | one cleanup, run twice, of a journal with a route of metric 0 |
| `tun_parked` | finding: a parked read outlives its cancelled context and Close | one reader and one cancellation, on a descriptor the poller does not watch, which is the code's |
| `tun_late` | finding: a cancellation is counted as a descriptor error of a later call | one reader and one cancellation, on a descriptor the poller watches |
| `testclock_reset` | finding: a re-armed `AfterFunc` timer runs nothing | two handles, one goroutine that calls `Set` |
| `testclock_back` | finding: a negative duration steps the clock back | two handles, one goroutine that calls `Set`, durations from -1 to 1 |
| `config_report` | finding: a report does not name every value beyond its bound | one file with three such values |

Deadlock is checked except where the system may stop: a failed Open, a closed device,
an accepted configuration, a key command that has exited. Every property of a passing
run has a mutant in `PROJECT.json`: the operator beside the definition it replaces (marked "mutant"),
changed as a plausible bug would change it, under which TLC finds the property
violated.

### Fairness

* `Recovery!FairSpec`: a started cleanup keeps running, and the operator starts it
  again. The second is an assumption on the operator, which is what the command's
  message asks for; faults are bounded, so "once faults stop" is part of the claim.
  `Recoverable` names what the code needs: a valid journal, sysctls that still exist,
  and a Host that can restore a recorded resolver.
* `TunDevice!FairSpec`: goroutines that can run do run (the Go scheduler). Nobody is
  assumed to call, cancel or send.
* `Congestion!SimSpec`: `Run` is a loop of one goroutine that waits for nothing, so its
  iterations go on. `QueueDrains` uses no other fairness; `MCPackets!PacketsSpec` states it
  for the behaviours that are about the simulation, and `SimQueueDrains` is `QueueDrains`
  for those.

### Findings

* `recovery_resolver`. A comment says the resolver "must succeed before any rule,
  route, or kill-switch removal"; `Recover` deletes routes and rules first. The kill
  switch itself is kept (`KillSwitchLast`).
* `recovery_nometric`. A route recorded with metric 0 is deleted without a metric, and
  once the owned one is gone the delete takes the operator's route to the same
  destination, which the comment on `DeleteRoute` rules out. `recovery_overlap` shows
  that routes recorded with a metric are safe. Rules without a fwmark are deleted in the
  same way; no comment speaks of them, and the theorems name the condition.
* `tun_parked`. The TUN descriptor is opened in blocking mode, so `os.NewFile` does not
  give it to the poller. `SetReadDeadline` fails, its error is dropped, and a parked read
  outlives its cancelled context; Close does not wake it either, and returns while the read
  keeps the kernel's descriptor, and the interface, open. The interface comment and two
  tests (which need root) say that both end the read. The run asks for less than either:
  the read is cancelled *and* its device closed. `CancelUnblocks` and `CloseUnblocks` show
  that nothing else is left waiting, and that with the poller nothing is.
* `tun_late`. With the poller a cancelled call can return before its `AfterFunc` goroutine
  has run. The goroutine's deadline then fails the next call, whose context is alive, with
  an error that is counted in `RxErrors`; comments and tests say that a cancellation is not
  counted. `TunOneErrorPerCancel` proves that it costs one error and no more, and
  `TunCancelNotCounted` that the blocking descriptor does not have this problem.
* `testclock_reset`. The `Timer` interface says `Reset` "Matches time.Timer.Reset", which
  runs an `AfterFunc` timer's function again; the test clock's re-created entry has no
  function, and the re-armed timer fires and runs nothing.
* `testclock_back`. "Advance moves the clock forward", and a timer's "semantics match
  time.Timer"; but a timer armed with a negative duration, which is accepted, has a
  deadline in the past that the next `Set` stores as the time.
* `config_report`. `errList` says that "a single call reports every problem", and the base
  "must be in [1, 31765]". The check of the base adds 1000 in 32 bits, so that the largest
  bases are accepted; and `validateCongestion` returns after a rate that is not positive,
  so that a bad queue delay target is reported by the next load only. `TwoReportsAreEnough`
  shows, and `ConfigTwoReports` proves, that nothing is hidden from the second report too,
  and `ConfigPriorities` that a base gets past the check in no other way.

## Proofs

All theorems are invariance or step simulation, hold for every value of the constants
that satisfies the named assumptions, and end in a PTL step.

* **`RecoveryProofs`**: `TypeCorrect`, `KillSwitchLastHolds`, `RecoveryIsFailClosed`,
  `RecoveryExitOk`, `RecoveryKeepsSysctls`, `RecoveryKeepsRouting`, `RecoveryRerunNoOp`,
  for any number of processes and any journals, from `JournalsAssumption`,
  `SysctlsRecordedOnce`, `RoutesAssumption` and `BoundsAssumption`. `KillSwitchLast` is not
  inductive: a process in its last loop must be known to have cleared everything in
  the earlier ones, on a host others change. `IInv` adds that a running process holds a
  validated copy of the file's records (`LoadedInv`), that the host holds only rules
  and tables the file names (`FileInv`), and `Clean`: a process without errors has left
  no record behind it, loop by loop. `Shrinks` says what any step of anyone may do to
  the cleared part of the host, which is why another process cannot disturb `Clean`.
  The other theorems add to `IInv`:
  * `Accounted` for exit 0: a process without errors has counted exactly the records
    behind it, and has removed the kill-switch tables behind it;
  * `SetPending` for the operator's sysctls: between `GetSysctl` and `SetSysctl` the value
    is still Installed, or another cleanup has written Prior, or the operator has raced;
  * `NoOpInv` for the re-run: once a cleanup has succeeded with no operator step since
    (`SettledInv`), nothing is left that a later one could change, and a process that
    got that far without a step of the operator (`QuietInv`) has restored every sysctl
    behind it.

  `RecoveryKeepsRouting` and `RecoveryRerunNoOp` assume `NoMetricClash`: no route is
  recorded without a metric where the operator has one to the same destination in the
  same table. The run `recovery_nometric` shows that the condition is needed, and
  `recovery_overlap` satisfies it. All but `TypeCorrect` and `RecoveryKeepsSysctls` assume
  `NoMarkClash`, its counterpart for rules: a rule recorded without a fwmark is the only
  one, the journal's or the operator's, at its priority and table. Without it one delete can
  take another rule, count the record as done, and leave the recorded rule on a host that is
  then opened.
* **`FilesProofs`**, the journal: `StoreNeverTorn`, `StoreAckedIsDurable`,
  `StoreNoTempLeak`. `IInv` ties the stage of a write to its contents (`Progress`), says
  that every inode the path ever named, and every open one, is complete on disk
  (`LinksComplete`, `OpenComplete`), and that a temporary name belongs to a write in
  progress.
* **`FilesProofs`**, the keys: `KeyFilesKept`, `KeyFilesWhole`, for any
  number of commands, any length of a key and any prefix a failure leaves, from
  `KeyAssumption`. `KInv` says that a file is whole before it is synced and stable before
  the command exits 0 (`KeyContent`), that a created file has the path or was taken from
  it (`KeyNamed`), and what a reader may rely on between its three steps (`KeyOpened`).
  That a torn text does not parse rests on lemmas about `ParseKey` and `Encode`.
* **`RingProofs`**: `RingIsFifo`, `RingReleases`, for every capacity. The work is
  modular arithmetic (`WrapsAt`, `SlotsAt`, `ShiftAt`) and what the window from `head`
  becomes under append and tail. `QueueNoExpiredLeft`, for every capacity, budget and
  cutoff: `DropExpired` may stop at the first packet in time because packets stand in the
  order of their times, none later than the clock (`InOrder`), which every operation and
  every tick keeps. `QueueBytesExact`, for every capacity and budget within `BudgetFits`:
  the property is about the running totals of the queue and not about a recursive sum, so
  each operation gives the totals that follow from those before it: one more after
  `Enqueue`, and the rest less the head's size after `Dequeue` or a drop. Totals never
  fall, so the head is within the last of them, and `BudgetFits` keeps `curBytes + size`
  from wrapping.
* **`TunDeviceProofs`**: `TunTyped`, `TunNoDescriptorLeak`, `TunNoPacketLost`,
  `TunMTUAgrees`, `TunOneErrorPerCancel`, `TunCancelNotCounted`, for every finite set of
  readers, every set of setters and MTU range. The first five hold with and without the
  poller, `TunMTUAgrees` from `OneSetter` and `TunOneErrorPerCancel` from `OneReader`; the
  last is about a descriptor that the poller does not watch. `TInv` says what a call of
  `ReadPacket` holds at each of its steps and that a cancellation starts at most one
  goroutine. `StageInv` ties the two resources to the stages of Open and Close: what each
  step has opened, and that a file being closed keeps its descriptor only for a parked
  read. `MTUInv` is the MTU between the netlink call and the store. `ErrorInv` is an
  account: a cancellation pays for one goroutine, then for the deadline that it sets, then
  for the error that the deadline causes, and for nothing else.
* **`PacketBufProofs`**: `PoolOneOwner`, `PoolNoLeak`, `PoolBufferIntact`. `IInv` adds
  `OnePlace` (no two holders, and held, handed over and pooled are disjoint) and what
  the fields say in each place.
* **`TestClockProofs`**: `ClockArmingAccounted`, for all durations and any number of
  overlapping `Set`s; `ClockNeverOverdue` and `ClockBackOnlyIfOvertaken`, from `NoNegative`;
  `ClockTimeNeverBack`, from `NoNegative` and `Alone` (one goroutine moves the clock), which
  are the two conditions the code needs. `IInv` is per handle, plus that a `Set` with no
  other beside it has not run past its argument.
* **`ConfigProofs`**: `ConfigUplinksApart`, `ConfigPeersApart`, for lists of any length.
  `IInv` says that the elements behind the loop are pairwise apart and recorded in
  `seen`, as long as there are no problems. `ConfigPriorities`, for every width
  of `RulePriority`: `PriorityInv` follows the base from the file through the defaults
  and the check, and `OnlyWrapped` shows that a good remainder comes from a good base or
  from a sum that wrapped. `ConfigOneReport`, from `CarefulAssumption`: a report is a
  function of the file (`LoadInv`), with one entry per failed check. After the repair each
  field a check reads is either the operator's or was not reported, so the check passes on
  the mixture of the two; the uniqueness checks pass because each pair of elements is a
  pair of old values that passed, of new ones, or of one of each. `RoundInv` says where in
  the sequence of reports a file can be, and why a third report cannot come
  (`ConfigTwoReports`).
* **`CongestionProofs`**: `CongestionStale`, `CongestionLoss`, `CongestionCuts`,
  `CongestionTyped`, for every rate, buffer size and timing, from `TimesAssumption` and
  `RatesAssumption`. Each of the three is about an age and says nothing inductive. `IInv`
  ties every age to the time until the next evaluation: between two evaluations the one
  grows by what the other falls, so their sum changes only where an evaluation happens,
  and there the controller has just looked (`StaleInv`, `CutInv`, `OwedInv`).

Type correctness is a conjunct of each inductive invariant, but for `ConfigProofs`, whose
`Shape` is what its argument needs of it.

Only model-checked: the liveness properties (`CleanupSucceeds`, `CancelUnblocks`,
`CloseUnblocks`, `SimQueueDrains`), which are out of the prover's reach. Every invariant and
every action property of a passing run is stated by a theorem.

## Not modelled

* The regular expressions and address syntax behind validation, the YAML decoder,
  `iproute2`'s and `nft`'s output parsing: pure string work.
* `EnsureDir`: called once, before a journal exists.
* Key derivation (`DeriveSchedule`, `DerivePeerID`, `PublicKey`): pure cryptography. No
  command calls `LoadPublicKeyFile` or `WritePublicKeyFile`.
* The congestion spike's delivered-byte counters, `Jain` and `mbps`: floating-point
  reporting.
* Reason codes and build info: constant tables.
* The integration harness: drives namespaces through shell commands.
* The QUIC experiment: a benchmark around third-party code.
* The Noise package: a comment.

## Plan

Done, in order of importance: recovery with its abstract specification, the journal
store, ring and byte queue, TUN device, packet buffers, test clock, configuration, the
congestion controller, key files.

Next:

1. the plaintext forwarder as a composition of `TunDevice` and `PacketBuf`;
2. two concurrent `SetMTU` callers, once the interface says what it promises them.
