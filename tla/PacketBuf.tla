------------------------------- MODULE PacketBuf -------------------------------
(***************************************************************************)
(* Pool and Buffer (internal/packetbuf/pool.go) under concurrent owners,   *)
(* and the pooled reads and writes of a TUN device (internal/tun/pooled.go,*)
(* ReadInto and WriteFrom).                                                *)
(*                                                                         *)
(* A buffer's owner is one goroutine or a channel that carries it. Release *)
(* is two steps, its stores and its Put, since the buffer is another       *)
(* goroutine's from the Put on.                                            *)
(***************************************************************************)
EXTENDS Naturals, Sequences, FiniteSets

CONSTANTS
    Goroutines,
    Buffers,      \* bounds the buffers that exist at a time
    Classes,      \* sizeClasses
    Lengths,      \* the lengths asked of Get and Resize
    None

Buffer == [len : Nat, class : Nat, poolIdx : DOMAIN Classes, attached : BOOLEAN,
           released : BOOLEAN]

ASSUME ClassesAssumption ==
    /\ Classes \in Seq(Nat \ {0}) /\ Classes # <<>>
    /\ \A i, k \in DOMAIN Classes : i < k => Classes[i] < Classes[k]
    /\ Lengths \subseteq Nat
    /\ None \notin Goroutines \cup Buffers \cup Buffer

VARIABLES
    buffer,    \* per buffer: its fields, or None when not allocated
    pools,     \* per class: the buffers in its sync.Pool
    inflight,  \* buffers handed over and not received yet
    pc,        \* per goroutine: what it is doing with its buffer
    hold,      \* per goroutine: the buffer it refers to, or None
    calls      \* per goroutine: calls of Release it still makes

poolVars == <<buffer, pools, inflight, pc, hold, calls>>

PoolInit ==
    /\ buffer = [b \in Buffers |-> None]
    /\ pools = [i \in DOMAIN Classes |-> {}]
    /\ inflight = {}
    /\ pc = [g \in Goroutines |-> "idle"]
    /\ hold = [g \in Goroutines |-> None]
    /\ calls = [g \in Goroutines |-> 0]

Goto(g, next) == pc' = [pc EXCEPT ![g] = next]

-------------------------------------------------------------------------------
\* i is the first class that is large enough; without one, Get panics.
Serves(i, n) == n <= Classes[i] /\ \A k \in 1 .. i - 1 : n > Classes[k]

\* What the New of a class's sync.Pool allocates: the only place that sets the class.
New(i) == [len |-> Classes[i], class |-> Classes[i], poolIdx |-> 1, attached |-> FALSE,
           released |-> FALSE]

\* sync.Pool: any buffer put back earlier, or a new one.
PoolGet(i, b) ==
    \/ b \in pools[i] /\ pools' = [pools EXCEPT ![i] = @ \ {b}]
    \/ buffer[b] = None /\ UNCHANGED pools

Taken(i, b) == IF buffer[b] = None THEN New(i) ELSE buffer[b]

GetKeepsIndex(g, n, i, b) ==   \* mutant: the pool it came from is not noted
    /\ pc[g] = "idle" /\ Serves(i, n)
    /\ PoolGet(i, b)
    /\ buffer' = [buffer EXCEPT ![b] =
                    [Taken(i, b) EXCEPT !.attached = TRUE, !.len = n, !.released = FALSE]]
    /\ hold' = [hold EXCEPT ![g] = b]
    /\ Goto(g, "own")
    /\ UNCHANGED <<inflight, calls>>

Get(g, n, i, b) ==
    /\ pc[g] = "idle" /\ Serves(i, n)
    /\ PoolGet(i, b)
    /\ buffer' = [buffer EXCEPT ![b] =
                    [Taken(i, b) EXCEPT !.attached = TRUE, !.poolIdx = i, !.len = n,
                                        !.released = FALSE]]
    /\ hold' = [hold EXCEPT ![g] = b]
    /\ Goto(g, "own")
    /\ UNCHANGED <<inflight, calls>>

\* The garbage collector empties sync.Pools.
Collect(i, b) ==
    /\ b \in pools[i]
    /\ pools' = [pools EXCEPT ![i] = @ \ {b}]
    /\ buffer' = [buffer EXCEPT ![b] = None]
    /\ UNCHANGED <<inflight, pc, hold, calls>>

Sized(g, n) == buffer' = [buffer EXCEPT ![hold[g]].len = n]

Resize(g, n) ==
    /\ pc[g] = "own" /\ n <= buffer[hold[g]].class      \* panics otherwise
    /\ Sized(g, n)
    /\ UNCHANGED <<pools, inflight, pc, hold, calls>>

\* A release is due.
Releases(g, k) ==
    /\ Goto(g, "release")
    /\ calls' = [calls EXCEPT ![g] = k]
    /\ UNCHANGED <<pools, inflight, hold>>

\* The owner is done with the buffer.
Done(g) == pc[g] = "own" /\ Releases(g, 1) /\ UNCHANGED buffer

\* The goroutine goes on after a call of Release.
Returned(g) ==
    /\ calls' = [calls EXCEPT ![g] = @ - 1]
    /\ hold' = IF calls[g] = 1 THEN [hold EXCEPT ![g] = None] ELSE hold
    /\ Goto(g, IF calls[g] = 1 THEN "idle" ELSE "release")

\* The stores of Release. A buffer already released is left alone, which only a
\* debug build reports.
Release(g) ==
    LET b == hold[g]
    IN  /\ pc[g] = "release"
        /\ IF buffer[b] = None \/ buffer[b].released
           THEN Returned(g) /\ UNCHANGED buffer
           ELSE /\ buffer' = [buffer EXCEPT ![b].released = TRUE,
                                            ![b].len = buffer[b].class,
                                            ![b].attached = FALSE]
                /\ Goto(g, "put")
                /\ UNCHANGED <<hold, calls>>
        /\ UNCHANGED <<pools, inflight>>

Put(g) ==
    /\ pc[g] = "put"
    /\ pools' = [pools EXCEPT ![buffer[hold[g]].poolIdx] = @ \cup {hold[g]}]
    /\ Returned(g)
    /\ UNCHANGED <<buffer, inflight>>

-------------------------------------------------------------------------------
\* ReadInto: the buffer at its full capacity, the device's ReadPacket, which may
\* wait, and then the packet's length or a release.
ReadInto(g) ==
    /\ pc[g] = "own"
    /\ Sized(g, buffer[hold[g]].class)
    /\ Goto(g, "reading")
    /\ UNCHANGED <<pools, inflight, hold, calls>>

\* ReadPacket wants a buffer larger than its maximum, so n < len(b.Bytes()).
ReadReturns(g, n) ==
    /\ pc[g] = "reading"
    /\ n < buffer[hold[g]].len
    /\ Sized(g, n)
    /\ Goto(g, "own")
    /\ UNCHANGED <<pools, inflight, hold, calls>>

ReadFailsLeaking(g) ==   \* mutant: the error path forgets the buffer
    /\ pc[g] = "reading"
    /\ Goto(g, "idle")
    /\ hold' = [hold EXCEPT ![g] = None]
    /\ UNCHANGED <<buffer, pools, inflight, calls>>

ReadFails(g) == pc[g] = "reading" /\ Releases(g, 1) /\ UNCHANGED buffer

WriteFrom(g) ==
    /\ pc[g] = "own"
    /\ Goto(g, "writing")
    /\ UNCHANGED <<buffer, pools, inflight, hold, calls>>

\* mutant: the error path releases too, before the deferred call does
WriteReturnsTwice(g, err) ==
    pc[g] = "writing" /\ Releases(g, IF err THEN 2 ELSE 1) /\ UNCHANGED buffer

\* The deferred Release runs whether or not the write failed.
WriteReturns(g, err) == pc[g] = "writing" /\ Releases(g, 1) /\ UNCHANGED buffer

\* An explicit transfer: the sender does not touch the buffer again.
Send(g) ==
    /\ pc[g] = "own"
    /\ inflight' = inflight \cup {hold[g]}
    /\ hold' = [hold EXCEPT ![g] = None]
    /\ Goto(g, "idle")
    /\ UNCHANGED <<buffer, pools, calls>>

Receive(g, b) ==
    /\ pc[g] = "idle" /\ b \in inflight
    /\ inflight' = inflight \ {b}
    /\ hold' = [hold EXCEPT ![g] = b]
    /\ Goto(g, "own")
    /\ UNCHANGED <<buffer, pools, calls>>

PoolNext ==
    \/ \E g \in Goroutines :
         \/ \E n \in Lengths :
              \/ \E i \in DOMAIN Classes, b \in Buffers : Get(g, n, i, b)
              \/ Resize(g, n)
              \/ ReadReturns(g, n)
         \/ Done(g) \/ Release(g) \/ Put(g)
         \/ ReadInto(g) \/ ReadFails(g)
         \/ WriteFrom(g) \/ \E err \in BOOLEAN : WriteReturns(g, err)
         \/ Send(g) \/ \E b \in Buffers : Receive(g, b)
    \/ \E i \in DOMAIN Classes, b \in Buffers : Collect(i, b)

PoolSpec == PoolInit /\ [][PoolNext]_poolVars

-------------------------------------------------------------------------------
PoolTypeOK ==
    /\ buffer \in [Buffers -> Buffer \cup {None}]
    /\ \A b \in Buffers : buffer[b] # None => buffer[b].len <= buffer[b].class
    /\ pools \in [DOMAIN Classes -> SUBSET Buffers]
    /\ inflight \subseteq Buffers
    /\ pc \in [Goroutines -> {"idle", "own", "reading", "writing", "release", "put"}]
    /\ hold \in [Goroutines -> Buffers \cup {None}]
    /\ calls \in [Goroutines -> Nat]

Using(g) == pc[g] \in {"own", "reading", "writing"}

\* "A Buffer has exactly one owner at a time": two goroutines never use the same
\* buffer, and nobody uses one that is on its way to another owner or that the
\* pool may hand out again, whatever error paths have released it.
OneOwner ==
    \A g \in Goroutines : Using(g) =>
      /\ \A h \in Goroutines \ {g} : hold[h] = hold[g] => ~Using(h)
      /\ hold[g] \notin inflight
      /\ \A i \in DOMAIN Classes : hold[g] \notin pools[i]

\* "No read-failure path leaks a pooled buffer", "no write path leaks" (TUN-23,
\* TUN-24): an allocated buffer is in a pool, in transit, or somebody's to release.
NoLeak ==
    \A b \in Buffers : buffer[b] # None =>
      \/ \E i \in DOMAIN Classes : b \in pools[i]
      \/ b \in inflight
      \/ \E g \in Goroutines : hold[g] = b

\* The class New gave a buffer stays the one of the pool it is taken from and put back
\* to, through any number of owners: one in use or in transit is live and Release will
\* put it into the pool of its class; one in a pool is marked released and has that
\* pool's class.
BufferIntact ==
    /\ \A b \in inflight \cup {hold[g] : g \in {x \in Goroutines : Using(x)}} :
         /\ ~buffer[b].released /\ buffer[b].attached
         /\ buffer[b].class = Classes[buffer[b].poolIdx]
    /\ \A i \in DOMAIN Classes : \A b \in pools[i] :
         buffer[b].released /\ buffer[b].class = Classes[i]
===============================================================================
