------------------------------- MODULE ByteQueue -------------------------------
(***************************************************************************)
(* ByteQueue (internal/bounded/queue.go): a queue bounded by a number of   *)
(* packets and by a byte budget, on a Ring, with enqueue times from a      *)
(* clock. It is not safe for concurrent use; DropExpired is modelled one   *)
(* iteration of its loop at a time, the clock running on meanwhile.        *)
(***************************************************************************)
EXTENDS Integers, Sequences

CONSTANTS
    Sizes,        \* the sizes callers enqueue
    MaxPackets,   \* capacity of the ring
    MaxBytes,     \* byte budget
    IntMax,       \* largest int
    MaxClock      \* bound on the clock

ASSUME QueueAssumption ==   \* NewByteQueue and Enqueue panic otherwise
    /\ MaxPackets \in Nat \ {0}
    /\ MaxBytes \in Nat \ {0}
    /\ Sizes \subseteq 1 .. IntMax
    /\ MaxClock \in Nat

\* The budget leaves room for one more packet of its own size in an int.
ASSUME BudgetFits == IntMax \in Nat /\ 2 * MaxBytes <= IntMax

VARIABLES qbuf, qhead, qn, qret, curBytes, qnow, cutoff

queueRing == <<qbuf, qhead, qn>>
queueVars == <<queueRing, qret, curBytes, qnow, cutoff>>

Times  == 0 .. MaxClock
Item   == [bytes : 1 .. MaxBytes, at : Times]
Idle   == -1          \* DropExpired is not running
NoItem == [bytes |-> 0, at |-> 0]

R == INSTANCE Ring WITH T <- Item, Cap <- MaxPackets, Zero <- NoItem,
                        buf <- qbuf, head <- qhead, n <- qn, ret <- qret

QueueInit ==
    /\ R!Init
    /\ curBytes = 0
    /\ qnow = 0
    /\ cutoff = Idle

\* Addition of two ints, neither negative.
Plus(a, b) == IF a + b > IntMax THEN a + b - 2 * (IntMax + 1) ELSE a + b

Accepts(s) ==
    /\ s <= MaxBytes
    /\ ~R!Full
    /\ Plus(curBytes, s) <= MaxBytes

Enqueue(s) ==
    /\ cutoff = Idle
    /\ IF Accepts(s)
       THEN /\ R!Push([bytes |-> s, at |-> qnow])
            /\ curBytes' = Plus(curBytes, s)
       ELSE UNCHANGED <<queueRing, qret, curBytes>>
    /\ UNCHANGED <<qnow, cutoff>>

\* Pop, and the packet's bytes returned to the budget.
RemoveUncounted ==   \* mutant: the bytes of the packet stay charged
    /\ R!Pop
    /\ UNCHANGED curBytes

Remove ==
    /\ R!Pop
    /\ curBytes' = IF qn = 0 THEN curBytes ELSE curBytes - qbuf[qhead].bytes

Dequeue ==   \* and DropOldest
    /\ cutoff = Idle
    /\ Remove
    /\ UNCHANGED <<qnow, cutoff>>

QueuePeek ==
    /\ cutoff = Idle
    /\ R!Peek
    /\ UNCHANGED <<curBytes, qnow, cutoff>>

\* DropExpired is called with a time its caller computed, in the past or not.
DropExpired(t) ==
    /\ cutoff = Idle
    /\ cutoff' = t
    /\ UNCHANGED <<queueRing, qret, curBytes, qnow>>

ExpiredStrictly(x) == x.at < cutoff   \* mutant: at the cutoff is not expired

Expired(x) == x.at <= cutoff   \* !Enqueued.After(cutoff)

DropHead ==
    /\ cutoff # Idle
    /\ qn # 0 /\ Expired(qbuf[qhead])
    /\ Remove
    /\ UNCHANGED <<qnow, cutoff>>

DropReturns ==
    /\ cutoff # Idle
    /\ qn = 0 \/ ~Expired(qbuf[qhead])
    /\ cutoff' = Idle
    /\ UNCHANGED <<queueRing, qret, curBytes, qnow>>

Tick ==
    /\ qnow < MaxClock
    /\ qnow' = qnow + 1
    /\ UNCHANGED <<queueRing, qret, curBytes, cutoff>>

QueueNext ==
    \/ \E s \in Sizes : Enqueue(s)
    \/ Dequeue
    \/ QueuePeek
    \/ \E t \in Times : DropExpired(t)
    \/ DropHead
    \/ DropReturns
    \/ Tick

QueueSpec == QueueInit /\ [][QueueNext]_queueVars

-------------------------------------------------------------------------------
\* "Bytes returns the exact total serialized size of queued items": over every
\* mix of accepted, refused, dequeued and expired packets the counter is the last
\* of the running totals of what is queued, all of them within the budget.
BytesExact ==
    \E total \in [0 .. qn -> 0 .. MaxBytes] :
      /\ total[0] = 0
      /\ \A i \in 1 .. qn : total[i] = total[i - 1] + R!Contents[i].bytes
      /\ curBytes = total[qn]

\* When DropExpired returns, no packet that expired is left behind a younger one:
\* the scan from the head may stop at the first packet still in time.
NoExpiredLeft ==
    [][cutoff # Idle /\ cutoff' = Idle => \A i \in 1 .. qn : R!Contents[i].at > cutoff]_queueVars
===============================================================================
