--------------------------------- MODULE Ring ---------------------------------
(***************************************************************************)
(* Ring (internal/bounded/ring.go): a circular buffer of fixed capacity,   *)
(* not safe for concurrent use, so that a call is one step.                *)
(***************************************************************************)
EXTENDS Naturals, Sequences

CONSTANTS
    T,       \* the elements
    Cap,     \* len(r.buf), fixed by NewRing
    Zero     \* the zero value of the element type

ASSUME CapAssumption == Cap \in Nat \ {0}   \* NewRing panics otherwise

VARIABLES
    buf,     \* the storage
    head,    \* index of the oldest element
    n,       \* number of elements stored
    ret      \* what the last call returned: an element and a flag

ring == <<buf, head, n>>
vars == <<ring, ret>>

Nothing == [v |-> Zero, ok |-> FALSE]
Some(x) == [v |-> x, ok |-> TRUE]

Init ==
    /\ buf = [i \in 0 .. Cap - 1 |-> Zero]
    /\ head = 0
    /\ n = 0
    /\ ret = Nothing

Full == n = Cap

\* The index after the newest element.
tail == (head + n) % Cap

Push(x) ==
    IF Full
    THEN ret' = Nothing /\ UNCHANGED ring
    ELSE /\ buf' = [buf EXCEPT ![tail] = x]
         /\ n' = n + 1
         /\ ret' = Some(Zero)
         /\ UNCHANGED head

\* On a full ring the slot of the oldest element is also the one after the newest.
PushEvictInPlace(x) ==   \* mutant: the head stays on the slot just overwritten
    /\ buf' = [buf EXCEPT ![tail] = x]
    /\ IF Full
       THEN ret' = Some(buf[head]) /\ UNCHANGED <<head, n>>
       ELSE n' = n + 1 /\ ret' = Nothing /\ UNCHANGED head

PushEvict(x) ==
    /\ buf' = [buf EXCEPT ![tail] = x]
    /\ IF Full
       THEN /\ ret' = Some(buf[head])
            /\ head' = (head + 1) % Cap
            /\ UNCHANGED n
       ELSE /\ ret' = Nothing
            /\ n' = n + 1
            /\ UNCHANGED head

PopKeepsReference ==   \* mutant: the popped slot is not zeroed
    IF n = 0
    THEN ret' = Nothing /\ UNCHANGED ring
    ELSE /\ ret' = Some(buf[head])
         /\ head' = (head + 1) % Cap
         /\ n' = n - 1
         /\ UNCHANGED buf

Pop ==
    IF n = 0
    THEN ret' = Nothing /\ UNCHANGED ring
    ELSE /\ ret' = Some(buf[head])
         /\ buf' = [buf EXCEPT ![head] = Zero]
         /\ head' = (head + 1) % Cap
         /\ n' = n - 1

Peek ==
    /\ ret' = IF n = 0 THEN Nothing ELSE Some(buf[head])
    /\ UNCHANGED ring

Reset ==
    /\ buf' = [i \in 0 .. Cap - 1 |-> Zero]
    /\ head' = 0
    /\ n' = 0
    /\ ret' = Nothing

Next ==
    \/ \E x \in T : Push(x) \/ PushEvict(x)
    \/ Pop \/ Peek \/ Reset

Spec == Init /\ [][Next]_vars

-------------------------------------------------------------------------------
\* The elements from the oldest to the newest.
Contents == [i \in 1 .. n |-> buf[(head + (i - 1)) % Cap]]

TypeOK ==
    /\ buf \in [0 .. Cap - 1 -> T \cup {Zero}]
    /\ head \in 0 .. Cap - 1
    /\ n \in 0 .. Cap
    /\ ret \in [v : T \cup {Zero}, ok : BOOLEAN]

\* Across any number of wraps and evictions the ring is a bounded first-in
\* first-out queue, and hands out exactly the element that has waited longest.
F == INSTANCE Fifo WITH q <- Contents
FifoOrder == F!Spec

\* A slot outside the live window holds the zero value: the ring keeps no
\* reference to an element it has given away ("release reference so GC can
\* reclaim").
NoStaleReference ==
    \A i \in 0 .. Cap - 1 :
      buf[i] = Zero \/ \E k \in 0 .. n - 1 : i = (head + k) % Cap
===============================================================================
