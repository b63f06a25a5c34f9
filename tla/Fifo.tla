--------------------------------- MODULE Fifo ---------------------------------
(***************************************************************************)
(* What the structures of internal/bounded promise: a first-in first-out   *)
(* queue that never holds more than Cap elements. ret is what the last     *)
(* call returned: whether it did what it was asked, and an element.        *)
(***************************************************************************)
EXTENDS Naturals, Sequences

CONSTANTS T, Cap, Zero

VARIABLES q, ret

vars == <<q, ret>>

Nothing == [v |-> Zero, ok |-> FALSE]
Some(x) == [v |-> x, ok |-> TRUE]

Init == q = <<>> /\ ret = Nothing

Put(x) ==
    /\ Len(q) < Cap
    /\ q' = Append(q, x)
    /\ ret' = Some(Zero)

\* A full queue makes room by giving up its oldest element.
Displace(x) ==
    \/ /\ Len(q) < Cap
       /\ q' = Append(q, x)
       /\ ret' = Nothing
    \/ /\ Len(q) = Cap
       /\ q' = Append(Tail(q), x)
       /\ ret' = Some(Head(q))

Take ==
    /\ q # <<>>
    /\ q' = Tail(q)
    /\ ret' = Some(Head(q))

Look ==
    /\ q # <<>>
    /\ UNCHANGED q
    /\ ret' = Some(Head(q))

Clear == q' = <<>> /\ ret' = Nothing

\* A full queue refuses an element, an empty one has none to give.
Refuse ==
    /\ Len(q) = Cap \/ q = <<>>
    /\ UNCHANGED q
    /\ ret' = Nothing

Next ==
    \/ \E x \in T : Put(x) \/ Displace(x)
    \/ Take \/ Look \/ Clear \/ Refuse

Spec == Init /\ [][Next]_vars
===============================================================================
