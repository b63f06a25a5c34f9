------------------------------ MODULE FailClosed ------------------------------
(***************************************************************************)
(* What recovery promises, without saying how. The host carries tunnel     *)
(* state (`capture`: whatever still steers traffic or names into the       *)
(* tunnel) and kill-switch tables (`kill`), in any amount to begin with.   *)
(* Tunnel state is only ever taken away, and a kill-switch table may go    *)
(* only when no tunnel state is left, so a recovery that stops anywhere    *)
(* leaves the host fail-closed.                                            *)
(***************************************************************************)

VARIABLES capture, kill

vars == <<capture, kill>>

\* Some tunnel state is undone; every kill-switch table stays.
Undo == /\ capture' \in SUBSET capture
        /\ kill' = kill

\* Traffic is opened: a kill-switch table goes from a host with no tunnel state.
Open == /\ capture = {}
        /\ capture' = {}
        /\ kill' \in SUBSET kill

Next == Undo \/ Open

Spec == [][Next]_vars
===============================================================================
