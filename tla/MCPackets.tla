------------------------------- MODULE MCPackets -------------------------------
(***************************************************************************)
(* What the program keeps in memory: a ring of three slots that two        *)
(* distinguishable elements go through; a byte queue on a ring of its own; *)
(* the buffer pool, with two size classes and lengths at both limits and   *)
(* one above the smaller; the fake clock, with two timers and two          *)
(* overlapping calls of Set; and the rate controller of the congestion     *)
(* spike. They share no state and a behaviour is about one of them.        *)
(***************************************************************************)
EXTENDS Ring, ByteQueue, PacketBuf, TestClock, Congestion, TLC

CONSTANTS e1, e2   \* elements of the ring

MCT       == {e1, e2}
MCClasses == <<1, 3>>

VARIABLE about

packetVars == <<vars, queueVars, poolVars, clockVars, simVars, about>>

PacketsInit ==
    /\ about \in {"ring", "queue", "pool", "clock", "sim"}
    /\ Init /\ QueueInit /\ PoolInit /\ ClockInit /\ SimInit
    /\ about # "sim" => /\ link.buffer = MaxBuffer /\ ctl.rate = MaxBps /\ tcp.rate = MaxBps
                        /\ staleFeed

Simulates ==
    about = "sim" /\ SimNext /\ UNCHANGED <<vars, queueVars, poolVars, clockVars, about>>

PacketsNext ==
    \/ /\ about = "ring" /\ Next
       /\ UNCHANGED <<queueVars, poolVars, clockVars, simVars, about>>
    \/ /\ about = "queue" /\ QueueNext
       /\ UNCHANGED <<vars, poolVars, clockVars, simVars, about>>
    \/ /\ about = "pool" /\ PoolNext
       /\ UNCHANGED <<vars, queueVars, clockVars, simVars, about>>
    \/ /\ about = "clock" /\ ClockNext
       /\ UNCHANGED <<vars, queueVars, poolVars, simVars, about>>
    \/ Simulates

\* SimSpec's fairness, for the behaviours that are about the simulation.
PacketsSpec == PacketsInit /\ [][PacketsNext]_packetVars /\ WF_packetVars(Simulates)

\* Congestion's QueueDrains, for those behaviours.
SimQueueDrains == about = "sim" => QueueDrains
===============================================================================
