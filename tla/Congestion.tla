------------------------------ MODULE Congestion ------------------------------
(***************************************************************************)
(* The rate controller of the congestion spike against a TCP flow on one   *)
(* bottleneck (internal/congestion/phase0sim/sim.go): Sim.Run, an          *)
(* iteration of its loop at a time, for every warm-up length and without   *)
(* an end.                                                                 *)
(*                                                                         *)
(* Rates are in bytes per iteration, times in the unit of the constants,   *)
(* and relative to the present: what the clock reads is never looked at.   *)
(* The link and the TCP flow, which use floats, are rounded down to these  *)
(* units; the controller's arithmetic is on integers, as in the code.      *)
(***************************************************************************)
EXTENDS Integers

CONSTANTS
    StepNs,            \* Sim: length of an iteration
    CapacityBps,       \* Link: bytes drained in an iteration
    BufferSizes,       \* Link: the buffer sizes tried, in bytes
    MaxBuffer,         \* the largest of them
    BaseRTTns,         \* Link
    MTUBytes,          \* Controller
    MSS,               \* TCPFlow
    MinBps, MaxBps,    \* bounds of the controller's rate; MinBps is TCP's too
    QueueTargetNs,
    FeedbackStaleNs,
    InitRates          \* the rates the flows start with

ASSUME TimesAssumption ==
    /\ StepNs \in Nat \ {0} /\ BaseRTTns \in Nat \ {0}
    /\ QueueTargetNs \in Nat /\ FeedbackStaleNs \in Nat

ASSUME RatesAssumption ==
    /\ CapacityBps \in Nat \ {0} /\ MaxBuffer \in Nat /\ BufferSizes \subseteq 0 .. MaxBuffer
    /\ MTUBytes \in Nat /\ MSS \in Nat
    /\ MinBps \in Nat /\ MaxBps \in Nat /\ MinBps <= MaxBps
    /\ InitRates \subseteq MinBps .. MaxBps

VARIABLES
    link,      \* BufferBytes and the queue
    ctl,       \* the controller; wait and age are nextEval and lastFeedback,
               \* relative to now
    tcp,       \* the TCP flow
    staleFeed, \* Sim.StaleFeed
    measuring, \* the warm-up is over
    cut,       \* history: the time since the controller's last halving, and the
               \* smoothed RTT it had then
    owed       \* history: the controller's rate at the first overflow it has not
               \* answered, 0 if there is none, and the time since

simVars == <<link, ctl, tcp, staleFeed, measuring, cut, owed>>

-------------------------------------------------------------------------------
Larger(x, y)  == IF x > y THEN x ELSE y
Smaller(x, y) == IF x < y THEN x ELSE y

queueDelay(q) == (q * StepNs) \div CapacityBps

rttNs(q) == BaseRTTns + queueDelay(q)

\* The queue after an iteration, before it is cut to the buffer.
Backlog(offered) == Larger(0, link.queue + offered - CapacityBps)

Lost(offered) == Backlog(offered) > link.buffer

Queue(offered) == Smaller(Backlog(offered), link.buffer)

-------------------------------------------------------------------------------
LongestRTT == rttNs(MaxBuffer)

\* The age at which feedback has been stale for a whole evaluation period.
TooOld == FeedbackStaleNs + LongestRTT + StepNs

\* feedback at the present moment: RFC 6298 smoothing in integers.
smoothed(srtt, rtt) == IF srtt = 0 THEN rtt ELSE (7 * srtt + rtt) \div 8

feedback(c, rtt) == [c EXCEPT !.age = 0, !.srtt = smoothed(c.srtt, rtt)]

evalEveryStep(c) == StepNs   \* mutant: the RTT plays no part

evalPeriod(c) == IF c.srtt > 0 THEN c.srtt ELSE FeedbackStaleNs

clampSwapped(r) == Larger(MaxBps, Smaller(MinBps, r))   \* mutant: the bounds swapped

clamp(r) == Smaller(MaxBps, Larger(MinBps, r))

StaleUnprimed(c) == c.srtt = 0 /\ c.age > FeedbackStaleNs   \* mutant: looked at
                                                          \* before the first sample only

Stale(c) == c.age > FeedbackStaleNs

\* The round's verdict, first match wins: stale, loss, a second high-delay round.
Halves(c, delay) ==
    /\ ~Stale(c)
    /\ c.lost \/ (delay > QueueTargetNs /\ c.high >= 1)

Increase(c) == IF c.srtt > 0 THEN (MTUBytes * StepNs) \div c.srtt ELSE 0

Evaluated(c, delay) ==
    [c EXCEPT
       !.rate = IF Stale(c) THEN MinBps
                ELSE clamp(IF Halves(c, delay) THEN c.rate \div 2
                           ELSE IF delay > QueueTargetNs THEN c.rate
                           ELSE c.rate + Increase(c)),
       !.high = IF ~Stale(c) /\ ~c.lost /\ delay > QueueTargetNs /\ c.high = 0
                THEN 1 ELSE 0,
       !.lost = FALSE,
       !.wait = evalPeriod(c)]

Due(f) == f.wait <= 0

tick(c, delay) == IF Due(c) THEN Evaluated(c, delay) ELSE c

tcpEvaluated(f, rtt) ==
    [f EXCEPT !.rate = Larger(MinBps, IF f.lost THEN f.rate \div 2
                                      ELSE f.rate + (MSS * StepNs) \div rtt),
              !.lost = FALSE,
              !.wait = rtt]

tcpTick(f, rtt) == IF Due(f) THEN tcpEvaluated(f, rtt) ELSE f

observeLast(f, lost) == [f EXCEPT !.lost = lost]   \* mutant: a quiet iteration forgets

observeLoss(f, lost) == [f EXCEPT !.lost = f.lost \/ lost]

-------------------------------------------------------------------------------
\* Feedback is primed with the RTT of an empty queue.
SimInit ==
    /\ \E b \in BufferSizes : link = [buffer |-> b, queue |-> 0]
    /\ \E r \in InitRates :
         ctl = [rate |-> r, srtt |-> BaseRTTns, wait |-> BaseRTTns,
                lost |-> FALSE, high |-> 0, age |-> 0]
    /\ \E r \in InitRates : tcp = [rate |-> r, wait |-> BaseRTTns, lost |-> FALSE]
    /\ staleFeed \in BOOLEAN
    /\ measuring = FALSE
    /\ cut = [age |-> TooOld, srtt |-> 0]
    /\ owed = [rate |-> 0, age |-> 0]

\* Clock.Advance, seen from one deadline or age. Ages beyond TooOld are alike.
Later(age) == Smaller(age + StepNs, TooOld)

Advance(f) == [f EXCEPT !.wait = f.wait - StepNs]

\* An overflow is answered by half the rate, or the minimum.
Owed(o, rate) ==
    IF o.rate = 0 \/ rate = MinBps \/ rate <= o.rate \div 2
    THEN [rate |-> 0, age |-> 0]
    ELSE [o EXCEPT !.age = Later(o.age)]

\* One iteration of Run. The warm-up may end before any of them.
Iterate ==
    LET offered == ctl.rate + tcp.rate
        q       == Queue(offered)
        lost    == Lost(offered)
        fed     == ~(staleFeed /\ measuring')
        heard   == IF fed THEN feedback(observeLoss(ctl, lost), rttNs(q))
                          ELSE observeLoss(ctl, lost)
        ticked  == tick(heard, queueDelay(q))
        halved  == Due(heard) /\ Halves(heard, queueDelay(q))
    IN  /\ measuring' \in {measuring, TRUE}
        /\ link' = [link EXCEPT !.queue = q]
        /\ ctl' = [Advance(ticked) EXCEPT !.age = Later(ticked.age)]
        /\ tcp' = Advance(tcpTick(observeLoss(tcp, lost), rttNs(q)))
        /\ cut' = IF halved THEN [age |-> StepNs, srtt |-> heard.srtt]
                            ELSE [cut EXCEPT !.age = Later(cut.age)]
        /\ owed' = Owed(IF lost /\ owed.rate = 0 THEN [rate |-> ctl.rate, age |-> 0]
                                                 ELSE owed, ticked.rate)
        /\ UNCHANGED staleFeed

SimNext == Iterate

\* Run is a loop of one goroutine that waits for nothing.
SimSpec == SimInit /\ [][SimNext]_simVars /\ WF_simVars(SimNext)

-------------------------------------------------------------------------------
SimTypeOK ==
    /\ link \in [buffer : BufferSizes, queue : 0 .. MaxBuffer]
    /\ ctl \in [rate : MinBps .. MaxBps, srtt : BaseRTTns .. LongestRTT,
                wait : 1 - StepNs .. LongestRTT, lost : BOOLEAN, high : 0 .. 1,
                age : 0 .. TooOld]
    /\ tcp \in [rate : Nat, wait : 1 - StepNs .. LongestRTT, lost : BOOLEAN]
    /\ staleFeed \in BOOLEAN
    /\ measuring \in BOOLEAN
    /\ cut \in [age : StepNs .. TooOld, srtt : 0 .. LongestRTT]
    /\ owed \in [rate : 0 .. MaxBps, age : 0 .. TooOld]

\* "drop to the minimum when feedback is stale": the controller looks only once per
\* smoothed RTT, and by the time feedback has been stale that long it has.
StaleMeansMinimum == ctl.age >= TooOld => ctl.rate = MinBps

\* "halve ... (at most once per RTT)": losses and standing queues together never
\* make two halvings less than the smoothed RTT apart.
CutsApart == [][cut'.age = StepNs => cut.age >= cut.srtt]_simVars

\* An overflow between two evaluations is not forgotten: within an evaluation period
\* the rate is at most half of what it was, or the minimum.
LossAnswered == owed.rate # 0 => owed.age < LongestRTT + StepNs

\* The longest queue whose delay is not above the target.
TargetQueue == ((QueueTargetNs + 1) * CapacityBps - 1) \div StepNs

\* A standing queue does not stay: both flows together leave the bottleneck at or
\* below the controller's queue-delay target again and again.
QueueDrains == []<>(link.queue <= TargetQueue)
===============================================================================
