--------------------------- MODULE CongestionProofs ---------------------------
(***************************************************************************)
(* The controller's safety properties, for every link, buffer and RTT.     *)
(*                                                                         *)
(* The argument: wait, the time to the next evaluation, falls by what the  *)
(* ages rise, so that the sum of wait and an age changes only at an        *)
(* evaluation, where wait is the smoothed RTT.                             *)
(***************************************************************************)
EXTENDS Congestion, TLAPS

\* A quotient of naturals, and its monotonicity.
LEMMA Quotient ==
    ASSUME NEW x \in Nat, NEW y \in Nat, y > 0
    PROVE  /\ x \div y \in Nat
           /\ y * (x \div y) <= x
           /\ x < y * (x \div y) + y
  OBVIOUS

LEMMA QuotientMonotone ==
    ASSUME NEW w \in Nat, NEW x \in Nat, NEW y \in Nat, y > 0, w <= x
    PROVE  w \div y <= x \div y
  <1> DEFINE p == w \div y
             q == x \div y
  <1>1. p \in Nat /\ q \in Nat /\ y * p <= w /\ x < y * q + y
    BY Quotient
  <1>2. SUFFICES ASSUME p > q PROVE FALSE
    BY <1>1
  <1> HIDE DEF p, q
  <1>3. y * p >= y * (q + 1)
    BY <1>1, <1>2
  <1>4. y * (q + 1) = y * q + y
    BY <1>1
  <1> QED BY <1>1, <1>3, <1>4

LEMMA Delays ==
    ASSUME NEW q \in 0 .. MaxBuffer
    PROVE  rttNs(q) \in BaseRTTns .. LongestRTT
  <1>1. q * StepNs \in Nat /\ MaxBuffer * StepNs \in Nat /\ q * StepNs <= MaxBuffer * StepNs
    BY TimesAssumption, RatesAssumption
  <1>2. queueDelay(q) \in Nat /\ queueDelay(MaxBuffer) \in Nat /\ queueDelay(q) <= queueDelay(MaxBuffer)
    BY <1>1, Quotient, QuotientMonotone, RatesAssumption DEF queueDelay
  <1> QED BY <1>2, TimesAssumption DEF rttNs, LongestRTT

LEMMA Clamps == ASSUME NEW r \in Nat PROVE clamp(r) \in MinBps .. MaxBps
  BY RatesAssumption DEF clamp, Smaller, Larger

LEMMA Halving ==
    ASSUME NEW r \in Nat
    PROVE  r \div 2 \in Nat /\ (clamp(r \div 2) = MinBps \/ clamp(r \div 2) <= r \div 2)
  BY RatesAssumption DEF clamp, Smaller, Larger

LEMMA Smoothing ==
    ASSUME NEW x \in BaseRTTns .. LongestRTT, NEW y \in BaseRTTns .. LongestRTT
    PROVE  smoothed(x, y) \in BaseRTTns .. LongestRTT
  <1>1. BaseRTTns \in Nat \ {0} /\ LongestRTT \in Nat
    BY TimesAssumption, Delays, RatesAssumption, MaxBuffer \in 0 .. MaxBuffer DEF LongestRTT
  <1> HIDE DEF LongestRTT
  <1> QED BY <1>1 DEF smoothed

LEMMA Increases ==
    ASSUME NEW c, c.srtt \in Nat
    PROVE  Increase(c) \in Nat
  <1>1. MTUBytes * StepNs \in Nat
    BY TimesAssumption, RatesAssumption
  <1> QED BY <1>1, Quotient DEF Increase

LEMMA Constants ==
    /\ StepNs \in Nat \ {0} /\ BaseRTTns \in Nat \ {0} /\ FeedbackStaleNs \in Nat
    /\ LongestRTT \in Nat /\ BaseRTTns <= LongestRTT
    /\ TooOld = FeedbackStaleNs + LongestRTT + StepNs
    /\ MinBps \in Nat /\ MaxBps \in Nat /\ MinBps <= MaxBps
  <1>1. MaxBuffer \in 0 .. MaxBuffer
    BY RatesAssumption
  <1>2. LongestRTT \in BaseRTTns .. LongestRTT
    BY <1>1, Delays DEF LongestRTT
  <1>3. LongestRTT \in Int
    BY <1>1, Quotient, TimesAssumption, RatesAssumption DEF LongestRTT, rttNs, queueDelay
  <1> QED BY <1>2, <1>3, TimesAssumption, RatesAssumption DEF TooOld

-------------------------------------------------------------------------------
\* A controller above its minimum has been evaluated since its feedback was fresh, or
\* will be before it has been stale for a whole period.
StaleInv == ctl.rate # MinBps => ctl.age + ctl.wait <= FeedbackStaleNs + LongestRTT

\* The next evaluation is no sooner than the smoothed RTT after the last halving.
CutInv == cut.age + ctl.wait >= cut.srtt

\* An unanswered overflow is noted by the controller, whose rate is still the same,
\* and its evaluation is near.
OwedInv ==
    owed.rate # 0 =>
      ctl.lost /\ owed.rate = ctl.rate /\ owed.age + ctl.wait <= LongestRTT

IInv == SimTypeOK /\ StaleInv /\ CutInv /\ OwedInv

LEMMA BufferRange == ASSUME NEW b \in BufferSizes PROVE b \in 0 .. MaxBuffer
  BY RatesAssumption

LEMMA RateRange == ASSUME NEW r \in MinBps .. MaxBps PROVE r \in Nat
  BY RatesAssumption

LEMMA InitRange == ASSUME NEW r \in InitRates PROVE r \in MinBps .. MaxBps /\ r \in Nat
  BY RatesAssumption

LEMMA InitInv == SimInit => IInv
  <1> SUFFICES ASSUME SimInit PROVE IInv
    OBVIOUS
  <1> HIDE DEF LongestRTT, TooOld
  <1>1. PICK b \in BufferSizes : link = [buffer |-> b, queue |-> 0]
    BY DEF SimInit
  <1>2. PICK r \in InitRates :
          ctl = [rate |-> r, srtt |-> BaseRTTns, wait |-> BaseRTTns,
                 lost |-> FALSE, high |-> 0, age |-> 0]
    BY DEF SimInit
  <1>3. PICK t \in InitRates : tcp = [rate |-> t, wait |-> BaseRTTns, lost |-> FALSE]
    BY DEF SimInit
  <1>4. r \in MinBps .. MaxBps /\ t \in Nat
    BY InitRange
  <1>5. link \in [buffer : BufferSizes, queue : 0 .. MaxBuffer]
    BY <1>1, RatesAssumption
  <1>6. ctl \in [rate : MinBps .. MaxBps, srtt : BaseRTTns .. LongestRTT,
                 wait : 1 - StepNs .. LongestRTT, lost : BOOLEAN, high : 0 .. 1,
                 age : 0 .. TooOld]
    BY <1>2, <1>4, Constants
  <1>7. tcp \in [rate : Nat, wait : 1 - StepNs .. LongestRTT, lost : BOOLEAN]
    BY <1>3, <1>4, Constants
  <1>8. /\ cut \in [age : StepNs .. TooOld, srtt : 0 .. LongestRTT]
        /\ owed \in [rate : 0 .. MaxBps, age : 0 .. TooOld]
    BY Constants DEF SimInit
  <1>9. SimTypeOK
    BY <1>5, <1>6, <1>7, <1>8 DEF SimInit, SimTypeOK
  <1>10. ctl.age = 0 /\ ctl.wait = BaseRTTns /\ cut.age = TooOld /\ cut.srtt = 0 /\ owed.rate = 0
    BY <1>2 DEF SimInit
  <1> QED BY <1>9, <1>10, Constants DEF IInv, StaleInv, CutInv, OwedInv

-------------------------------------------------------------------------------
\* What the controller has heard by the time it is evaluated.
Heard(lost, fed, q) ==
    IF fed THEN feedback(observeLoss(ctl, lost), rttNs(q)) ELSE observeLoss(ctl, lost)

LEMMA HeardFields ==
    ASSUME SimTypeOK, NEW lost \in BOOLEAN, NEW fed \in BOOLEAN, NEW q \in 0 .. MaxBuffer
    PROVE  LET h == Heard(lost, fed, q) IN
           /\ h \in [rate : MinBps .. MaxBps, srtt : BaseRTTns .. LongestRTT,
                     wait : 1 - StepNs .. LongestRTT, lost : BOOLEAN, high : 0 .. 1,
                     age : 0 .. TooOld]
           /\ h.rate = ctl.rate /\ h.wait = ctl.wait /\ h.lost = (ctl.lost \/ lost)
           /\ h.age = IF fed THEN 0 ELSE ctl.age
  <1>1. rttNs(q) \in BaseRTTns .. LongestRTT
    BY Delays
  <1>2. smoothed(ctl.srtt, rttNs(q)) \in BaseRTTns .. LongestRTT
    BY <1>1, Smoothing DEF SimTypeOK
  <1> HIDE DEF LongestRTT, TooOld, rttNs, smoothed
  <1> DEFINE o == observeLoss(ctl, lost)
  <1>3. /\ o \in [rate : MinBps .. MaxBps, srtt : BaseRTTns .. LongestRTT,
                  wait : 1 - StepNs .. LongestRTT, lost : BOOLEAN, high : 0 .. 1,
                  age : 0 .. TooOld]
        /\ o.rate = ctl.rate /\ o.wait = ctl.wait /\ o.lost = (ctl.lost \/ lost)
        /\ o.age = ctl.age /\ o.srtt = ctl.srtt
    BY DEF SimTypeOK, observeLoss
  <1> HIDE DEF o
  <1> DEFINE f == feedback(o, rttNs(q))
             z == smoothed(o.srtt, rttNs(q))
  <1>z. z \in BaseRTTns .. LongestRTT /\ 0 \in 0 .. TooOld
    BY <1>2, <1>3, Constants
  <1>f. f = [o EXCEPT !.age = 0, !.srtt = z]
    BY DEF feedback
  <1> HIDE DEF f, z
  <1>4. /\ f \in [rate : MinBps .. MaxBps, srtt : BaseRTTns .. LongestRTT,
                  wait : 1 - StepNs .. LongestRTT, lost : BOOLEAN, high : 0 .. 1,
                  age : 0 .. TooOld]
        /\ f.rate = o.rate /\ f.wait = o.wait /\ f.lost = o.lost /\ f.age = 0
    BY <1>3, <1>z, <1>f
  <1>5. Heard(lost, fed, q) = IF fed THEN f ELSE o
    BY DEF Heard, f, o
  <1> QED BY <1>3, <1>4, <1>5

\* What an evaluation makes of it.
LEMMA TickFields ==
    ASSUME NEW h \in [rate : MinBps .. MaxBps, srtt : BaseRTTns .. LongestRTT,
                      wait : 1 - StepNs .. LongestRTT, lost : BOOLEAN, high : 0 .. 1,
                      age : 0 .. TooOld],
           NEW delay
    PROVE  LET e == Evaluated(h, delay) IN
           /\ e \in [rate : MinBps .. MaxBps, srtt : BaseRTTns .. LongestRTT,
                     wait : BaseRTTns .. LongestRTT, lost : BOOLEAN, high : 0 .. 1,
                     age : 0 .. TooOld]
           /\ e.wait = h.srtt /\ e.age = h.age
           /\ Stale(h) => e.rate = MinBps
           /\ h.lost => e.rate = MinBps \/ e.rate <= h.rate \div 2
  <1> USE Constants
  <1> HIDE DEF LongestRTT, TooOld, Stale
  <1>1. h.rate \in Nat /\ h.srtt \in Nat /\ h.srtt > 0
    OBVIOUS
  <1>2. Increase(h) \in Nat /\ h.rate + Increase(h) \in Nat
    BY <1>1, Increases
  <1>3. /\ clamp(h.rate) \in MinBps .. MaxBps
        /\ clamp(h.rate \div 2) \in MinBps .. MaxBps
        /\ clamp(h.rate + Increase(h)) \in MinBps .. MaxBps
        /\ clamp(h.rate \div 2) = MinBps \/ clamp(h.rate \div 2) <= h.rate \div 2
    BY <1>1, <1>2, Clamps, Halving
  <1> HIDE DEF clamp, Increase
  <1>4. Evaluated(h, delay).rate \in MinBps .. MaxBps
    BY <1>3 DEF Evaluated
  <1>5. evalPeriod(h) = h.srtt
    BY <1>1 DEF evalPeriod
  <1>6. ~Stale(h) /\ h.lost => Evaluated(h, delay).rate = clamp(h.rate \div 2)
    BY DEF Evaluated, Halves
  <1>7. Stale(h) => Evaluated(h, delay).rate = MinBps
    BY DEF Evaluated
  <1> DEFINE e == Evaluated(h, delay)
             hi == IF ~Stale(h) /\ ~h.lost /\ delay > QueueTargetNs /\ h.high = 0
                   THEN 1 ELSE 0
  <1>8. e = [h EXCEPT !.rate = e.rate, !.high = hi, !.lost = FALSE, !.wait = h.srtt]
    BY <1>5 DEF Evaluated
  <1>9. hi \in 0 .. 1
    OBVIOUS
  <1> HIDE DEF e, hi
  <1>10. /\ e \in [rate : MinBps .. MaxBps, srtt : BaseRTTns .. LongestRTT,
                   wait : BaseRTTns .. LongestRTT, lost : BOOLEAN, high : 0 .. 1,
                   age : 0 .. TooOld]
         /\ e.wait = h.srtt /\ e.age = h.age
    BY <1>4, <1>8, <1>9 DEF e
  <1> QED BY <1>3, <1>6, <1>7, <1>10 DEF e

LEMMA TcpStep ==
    ASSUME NEW f \in [rate : Nat, wait : 1 - StepNs .. LongestRTT, lost : BOOLEAN],
           NEW lost \in BOOLEAN, NEW q \in 0 .. MaxBuffer
    PROVE  Advance(tcpTick(observeLoss(f, lost), rttNs(q)))
             \in [rate : Nat, wait : 1 - StepNs .. LongestRTT, lost : BOOLEAN]
  <1> DEFINE g == observeLoss(f, lost)
             rtt == rttNs(q)
             r == Larger(MinBps, IF g.lost THEN g.rate \div 2
                                 ELSE g.rate + (MSS * StepNs) \div rtt)
  <1>1. rtt \in BaseRTTns .. LongestRTT
    BY Delays
  <1> HIDE DEF LongestRTT, rtt
  <1>2. g \in [rate : Nat, wait : 1 - StepNs .. LongestRTT, lost : BOOLEAN]
    BY DEF observeLoss
  <1> HIDE DEF g
  <1>3. rtt \in Nat /\ rtt > 0 /\ g.rate \in Nat
    BY <1>1, <1>2, Constants
  <1>4. MSS * StepNs \in Nat
    BY TimesAssumption, RatesAssumption
  <1>5. (MSS * StepNs) \div rtt \in Nat
    BY <1>3, <1>4, Quotient
  <1>6. r \in Nat
    BY <1>3, <1>5, Constants DEF Larger
  <1> HIDE DEF r
  <1> DEFINE k == tcpTick(g, rtt)
  <1>7. k = IF g.wait <= 0 THEN [g EXCEPT !.rate = r, !.lost = FALSE, !.wait = rtt] ELSE g
    BY DEF tcpTick, tcpEvaluated, Due, r
  <1> HIDE DEF k
  <1>8. k \in [rate : Nat, wait : 1 .. LongestRTT, lost : BOOLEAN]
    <2>1. CASE g.wait <= 0
      <3>1. k = [g EXCEPT !.rate = r, !.lost = FALSE, !.wait = rtt]
        BY <2>1, <1>7
      <3>2. rtt \in 1 .. LongestRTT
        BY <1>1, Constants
      <3> QED BY <3>1, <3>2, <1>2, <1>6
    <2>2. CASE ~(g.wait <= 0)
      <3>1. k = g /\ g.wait \in 1 .. LongestRTT
        BY <2>2, <1>2, <1>7, Constants
      <3> QED BY <3>1, <1>2
    <2> QED BY <2>1, <2>2
  <1>9. k.wait - StepNs \in 1 - StepNs .. LongestRTT
    BY <1>8, Constants
  <1>10. Advance(k) \in [rate : Nat, wait : 1 - StepNs .. LongestRTT, lost : BOOLEAN]
    BY <1>8, <1>9 DEF Advance
  <1> QED BY <1>10 DEF k, g, rtt

-------------------------------------------------------------------------------
LEMMA StepInv == IInv /\ Iterate => IInv'
  <1> SUFFICES ASSUME IInv, Iterate PROVE IInv'
    OBVIOUS
  <1> HIDE DEF LongestRTT, TooOld
  <1> DEFINE offered == ctl.rate + tcp.rate
             q       == Queue(offered)
             lost    == Lost(offered)
             fed     == ~(staleFeed /\ measuring')
             h       == Heard(lost, fed, q)
             k       == tick(h, queueDelay(q))
             halved  == Due(h) /\ Halves(h, queueDelay(q))
             o       == IF lost /\ owed.rate = 0 THEN [rate |-> ctl.rate, age |-> 0] ELSE owed
             t       == tcpTick(observeLoss(tcp, lost), rttNs(q))
  <1>1. /\ measuring' \in {measuring, TRUE}
        /\ link' = [link EXCEPT !.queue = q]
        /\ ctl' = [Advance(k) EXCEPT !.age = Later(k.age)]
        /\ tcp' = Advance(t)
        /\ cut' = IF halved THEN [age |-> StepNs, srtt |-> h.srtt]
                            ELSE [cut EXCEPT !.age = Later(cut.age)]
        /\ owed' = Owed(o, k.rate)
        /\ staleFeed' = staleFeed
    BY DEF Iterate, Heard
  <1>2. SimTypeOK /\ StaleInv /\ CutInv /\ OwedInv
    BY DEF IInv
  <1>3. ctl.rate \in Nat /\ tcp.rate \in Nat /\ link.queue \in Nat /\ link.buffer \in 0 .. MaxBuffer
    <2>1. ctl.rate \in MinBps .. MaxBps /\ tcp.rate \in Nat /\ link.buffer \in BufferSizes
          /\ link.queue \in 0 .. MaxBuffer
      BY <1>2 DEF SimTypeOK
    <2>2. ctl.rate \in Nat /\ link.buffer \in 0 .. MaxBuffer
      BY <2>1, BufferRange, RateRange
    <2> QED BY <2>1, <2>2
  <1>4. q \in 0 .. MaxBuffer /\ lost \in BOOLEAN
    BY <1>3, RatesAssumption DEF Queue, Backlog, Lost, Larger, Smaller
  <1>5. fed \in BOOLEAN
    OBVIOUS
  <1> HIDE DEF q, lost, fed, h, k, o, t, halved, offered
  <1>6. /\ h \in [rate : MinBps .. MaxBps, srtt : BaseRTTns .. LongestRTT,
                  wait : 1 - StepNs .. LongestRTT, lost : BOOLEAN, high : 0 .. 1,
                  age : 0 .. TooOld]
        /\ h.rate = ctl.rate /\ h.wait = ctl.wait /\ h.lost = (ctl.lost \/ lost)
        /\ h.age = IF fed THEN 0 ELSE ctl.age
    BY <1>2, <1>4, <1>5, HeardFields DEF h
  <1> DEFINE e == Evaluated(h, queueDelay(q))
  <1>7. /\ e \in [rate : MinBps .. MaxBps, srtt : BaseRTTns .. LongestRTT,
                  wait : BaseRTTns .. LongestRTT, lost : BOOLEAN, high : 0 .. 1,
                  age : 0 .. TooOld]
        /\ e.wait = h.srtt /\ e.age = h.age
        /\ Stale(h) => e.rate = MinBps
        /\ h.lost => e.rate = MinBps \/ e.rate <= h.rate \div 2
    BY <1>6, TickFields
  <1> HIDE DEF e
  <1>8. k = IF h.wait <= 0 THEN e ELSE h
    BY DEF k, tick, Due, e
  <1>9. /\ halved => h.wait <= 0
        /\ Stale(h) <=> h.age > FeedbackStaleNs
    BY DEF halved, Due, Stale
  \* The controller after the iteration.
  <1>10. /\ k \in [rate : MinBps .. MaxBps, srtt : BaseRTTns .. LongestRTT,
                   wait : 1 .. LongestRTT, lost : BOOLEAN, high : 0 .. 1,
                   age : 0 .. TooOld]
         /\ k.age = h.age
    <2>1. CASE h.wait <= 0
      <3>1. k = e
        BY <2>1, <1>8
      <3>2. e.wait \in 1 .. LongestRTT
        BY <1>7, Constants
      <3> QED BY <3>1, <3>2, <1>7
    <2>2. CASE ~(h.wait <= 0)
      <3>1. k = h
        BY <2>2, <1>8
      <3>2. h.wait \in 1 .. LongestRTT
        BY <2>2, <1>6, Constants
      <3> QED BY <3>1, <3>2, <1>6
    <2> QED BY <2>1, <2>2
  <1>11. Later(k.age) \in StepNs .. TooOld /\ Later(k.age) <= k.age + StepNs
    BY <1>10, Constants DEF Later, Smaller
  <1>12. /\ ctl' \in [rate : MinBps .. MaxBps, srtt : BaseRTTns .. LongestRTT,
                      wait : 1 - StepNs .. LongestRTT, lost : BOOLEAN, high : 0 .. 1,
                      age : 0 .. TooOld]
         /\ ctl'.rate = k.rate /\ ctl'.wait = k.wait - StepNs /\ ctl'.lost = k.lost
         /\ ctl'.age = Later(k.age)
    <2> DEFINE w == k.wait - StepNs
               l == Later(k.age)
    <2>1. ctl' = [k EXCEPT !.wait = w, !.age = l]
      BY <1>1 DEF Advance
    <2>2. w \in 1 - StepNs .. LongestRTT /\ l \in 0 .. TooOld
      BY <1>10, <1>11, Constants
    <2> HIDE DEF w, l
    <2>3. /\ ctl' \in [rate : MinBps .. MaxBps, srtt : BaseRTTns .. LongestRTT,
                       wait : 1 - StepNs .. LongestRTT, lost : BOOLEAN, high : 0 .. 1,
                       age : 0 .. TooOld]
          /\ ctl'.rate = k.rate /\ ctl'.wait = w /\ ctl'.lost = k.lost /\ ctl'.age = l
      BY <1>10, <2>1, <2>2
    <2> QED BY <2>3 DEF w, l
  <1>13. StaleInv'
    <2>1. CASE h.wait <= 0
      BY <2>1, <1>2, <1>6, <1>7, <1>8, <1>9, <1>11, <1>12, Constants DEF StaleInv
    <2>2. CASE ~(h.wait <= 0)
      BY <2>2, <1>2, <1>6, <1>8, <1>11, <1>12, Constants DEF StaleInv, SimTypeOK
    <2> QED BY <2>1, <2>2
  \* The last halving.
  <1>14. cut.age \in StepNs .. TooOld /\ cut.srtt \in 0 .. LongestRTT
    BY <1>2 DEF SimTypeOK
  <1>15. /\ Later(cut.age) \in StepNs .. TooOld
         /\ Later(cut.age) = TooOld \/ Later(cut.age) = cut.age + StepNs
    BY <1>14, Constants DEF Later, Smaller
  <1>16. cut' \in [age : StepNs .. TooOld, srtt : 0 .. LongestRTT] /\ CutInv'
    <2>1. CASE halved
      <3>1. cut' = [age |-> StepNs, srtt |-> h.srtt]
        BY <2>1, <1>1
      <3>2. k.wait = h.srtt
        BY <2>1, <1>7, <1>8, <1>9
      <3>3. h.srtt \in 0 .. LongestRTT /\ StepNs \in StepNs .. TooOld
        BY <1>6, Constants
      <3> QED BY <3>1, <3>2, <3>3, <1>12, Constants DEF CutInv
    <2>2. CASE ~halved
      <3>1. cut' = [cut EXCEPT !.age = Later(cut.age)]
        BY <2>2, <1>1
      <3>2. /\ cut' \in [age : StepNs .. TooOld, srtt : 0 .. LongestRTT]
            /\ cut'.age = Later(cut.age) /\ cut'.srtt = cut.srtt
        BY <3>1, <1>2, <1>15 DEF SimTypeOK
      <3>3. ctl.wait \in Int /\ cut.age + ctl.wait >= cut.srtt
        BY <1>2 DEF CutInv, SimTypeOK
      <3>4. k.wait \in 1 .. LongestRTT /\ (k.wait = ctl.wait \/ ctl.wait <= 0)
        BY <1>6, <1>8, <1>10
      <3>5. Later(cut.age) + (k.wait - StepNs) >= cut.srtt
        BY <3>3, <3>4, <1>14, <1>15, Constants
      <3> QED BY <3>2, <3>5, <1>12 DEF CutInv
    <2> QED BY <2>1, <2>2
  \* The overflow not yet answered.
  <1>17. owed' \in [rate : 0 .. MaxBps, age : 0 .. TooOld] /\ OwedInv'
    <2>1. CASE o.rate = 0 \/ k.rate = MinBps \/ k.rate <= o.rate \div 2
      <3>1. owed' = [rate |-> 0, age |-> 0]
        BY <2>1, <1>1 DEF Owed
      <3> QED BY <3>1, Constants DEF OwedInv
    <2>2. CASE ~(o.rate = 0 \/ k.rate = MinBps \/ k.rate <= o.rate \div 2)
      <3>1. owed' = [o EXCEPT !.age = Later(o.age)]
        BY <2>2, <1>1 DEF Owed
      <3>2. /\ o \in [rate : 0 .. MaxBps, age : 0 .. TooOld]
            /\ o.rate = ctl.rate /\ h.lost
            /\ o.age + ctl.wait <= LongestRTT
        <4>1. ctl.rate \in 0 .. MaxBps /\ 0 \in 0 .. TooOld /\ ctl.wait <= LongestRTT
              /\ ctl.wait \in Int
          BY <1>2, Constants DEF SimTypeOK
        <4>2. CASE lost /\ owed.rate = 0
          <5>1. o = [rate |-> ctl.rate, age |-> 0]
            BY <4>2 DEF o
          <5> QED BY <4>1, <4>2, <5>1, <1>6
        <4>3. CASE ~(lost /\ owed.rate = 0)
          <5>1. o = owed
            BY <4>3 DEF o
          <5>2. owed.rate # 0
            BY <2>2, <5>1
          <5> QED BY <5>1, <5>2, <1>2, <1>6 DEF SimTypeOK, OwedInv
        <4> QED BY <4>2, <4>3
      <3>3. ~(h.wait <= 0)
        BY <2>2, <3>2, <1>6, <1>7, <1>8
      <3>4. k = h
        BY <3>3, <1>8
      <3>5. Later(o.age) \in 0 .. TooOld /\ Later(o.age) <= o.age + StepNs
        BY <3>2, Constants DEF Later, Smaller
      <3>6. /\ owed' \in [rate : 0 .. MaxBps, age : 0 .. TooOld]
            /\ owed'.rate = o.rate /\ owed'.age = Later(o.age)
        BY <3>1, <3>2, <3>5
      <3>7. ctl.wait \in Int /\ o.age \in Int
        BY <3>2, <1>2 DEF SimTypeOK
      <3>8. Later(o.age) + (ctl.wait - StepNs) <= LongestRTT
        BY <3>2, <3>5, <3>7, Constants
      <3> QED BY <3>2, <3>4, <3>6, <3>8, <1>6, <1>12 DEF OwedInv
    <2> QED BY <2>1, <2>2
  \* The link and the TCP flow.
  <1>18. link' \in [buffer : BufferSizes, queue : 0 .. MaxBuffer]
    BY <1>1, <1>2, <1>4 DEF SimTypeOK
  <1>19. tcp' \in [rate : Nat, wait : 1 - StepNs .. LongestRTT, lost : BOOLEAN]
    BY <1>1, <1>2, <1>4, TcpStep DEF SimTypeOK, t
  <1>20. SimTypeOK'
    BY <1>1, <1>2, <1>12, <1>16, <1>17, <1>18, <1>19 DEF SimTypeOK
  <1> QED BY <1>13, <1>16, <1>17, <1>20 DEF IInv

LEMMA NextInv == IInv /\ [SimNext]_simVars => IInv'
  <1>1. IInv /\ UNCHANGED simVars => IInv'
    BY DEF simVars, IInv, SimTypeOK, StaleInv, CutInv, OwedInv
  <1> QED BY <1>1, StepInv DEF SimNext

LEMMA Invariance == SimSpec => []IInv
  BY InitInv, NextInv, PTL DEF SimSpec

-------------------------------------------------------------------------------
\* The controller's rate stays within its bounds and its smoothed RTT within the RTTs
\* the link can have, whatever the rounding of integer arithmetic.
THEOREM CongestionTyped == SimSpec => []SimTypeOK
  <1>1. IInv => SimTypeOK
    BY DEF IInv
  <1> QED BY <1>1, Invariance, PTL

\* A controller without feedback is at its minimum once the feedback has been stale for
\* an evaluation period.
THEOREM CongestionStale == SimSpec => []StaleMeansMinimum
  <1>1. IInv => StaleMeansMinimum
    <2> SUFFICES ASSUME IInv, ctl.age >= TooOld, ctl.rate # MinBps PROVE FALSE
      BY DEF StaleMeansMinimum
    <2> HIDE DEF LongestRTT, TooOld
    <2>1. /\ ctl.age \in Int /\ ctl.wait \in Int /\ ctl.wait >= 1 - StepNs
          /\ ctl.age + ctl.wait <= FeedbackStaleNs + LongestRTT
      BY Constants DEF IInv, SimTypeOK, StaleInv
    <2> QED BY <2>1, Constants
  <1> QED BY <1>1, Invariance, PTL

\* An overflow is answered within an evaluation period.
THEOREM CongestionLoss == SimSpec => []LossAnswered
  <1>1. IInv => LossAnswered
    <2> SUFFICES ASSUME IInv, owed.rate # 0 PROVE owed.age < LongestRTT + StepNs
      BY DEF LossAnswered
    <2> HIDE DEF LongestRTT, TooOld
    <2>1. /\ owed.age \in Int /\ ctl.wait \in Int /\ ctl.wait >= 1 - StepNs
          /\ owed.age + ctl.wait <= LongestRTT
      BY Constants DEF IInv, SimTypeOK, OwedInv
    <2> QED BY <2>1, Constants
  <1> QED BY <1>1, Invariance, PTL

\* Two halvings are at least the smoothed RTT of the first apart.
THEOREM CongestionCuts == SimSpec => CutsApart
  <1>1. IInv /\ [SimNext]_simVars => [cut'.age = StepNs => cut.age >= cut.srtt]_simVars
    <2> SUFFICES ASSUME IInv, Iterate, cut'.age = StepNs PROVE cut.age >= cut.srtt
      BY DEF SimNext
    <2> HIDE DEF LongestRTT, TooOld
    <2> DEFINE h == Heard(Lost(ctl.rate + tcp.rate), ~(staleFeed /\ measuring'),
                          Queue(ctl.rate + tcp.rate))
    <2>1. CASE Due(h)
      <3>1. h.wait = ctl.wait
        BY DEF Heard, feedback, observeLoss, IInv, SimTypeOK
      <3>2. ctl.wait \in Int /\ ctl.wait <= 0 /\ cut.age \in Int /\ cut.srtt \in Int
            /\ cut.age + ctl.wait >= cut.srtt
        BY <2>1, <3>1, Constants DEF Due, IInv, SimTypeOK, CutInv
      <3> QED BY <3>2
    <2>2. CASE ~Due(h)
      <3>1. cut' = [cut EXCEPT !.age = Later(cut.age)]
        BY <2>2 DEF Iterate, Heard
      <3>2. cut.age \in StepNs .. TooOld /\ cut'.age = Later(cut.age)
        BY <3>1 DEF IInv, SimTypeOK
      <3>3. Later(cut.age) > StepNs
        BY <3>2, Constants DEF Later, Smaller
      <3> QED BY <3>2, <3>3, Constants
    <2> QED BY <2>1, <2>2
  <1> QED BY <1>1, Invariance, PTL DEF SimSpec, CutsApart
===============================================================================
