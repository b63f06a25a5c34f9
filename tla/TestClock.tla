------------------------------- MODULE TestClock -------------------------------
(***************************************************************************)
(* The manually advanced clock of internal/testclock/clock.go. Set fires   *)
(* what is due one entry at a time and drops the lock while it delivers,   *)
(* so that callbacks and other goroutines create, stop and reset timers    *)
(* in between, and may call Set or Advance themselves.                     *)
(*                                                                         *)
(* A handle is the *timer or *ticker its caller keeps; times and durations *)
(* are small numbers. A channel holds at most one time.                    *)
(***************************************************************************)
EXTENDS Integers

CONSTANTS
    Handles,      \* bounds the timers and tickers ever created
    Setters,      \* goroutines, or callbacks, that call Set and Advance
    Durations,    \* arguments of NewTimer, AfterFunc, NewTicker, Reset, Advance
    MaxTime,      \* bound on the clock
    MaxIDs,       \* bound on nextID
    MaxArms,      \* bound on how often a timer is armed
    Nil

Entry == [deadline : Int, period : Nat, seq : Nat, active : BOOLEAN, ticks : Nat,
          fn : BOOLEAN, ch : BOOLEAN]

\* What Set has taken from the entry it delivers.
Firing == [handle : Handles, at : Int, fn : BOOLEAN, ch : BOOLEAN]

ASSUME ClockAssumption ==
    /\ Durations \subseteq Int
    /\ {MaxTime, MaxIDs, MaxArms} \subseteq Nat
    /\ Nil \notin Int \cup Entry \cup Firing \cup {"timer", "func", "ticker"}

VARIABLES
    now, nextID,
    timers,    \* per handle: its entry in c.timers, or Nil
    kind,      \* per handle: "timer", "func" or "ticker", or Nil before its creation
    chan,      \* per handle: the time its channel holds, or Nil
    target,    \* per setter: the argument of its Set in progress, or Nil
    firing     \* per setter: what it delivers, without the lock, or Nil

clock == <<now, nextID>>

\* History, read by properties only. Per handle: how often it was armed, fired, and
\* found active by a Stop or a Reset.
VARIABLES arms, fires, trues

history   == <<arms, fires, trues>>
clockVars == <<clock, timers, kind, chan, target, firing, history>>

ClockInit ==
    /\ now = 0 /\ nextID = 0
    /\ timers = [h \in Handles |-> Nil]
    /\ kind = [h \in Handles |-> Nil]
    /\ chan = [h \in Handles |-> Nil]
    /\ target = [s \in Setters |-> Nil]
    /\ firing = [s \in Setters |-> Nil]
    /\ arms = [h \in Handles |-> 0]
    /\ fires = [h \in Handles |-> 0]
    /\ trues = [h \in Handles |-> 0]

\* c.mu is free: every Set in progress is delivering.
Holds(s) == target[s] # Nil /\ firing[s] = Nil
Unlocked == \A s \in Setters : ~Holds(s)

Bump(f, h) == [f EXCEPT ![h] = @ + 1]

-------------------------------------------------------------------------------
\* add, and what NewTimer, AfterFunc and NewTicker set in the entry.
add(h, k, d, period) ==
    /\ Unlocked /\ kind[h] = Nil /\ nextID < MaxIDs
    /\ nextID' = nextID + 1
    /\ kind' = [kind EXCEPT ![h] = k]
    /\ timers' = [timers EXCEPT ![h] =
                    [deadline |-> now + d, period |-> period, seq |-> nextID + 1,
                     active |-> TRUE, ticks |-> 0, fn |-> k = "func", ch |-> k # "func"]]
    /\ arms' = Bump(arms, h)
    /\ UNCHANGED <<now, chan, target, firing, fires, trues>>

NewTimer(h, d)  == add(h, "timer", d, 0)
AfterFunc(h, d) == add(h, "func", d, 0)
NewTicker(h, d) == d > 0 /\ add(h, "ticker", d, d)   \* panics otherwise

-------------------------------------------------------------------------------
\* Set, and Advance with what it has made of Now, which may be stale: the lock is
\* taken.
Set(s, t) ==
    /\ Unlocked /\ target[s] = Nil
    /\ t >= now                                       \* panics otherwise
    /\ target' = [target EXCEPT ![s] = t]
    /\ UNCHANGED <<clock, timers, kind, chan, firing, history>>

DueBy(h, t) == timers[h] # Nil /\ timers[h].active /\ timers[h].deadline <= t

Before(x, y) == x.deadline < y.deadline \/ (x.deadline = y.deadline /\ x.seq < y.seq)

earliestUnsorted(h, t) == DueBy(h, t)   \* mutant: the first one found

earliestDue(h, t) ==
    DueBy(h, t) /\ \A o \in Handles \ {h} : DueBy(o, t) => ~Before(timers[o], timers[h])

\* One iteration up to the unlock: now is stepped to the deadline, a ticker is
\* moved on, a one-shot timer removed.
Fire(s, h) ==
    /\ Holds(s)
    /\ earliestDue(h, target[s])
    /\ LET e == timers[h]
       IN  /\ now' = e.deadline
           /\ timers' = IF e.period > 0
                        THEN [timers EXCEPT ![h].deadline = @ + e.period, ![h].ticks = @ + 1]
                        ELSE [timers EXCEPT ![h] = Nil]
           /\ firing' = [firing EXCEPT ![s] =
                           [handle |-> h, at |-> e.deadline, fn |-> e.fn, ch |-> e.ch]]
    /\ fires' = Bump(fires, h)
    /\ UNCHANGED <<nextID, kind, chan, target, arms, trues>>

\* The callback has run, or the time was sent without blocking, and the lock is
\* taken again.
Deliver(s) ==
    /\ firing[s] # Nil /\ Unlocked
    /\ LET h == firing[s].handle
       IN  chan' = IF ~firing[s].fn /\ firing[s].ch /\ chan[h] = Nil
                   THEN [chan EXCEPT ![h] = firing[s].at] ELSE chan
    /\ firing' = [firing EXCEPT ![s] = Nil]
    /\ UNCHANGED <<clock, timers, kind, target, arms, fires, trues>>

SetReturnsEarly(s) ==   \* mutant: the loop is left after one entry
    /\ Holds(s)
    /\ now' = target[s]
    /\ target' = [target EXCEPT ![s] = Nil]
    /\ UNCHANGED <<nextID, timers, kind, chan, firing, history>>

SetReturns(s) ==
    /\ Holds(s)
    /\ \A h \in Handles : ~DueBy(h, target[s])
    /\ now' = target[s]
    /\ target' = [target EXCEPT ![s] = Nil]
    /\ UNCHANGED <<nextID, timers, kind, chan, firing, history>>

-------------------------------------------------------------------------------
OneShot(h) == kind[h] \in {"timer", "func"}

StopForgetsEntry(h) ==   \* mutant: inactive is not removed, and not reported
    /\ Unlocked /\ OneShot(h)
    /\ timers' = [timers EXCEPT ![h] = Nil]
    /\ UNCHANGED <<clock, kind, chan, target, firing, history>>

\* timer.Stop: true if the entry was there and active, which it then is no more.
StopTimer(h) ==
    /\ Unlocked /\ OneShot(h)
    /\ IF timers[h] # Nil /\ timers[h].active
       THEN timers' = [timers EXCEPT ![h] = Nil] /\ trues' = Bump(trues, h)
       ELSE UNCHANGED <<timers, trues>>
    /\ UNCHANGED <<clock, kind, chan, target, firing, arms, fires>>

\* timer.Reset: a timer that has fired or was stopped gets a new entry, with the
\* handle's channel; the function is not the handle's to give.
ResetTimer(h, d) ==
    /\ Unlocked /\ OneShot(h) /\ arms[h] < MaxArms
    /\ IF timers[h] = Nil
       THEN /\ nextID < MaxIDs
            /\ nextID' = nextID + 1
            /\ timers' = [timers EXCEPT ![h] =
                            [deadline |-> now + d, period |-> 0, seq |-> nextID + 1,
                             active |-> TRUE, ticks |-> 0, fn |-> FALSE,
                             ch |-> kind[h] = "timer"]]
            /\ UNCHANGED trues
       ELSE /\ timers' = [timers EXCEPT ![h].deadline = now + d, ![h].active = TRUE]
            /\ trues' = IF timers[h].active THEN Bump(trues, h) ELSE trues
            /\ UNCHANGED nextID
    /\ arms' = Bump(arms, h)
    /\ UNCHANGED <<now, kind, chan, target, firing, fires>>

\* ticker.Stop keeps the entry, and TickCount with it.
StopTicker(h) ==
    /\ Unlocked /\ kind[h] = "ticker"
    /\ timers' = [timers EXCEPT ![h].active = FALSE]
    /\ UNCHANGED <<clock, kind, chan, target, firing, history>>

ResetTicker(h, d) ==
    /\ Unlocked /\ kind[h] = "ticker" /\ d > 0           \* panics otherwise
    /\ timers' = [timers EXCEPT ![h].period = d, ![h].deadline = now + d, ![h].active = TRUE]
    /\ UNCHANGED <<clock, kind, chan, target, firing, history>>

\* A goroutine receives from the channel.
ReceiveTime(h) ==
    /\ chan[h] # Nil
    /\ chan' = [chan EXCEPT ![h] = Nil]
    /\ UNCHANGED <<clock, timers, kind, target, firing, history>>

ClockNext ==
    \/ \E h \in Handles :
         \/ \E d \in Durations : \/ NewTimer(h, d) \/ AfterFunc(h, d) \/ NewTicker(h, d)
                                 \/ ResetTimer(h, d) \/ ResetTicker(h, d)
         \/ StopTimer(h) \/ StopTicker(h)
         \/ ReceiveTime(h)
    \/ \E s \in Setters :
         \/ \E t \in 0 .. MaxTime : Set(s, t)
         \/ \E h \in Handles : Fire(s, h)
         \/ Deliver(s)
         \/ SetReturns(s)

ClockSpec == ClockInit /\ [][ClockNext]_clockVars

-------------------------------------------------------------------------------
Active(h) == timers[h] # Nil /\ timers[h].active

ClockTypeOK ==
    /\ now \in Int /\ nextID \in 0 .. MaxIDs
    /\ timers \in [Handles -> Entry \cup {Nil}]
    /\ kind \in [Handles -> {"timer", "func", "ticker", Nil}]
    /\ chan \in [Handles -> Int \cup {Nil}]
    /\ target \in [Setters -> Int \cup {Nil}]
    /\ firing \in [Setters -> Firing \cup {Nil}]
    /\ \A f \in {arms, fires, trues} : f \in [Handles -> Nat]

\* What the properties about overdue timers and the order of time ask of the callers:
\* NewTimer, AfterFunc and Reset accept a negative duration.
NoNegative == Durations \subseteq Nat

\* "Set moves the clock to t" and "Advance moves the clock forward by d", which are the
\* only ways it moves: time never goes back.
TimeNeverBack == [][now' >= now]_clockVars

\* Stepping to the deadlines of timers, which callbacks and other goroutines change
\* under way, never moves time back, however many calls of Set overlap. The return of
\* one does, when another has taken the clock past its argument meanwhile.
SetReturned == \E s \in Setters : Holds(s) /\ target'[s] = Nil /\ now' = target[s]
BackOnlyIfOvertaken == [][now' < now => SetReturned]_clockVars

\* "Every timer whose deadline is now in the past fires": no armed timer is overdue,
\* between two calls of Set, in the middle of one, or when several overlap.
NeverOverdue == \A h \in Handles : Active(h) => timers[h].deadline >= now

\* "Reset changes the timer to expire after d", as time.Timer.Reset does: whenever an
\* AfterFunc timer fires, re-armed or not, its function runs.
CallbackRuns ==
    \A s \in Setters :
      firing[s] # Nil /\ kind[firing[s].handle] = "func" => firing[s].fn

\* Stop and Reset return true "if it was still active": every arming of a one-shot
\* timer either fires, once, or is reported as stopped in time, once, or is pending.
ArmingAccounted ==
    \A h \in Handles : OneShot(h) =>
      arms[h] = fires[h] + trues[h] + (IF Active(h) THEN 1 ELSE 0)
===============================================================================
