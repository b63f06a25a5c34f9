---------------------------- MODULE TestClockProofs ----------------------------
(***************************************************************************)
(* The order of time in the test clock (TestClock), for any handles and    *)
(* durations, and whatever callbacks and overlapping calls of Set do.      *)
(***************************************************************************)
EXTENDS TestClock, TLAPS

Kinds == {"timer", "func", "ticker", Nil}

Pending(e) == IF e # Nil /\ e.active THEN 1 ELSE 0

\* What holds between the entry e of a handle of kind k, the time n, and how often the
\* handle was armed, has fired and was found active: a ticker keeps its entry and its
\* period, an active entry is not overdue if no duration is negative, and every arming
\* is accounted for.
HandleOK(e, k, n, a, f, t) ==
    /\ e # Nil => /\ k # Nil
                  /\ k = "ticker" <=> e.period > 0
                  /\ NoNegative /\ e.active => e.deadline >= n
    /\ k = "ticker" => e # Nil
    /\ k = Nil => a = 0 /\ f = 0 /\ t = 0
    /\ k \in {"timer", "func"} => a = f + t + Pending(e)

\* One goroutine alone moves the clock.
Alone == \A s, o \in Setters : s = o

\* Set never runs past its argument, unless another one does.
Within == Alone => \A s \in Setters : target[s] # Nil => now <= target[s]

IInv ==
    /\ ClockTypeOK
    /\ Within
    /\ \A h \in Handles : HandleOK(timers[h], kind[h], now, arms[h], fires[h], trues[h])

\* A new clock has the invariant.
LEMMA InitIInv == ClockInit => IInv
  <1> SUFFICES ASSUME ClockInit PROVE IInv
    OBVIOUS
  <1>1. ClockTypeOK
    BY ClockAssumption DEF ClockInit, ClockTypeOK
  <1>2. Within
    BY DEF ClockInit, Within
  <1>3. \A h \in Handles : HandleOK(timers[h], kind[h], now, arms[h], fires[h], trues[h])
    BY ClockAssumption DEF ClockInit, HandleOK, Pending
  <1> QED
    BY <1>1, <1>2, <1>3 DEF IInv

\* A call on one handle while time stands still: NewTimer, AfterFunc, NewTicker, Stop
\* and Reset.
LEMMA OneHandle ==
    ASSUME IInv, NEW h \in Handles, NEW e \in Entry \cup {Nil}, NEW k \in Kinds,
           NEW a \in Nat, NEW f \in Nat, NEW t \in Nat, HandleOK(e, k, now, a, f, t),
           timers' = [timers EXCEPT ![h] = e], kind' = [kind EXCEPT ![h] = k],
           arms' = [arms EXCEPT ![h] = a], fires' = [fires EXCEPT ![h] = f],
           trues' = [trues EXCEPT ![h] = t], nextID' \in 0 .. MaxIDs,
           UNCHANGED <<now, chan, target, firing>>
    PROVE  IInv'
  <1>1. ClockTypeOK'
    <2>1. timers' \in [Handles -> Entry \cup {Nil}] /\ kind' \in [Handles -> Kinds]
      BY DEF IInv, ClockTypeOK, Kinds
    <2>2. /\ arms' \in [Handles -> Nat] /\ fires' \in [Handles -> Nat]
          /\ trues' \in [Handles -> Nat]
      BY DEF IInv, ClockTypeOK
    <2> QED
      BY <2>1, <2>2 DEF IInv, ClockTypeOK, Kinds
  <1>2. Within'
    BY DEF IInv, Within
  <1>3. ASSUME NEW o \in Handles
        PROVE  HandleOK(timers'[o], kind'[o], now', arms'[o], fires'[o], trues'[o])
    <2>1. CASE o = h
      BY <2>1 DEF IInv, ClockTypeOK
    <2>2. CASE o # h
      BY <2>2 DEF IInv, ClockTypeOK
    <2> QED
      BY <2>1, <2>2
  <1> QED
    BY <1>1, <1>2, <1>3 DEF IInv

\* What IInv says of one handle.
LEMMA AtHandle ==
    ASSUME IInv, NEW h \in Handles
    PROVE  /\ timers[h] \in Entry \cup {Nil} /\ kind[h] \in Kinds
           /\ arms[h] \in Nat /\ fires[h] \in Nat /\ trues[h] \in Nat
           /\ kind = [kind EXCEPT ![h] = kind[h]] /\ arms = [arms EXCEPT ![h] = arms[h]]
           /\ fires = [fires EXCEPT ![h] = fires[h]]
           /\ trues = [trues EXCEPT ![h] = trues[h]]
           /\ timers = [timers EXCEPT ![h] = timers[h]]
           /\ now \in Int /\ nextID \in 0 .. MaxIDs
           /\ HandleOK(timers[h], kind[h], now, arms[h], fires[h], trues[h])
  BY DEF IInv, ClockTypeOK, Kinds

\* NewTimer, AfterFunc and NewTicker arm a handle for the first time.
LEMMA addIInv ==
    ASSUME IInv, NEW h \in Handles, NEW k \in {"timer", "func", "ticker"},
           NEW d \in Int, NEW period \in Nat, k = "ticker" <=> period > 0,
           NoNegative => d >= 0,
           add(h, k, d, period)
    PROVE  IInv'
  <1> DEFINE e == [deadline |-> now + d, period |-> period, seq |-> nextID + 1,
                   active |-> TRUE, ticks |-> 0, fn |-> k = "func", ch |-> k # "func"]
  <1>1. /\ now \in Int /\ nextID \in Nat /\ nextID' \in 0 .. MaxIDs
        /\ kind[h] = Nil /\ arms[h] = 0 /\ fires[h] = 0 /\ trues[h] = 0
    BY AtHandle, ClockAssumption DEF add, HandleOK
  <1>2. e \in Entry /\ e.active /\ (NoNegative => e.deadline >= now) /\ e.period = period
    BY <1>1 DEF Entry
  <1>3. timers' = [timers EXCEPT ![h] = e]
    BY DEF add
  <1> HIDE DEF e
  <1>4. HandleOK(e, k, now, 1, 0, 0)
    BY <1>2, ClockAssumption DEF HandleOK, Pending
  <1>5. /\ arms' = [arms EXCEPT ![h] = 1] /\ fires' = [fires EXCEPT ![h] = 0]
        /\ trues' = [trues EXCEPT ![h] = 0] /\ kind' = [kind EXCEPT ![h] = k]
        /\ UNCHANGED <<now, chan, target, firing>>
    BY <1>1, AtHandle DEF add, Bump
  <1>6. e \in Entry \cup {Nil} /\ k \in Kinds /\ 0 \in Nat /\ 1 \in Nat
    BY <1>2 DEF Kinds
  <1> QED
    BY <1>1, <1>3, <1>4, <1>5, <1>6, OneHandle

\* What Reset, ticker.Reset and Set assign in an entry.
Rearmed(r, x) == [r EXCEPT !.deadline = x, !.active = TRUE]
Retimed(r, x, y) == [r EXCEPT !.period = y, !.deadline = x, !.active = TRUE]
Ticked(r, x, y) == [r EXCEPT !.deadline = x, !.ticks = y]

\* timer.Reset of an entry.
LEMMA RearmedEntry ==
    \A r \in Entry, x \in Int :
      /\ Rearmed(r, x) \in Entry /\ Rearmed(r, x).active
      /\ Rearmed(r, x).deadline = x /\ Rearmed(r, x).period = r.period
  BY DEF Entry, Rearmed

\* ticker.Reset of an entry.
LEMMA RetimedEntry ==
    \A r \in Entry, x \in Int, y \in Nat :
      /\ Retimed(r, x, y) \in Entry /\ Retimed(r, x, y).active
      /\ Retimed(r, x, y).deadline = x /\ Retimed(r, x, y).period = y
  BY DEF Entry, Retimed

\* timer.Stop keeps the invariant: a stopped arming is counted by the true it returns.
LEMMA StopIInv ==
    ASSUME IInv, NEW h \in Handles, StopTimer(h)
    PROVE  IInv'
  <1>0. /\ timers[h] \in Entry \cup {Nil} /\ kind[h] \in Kinds
        /\ arms[h] \in Nat /\ fires[h] \in Nat /\ trues[h] \in Nat
        /\ kind = [kind EXCEPT ![h] = kind[h]] /\ arms = [arms EXCEPT ![h] = arms[h]]
        /\ fires = [fires EXCEPT ![h] = fires[h]]
        /\ trues = [trues EXCEPT ![h] = trues[h]]
        /\ timers = [timers EXCEPT ![h] = timers[h]]
        /\ now \in Int /\ nextID \in 0 .. MaxIDs
        /\ HandleOK(timers[h], kind[h], now, arms[h], fires[h], trues[h])
    BY AtHandle
  <1>1. CASE Active(h)
    <2>1. /\ timers' = [timers EXCEPT ![h] = Nil]
          /\ trues' = [trues EXCEPT ![h] = trues[h] + 1]
          /\ nextID' \in 0 .. MaxIDs
          /\ kind' = [kind EXCEPT ![h] = kind[h]] /\ arms' = [arms EXCEPT ![h] = arms[h]]
          /\ fires' = [fires EXCEPT ![h] = fires[h]]
          /\ UNCHANGED <<now, chan, target, firing>>
      BY <1>0, <1>1 DEF StopTimer, Active, Bump, clock
    <2>2. HandleOK(Nil, kind[h], now, arms[h], fires[h], trues[h] + 1)
      BY <1>0, <1>1, ClockAssumption DEF StopTimer, OneShot, Active, HandleOK, Pending
    <2>3. trues[h] + 1 \in Nat /\ Nil \in Entry \cup {Nil}
      BY <1>0
    <2> QED
      BY <1>0, <2>1, <2>2, <2>3, OneHandle
  <1>2. CASE ~Active(h)
    <2>1. /\ nextID' \in 0 .. MaxIDs
          /\ UNCHANGED <<timers, trues, kind, arms, fires, now, chan, target, firing>>
      BY <1>0, <1>2 DEF StopTimer, Active, clock
    <2> QED
      BY <1>0, <2>1, OneHandle
  <1> QED
    BY <1>1, <1>2

\* timer.Reset keeps the invariant, of an entry that is there and of one that is gone.
LEMMA ResetIInv ==
    ASSUME IInv, NEW h \in Handles, NEW d \in Int, NoNegative => d >= 0,
           ResetTimer(h, d)
    PROVE  IInv'
  <1>0. /\ timers[h] \in Entry \cup {Nil} /\ kind[h] \in Kinds
        /\ arms[h] \in Nat /\ fires[h] \in Nat /\ trues[h] \in Nat
        /\ kind = [kind EXCEPT ![h] = kind[h]] /\ arms = [arms EXCEPT ![h] = arms[h]]
        /\ fires = [fires EXCEPT ![h] = fires[h]]
        /\ trues = [trues EXCEPT ![h] = trues[h]]
        /\ timers = [timers EXCEPT ![h] = timers[h]]
        /\ now \in Int /\ nextID \in 0 .. MaxIDs
        /\ HandleOK(timers[h], kind[h], now, arms[h], fires[h], trues[h])
    BY AtHandle
  <1>1. /\ kind[h] \in {"timer", "func"}
        /\ arms' = [arms EXCEPT ![h] = arms[h] + 1]
        /\ kind' = [kind EXCEPT ![h] = kind[h]] /\ fires' = [fires EXCEPT ![h] = fires[h]]
        /\ UNCHANGED <<now, chan, target, firing>>
    BY <1>0 DEF ResetTimer, OneShot, Bump
  <1>2. CASE timers[h] = Nil
    <2> DEFINE e == [deadline |-> now + d, period |-> 0, seq |-> nextID + 1,
                     active |-> TRUE, ticks |-> 0, fn |-> FALSE, ch |-> kind[h] = "timer"]
    <2>1. e \in Entry /\ e.active /\ (NoNegative => e.deadline >= now) /\ e.period = 0
      BY <1>0, ClockAssumption DEF Entry
    <2>2. /\ timers' = [timers EXCEPT ![h] = e] /\ trues' = [trues EXCEPT ![h] = trues[h]]
          /\ nextID' \in 0 .. MaxIDs
      BY <1>0, <1>2, ClockAssumption DEF ResetTimer
    <2> HIDE DEF e
    <2>3. HandleOK(e, kind[h], now, arms[h] + 1, fires[h], trues[h])
      BY <1>0, <1>1, <1>2, <2>1, ClockAssumption DEF HandleOK, Pending
    <2>4. arms[h] + 1 \in Nat /\ e \in Entry \cup {Nil}
      BY <1>0, <2>1
    <2> QED
      BY <1>0, <1>1, <2>2, <2>3, <2>4, OneHandle
  <1>3. CASE timers[h] # Nil
    <2>a. PICK x \in Int : x = now + d
      BY <1>0
    <2> DEFINE e == Rearmed(timers[h], x)
               t == IF timers[h].active THEN trues[h] + 1 ELSE trues[h]
    <2>0. timers[h] \in Entry
      BY <1>0, <1>3
    <2>9. (NoNegative => x >= now) /\ t \in Nat
      BY <1>0, <2>a
    <2>1. /\ e \in Entry /\ e.active /\ e.period = timers[h].period
          /\ NoNegative => e.deadline >= now
      BY <2>0, <2>9, RearmedEntry
    <2>2. timers' = [timers EXCEPT ![h] = e] /\ nextID' = nextID
      BY <1>3, <2>a DEF ResetTimer, Rearmed
    <2>8. trues' = [trues EXCEPT ![h] = t]
      BY <1>0, <1>3 DEF ResetTimer, Bump
    <2>3. e # Nil
      BY <2>1, ClockAssumption
    <2>4. Pending(e) = 1
      BY <2>1, <2>3 DEF Pending
    <2>5. arms[h] + 1 = fires[h] + t + 1
      BY <1>0, <1>1, <1>3 DEF HandleOK, Pending
    <2> HIDE DEF e, t
    <2>6. HandleOK(e, kind[h], now, arms[h] + 1, fires[h], t)
      BY <1>0, <1>1, <1>3, <2>1, <2>3, <2>4, <2>5 DEF HandleOK
    <2>7. arms[h] + 1 \in Nat /\ e \in Entry \cup {Nil}
      BY <1>0, <2>1
    <2> QED
      BY <1>0, <1>1, <2>2, <2>6, <2>7, <2>8, <2>9, OneHandle
  <1> QED
    BY <1>2, <1>3

\* ticker.Stop and ticker.Reset keep the entry, so the invariant too.
LEMMA TickerIInv ==
    ASSUME IInv, NEW h \in Handles, NEW d \in Int, StopTicker(h) \/ ResetTicker(h, d)
    PROVE  IInv'
  <1>0. /\ timers[h] \in Entry \cup {Nil} /\ kind[h] \in Kinds
        /\ arms[h] \in Nat /\ fires[h] \in Nat /\ trues[h] \in Nat
        /\ kind = [kind EXCEPT ![h] = kind[h]] /\ arms = [arms EXCEPT ![h] = arms[h]]
        /\ fires = [fires EXCEPT ![h] = fires[h]]
        /\ trues = [trues EXCEPT ![h] = trues[h]]
        /\ timers = [timers EXCEPT ![h] = timers[h]]
        /\ now \in Int /\ nextID \in 0 .. MaxIDs
        /\ HandleOK(timers[h], kind[h], now, arms[h], fires[h], trues[h])
    BY AtHandle
  <1>1. /\ kind[h] = "ticker" /\ timers[h] \in Entry /\ timers[h].period > 0
        /\ kind' = [kind EXCEPT ![h] = kind[h]] /\ arms' = [arms EXCEPT ![h] = arms[h]]
        /\ fires' = [fires EXCEPT ![h] = fires[h]] /\ trues' = [trues EXCEPT ![h] = trues[h]]
        /\ UNCHANGED <<now, chan, target, firing>>
        /\ nextID' \in 0 .. MaxIDs
    BY <1>0 DEF StopTicker, ResetTicker, HandleOK, clock, history
  <1>2. PICK e \in Entry : /\ timers' = [timers EXCEPT ![h] = e] /\ e.period > 0
                           /\ NoNegative /\ e.active => e.deadline >= now
    <2>1. CASE StopTicker(h)
      <3>1. [timers[h] EXCEPT !.active = FALSE] \in Entry
        BY <1>1 DEF Entry
      <3>2. timers' = [timers EXCEPT ![h] = [timers[h] EXCEPT !.active = FALSE]]
        BY <2>1 DEF StopTicker
      <3> QED
        BY <1>1, <3>1, <3>2 DEF Entry
    <2>2. CASE ResetTicker(h, d)
      <3>0. PICK x \in Int : x = now + d
        BY <1>0
      <3>5. d \in Nat /\ d > 0
        BY <2>2 DEF ResetTicker
      <3> DEFINE e == Retimed(timers[h], x, d)
      <3>4. timers[h] \in Entry
        BY <1>1
      <3>3. e \in Entry /\ e.period = d /\ e.deadline = x
        BY <3>4, <3>5, RetimedEntry
      <3>1. e.deadline >= now
        BY <1>0, <3>0, <3>3, <3>5
      <3>2. timers' = [timers EXCEPT ![h] = e]
        BY <2>2, <3>0 DEF ResetTicker, Retimed
      <3> QED
        BY <2>2, <3>1, <3>2, <3>3 DEF ResetTicker
    <2> QED
      BY <2>1, <2>2
  <1>3. HandleOK(e, kind[h], now, arms[h], fires[h], trues[h])
    BY <1>0, <1>1, <1>2, ClockAssumption DEF HandleOK
  <1>4. e \in Entry \cup {Nil}
    OBVIOUS
  <1> QED
    BY <1>0, <1>1, <1>2, <1>3, <1>4, OneHandle

\* The entry taken first is the earliest, so stepping the clock to its deadline makes
\* no other entry overdue.
LEMMA FireIInv ==
    ASSUME IInv, NEW s \in Setters, NEW h \in Handles, Fire(s, h)
    PROVE  IInv' /\ (NoNegative => now' >= now)
  <1>0. /\ timers[h] \in Entry \cup {Nil} /\ kind[h] \in Kinds
        /\ arms[h] \in Nat /\ fires[h] \in Nat /\ trues[h] \in Nat
        /\ kind = [kind EXCEPT ![h] = kind[h]] /\ arms = [arms EXCEPT ![h] = arms[h]]
        /\ fires = [fires EXCEPT ![h] = fires[h]]
        /\ trues = [trues EXCEPT ![h] = trues[h]]
        /\ timers = [timers EXCEPT ![h] = timers[h]]
        /\ now \in Int /\ nextID \in 0 .. MaxIDs
        /\ HandleOK(timers[h], kind[h], now, arms[h], fires[h], trues[h])
    BY AtHandle
  <1>1. /\ target[s] \in Int /\ target' = target /\ earliestDue(h, target[s])
        /\ timers[h] \in Entry /\ timers[h] # Nil /\ timers[h].active
        /\ timers[h].deadline <= target[s]
        /\ now' = timers[h].deadline /\ UNCHANGED <<nextID, kind, chan, arms, trues>>
        /\ fires' = [fires EXCEPT ![h] = fires[h] + 1]
    BY <1>0 DEF Fire, Holds, earliestDue, DueBy, Bump, IInv, ClockTypeOK
  <1>2. timers[h].deadline \in Int /\ timers[h].period \in Nat /\ timers[h].ticks \in Nat
    BY <1>1 DEF Entry
  <1>3. now' \in Int /\ (NoNegative => now' >= now)
    BY <1>0, <1>1, <1>2 DEF HandleOK
  <1> DEFINE r == timers[h]
             e == IF r.period > 0
                  THEN Ticked(r, r.deadline + r.period, r.ticks + 1)
                  ELSE Nil
  <1>4. /\ timers' = [timers EXCEPT ![h] = e] /\ e \in Entry \cup {Nil}
        /\ timers[h].period > 0 => /\ e \in Entry /\ e.period = timers[h].period
                                   /\ e.deadline >= now'
        /\ timers[h].period = 0 => e = Nil
    <2>1. CASE timers[h].period > 0
      <3>0. timers[h] \in Entry
        BY <1>1
      <3>1. PICK x \in Int : x = timers[h].deadline + timers[h].period
        BY <1>2
      <3>5. PICK y \in Nat : y = timers[h].ticks + 1
        BY <1>2
      <3> DEFINE w == Ticked(timers[h], x, y)
      <3>2. e = w /\ x >= now'
        BY <1>1, <1>2, <2>1, <3>1, <3>5
      <3>3. timers' = [timers EXCEPT ![h] = w]
        BY <2>1, <3>1, <3>5 DEF Fire, Ticked
      <3>4. w \in Entry /\ w.deadline = x /\ w.period = timers[h].period
        BY <3>0 DEF Entry, Ticked
      <3> HIDE DEF w, e
      <3> QED
        BY <1>2, <2>1, <3>2, <3>3, <3>4, SMTT(30)
    <2>2. CASE timers[h].period = 0
      BY <2>2 DEF Fire
    <2> QED
      BY <1>2, <2>1, <2>2
  <1> HIDE DEF r, e
  <1>5. HandleOK(e, kind[h], now', arms[h], fires[h] + 1, trues[h])
    <2>1. CASE kind[h] = "ticker"
      BY <1>0, <1>1, <1>4, <2>1, ClockAssumption DEF HandleOK
    <2>2. CASE kind[h] # "ticker"
      <3>1. timers[h].period = 0 /\ kind[h] # Nil
        BY <1>0, <1>1, <1>2, <2>2, ClockAssumption DEF HandleOK
      <3> QED
        BY <1>0, <1>1, <1>4, <2>2, <3>1, ClockAssumption DEF HandleOK, Pending
    <2> QED
      BY <2>1, <2>2
  <1>6. ASSUME NEW o \in Handles, o # h
        PROVE  HandleOK(timers[o], kind[o], now', arms[o], fires[o], trues[o])
    <2>1. ASSUME timers[o] # Nil, timers[o].active
          PROVE  timers[o].deadline >= now'
      <3>1. timers[o] \in Entry /\ timers[o].deadline \in Int
        BY <2>1, AtHandle DEF Entry
      <3>2. CASE DueBy(o, target[s])
        BY <1>1, <1>2, <1>6, <3>1, <3>2 DEF earliestDue, Before
      <3>3. CASE ~DueBy(o, target[s])
        BY <1>1, <1>2, <2>1, <3>1, <3>3 DEF DueBy
      <3> QED
        BY <3>2, <3>3
    <2>2. HandleOK(timers[o], kind[o], now, arms[o], fires[o], trues[o])
      BY AtHandle
    <2> QED
      BY <2>1, <2>2 DEF HandleOK
  <1>7. ClockTypeOK'
    <2>1. timers' \in [Handles -> Entry \cup {Nil}] /\ fires' \in [Handles -> Nat]
      BY <1>0, <1>1, <1>4 DEF IInv, ClockTypeOK
    <2>2. firing' \in [Setters -> Firing \cup {Nil}]
      BY <1>1, <1>2 DEF Fire, Firing, Entry, IInv, ClockTypeOK
    <2> QED
      BY <1>1, <1>3, <2>1, <2>2 DEF IInv, ClockTypeOK
  <1>8. Within'
    BY <1>1 DEF Within, Alone
  <1>9. \A o \in Handles : HandleOK(timers'[o], kind'[o], now', arms'[o], fires'[o], trues'[o])
    BY <1>1, <1>4, <1>5, <1>6 DEF IInv, ClockTypeOK
  <1> QED
    BY <1>1, <1>3, <1>7, <1>8, <1>9 DEF IInv

\* Set ends with nothing due, so its last step to the target makes nothing overdue.
LEMMA SetReturnsIInv ==
    ASSUME IInv, NEW s \in Setters, SetReturns(s)
    PROVE  IInv' /\ target'[s] = Nil /\ (Alone => now' >= now)
  <1>1. /\ target[s] \in Int /\ now' = target[s] /\ target'[s] = Nil
        /\ target' \in [Setters -> Int \cup {Nil}] /\ now \in Int
        /\ UNCHANGED <<nextID, timers, kind, chan, firing, history>>
    BY DEF SetReturns, Holds, IInv, ClockTypeOK
  <1>2. ASSUME NEW h \in Handles
        PROVE  HandleOK(timers[h], kind[h], now', arms[h], fires[h], trues[h])
    <2>1. ASSUME timers[h] # Nil, timers[h].active
          PROVE  timers[h].deadline >= now'
      <3>1. timers[h].deadline \in Int
        BY <2>1, AtHandle DEF Entry
      <3> QED
        BY <1>1, <2>1, <3>1 DEF SetReturns, DueBy
    <2> QED
      BY <2>1, AtHandle DEF HandleOK
  <1>3. ClockTypeOK'
    BY <1>1 DEF IInv, ClockTypeOK, history
  <1>4. Within' /\ (Alone => now' >= now)
    BY <1>1, ClockAssumption DEF IInv, Within, Alone
  <1> QED
    BY <1>1, <1>2, <1>3, <1>4 DEF IInv, history

\* Set takes the lock with a target that is not in the past.
LEMMA SetIInv ==
    ASSUME IInv, NEW s \in Setters, NEW t \in Int, Set(s, t)
    PROVE  IInv'
  <1>1. /\ target' = [target EXCEPT ![s] = t] /\ now <= t
        /\ target' \in [Setters -> Int \cup {Nil}] /\ target \in [Setters -> Int \cup {Nil}]
        /\ now \in Int
        /\ UNCHANGED <<now, nextID, timers, kind, chan, firing, arms, fires, trues>>
    BY DEF Set, IInv, ClockTypeOK, clock, history
  <1>2. ClockTypeOK'
    BY <1>1 DEF IInv, ClockTypeOK
  <1>3. Within'
    BY <1>1 DEF IInv, Within, Alone
  <1> QED
    BY <1>1, <1>2, <1>3 DEF IInv

\* Delivery touches the channel only.
LEMMA DeliverIInv ==
    ASSUME IInv, NEW s \in Setters, Deliver(s)
    PROVE  IInv'
  <1>1. firing[s] \in Firing /\ firing[s].handle \in Handles /\ firing[s].at \in Int
    BY DEF Deliver, IInv, ClockTypeOK, Firing
  <1>2. /\ chan' \in [Handles -> Int \cup {Nil}]
        /\ firing' \in [Setters -> Firing \cup {Nil}]
        /\ UNCHANGED <<now, nextID, timers, kind, target, arms, fires, trues>>
    BY <1>1 DEF Deliver, IInv, ClockTypeOK, clock
  <1>3. ClockTypeOK'
    BY <1>2 DEF IInv, ClockTypeOK
  <1> QED
    BY <1>2, <1>3 DEF IInv, Within

\* So does a receiver.
LEMMA ReceiveIInv ==
    ASSUME IInv, NEW h \in Handles, ReceiveTime(h)
    PROVE  IInv'
  <1>1. /\ chan' \in [Handles -> Int \cup {Nil}]
        /\ UNCHANGED <<now, nextID, timers, kind, target, firing, arms, fires, trues>>
    BY DEF ReceiveTime, IInv, ClockTypeOK, clock, history
  <1>2. ClockTypeOK'
    BY <1>1 DEF IInv, ClockTypeOK
  <1> QED
    BY <1>1, <1>2 DEF IInv, Within

\* Every step keeps the invariant and, unless it is the return of a Set that another
\* has overtaken, moves time forward or not at all.
LEMMA NextIInv ==
    ASSUME IInv, [ClockNext]_clockVars
    PROVE  IInv' /\ (NoNegative => now' >= now \/ (SetReturned /\ ~Alone))
  <1>0. now \in Int /\ \A d \in Durations : d \in Int /\ (NoNegative => d >= 0)
    BY ClockAssumption DEF IInv, ClockTypeOK, NoNegative
  <1>1. ASSUME NEW h \in Handles, NEW d \in Durations, NewTimer(h, d) \/ AfterFunc(h, d)
        PROVE  IInv' /\ now' = now
    BY <1>0, <1>1, addIInv DEF NewTimer, AfterFunc, add
  <1>2. ASSUME NEW h \in Handles, NEW d \in Durations, NewTicker(h, d)
        PROVE  IInv' /\ now' = now
    <2>1. d \in Int /\ d \in Nat /\ d > 0 /\ (NoNegative => d >= 0) /\ add(h, "ticker", d, d)
      BY <1>0, <1>2 DEF NewTicker
    <2>2. now' = now
      BY <2>1 DEF add
    <2> QED
      BY <2>1, <2>2, addIInv
  <1>3. ASSUME NEW h \in Handles, NEW d \in Durations, ResetTimer(h, d)
        PROVE  IInv' /\ now' = now
    BY <1>0, <1>3, ResetIInv DEF ResetTimer
  <1>4. ASSUME NEW h \in Handles, NEW d \in Durations, ResetTicker(h, d)
        PROVE  IInv' /\ now' = now
    BY <1>0, <1>4, TickerIInv DEF ResetTicker, clock
  <1>5. ASSUME NEW h \in Handles, StopTicker(h)
        PROVE  IInv' /\ now' = now
    <2>1. 0 \in Int /\ now' = now
      BY <1>5 DEF StopTicker, clock
    <2> QED
      BY <1>5, <2>1, TickerIInv
  <1>6. ASSUME NEW h \in Handles, StopTimer(h)
        PROVE  IInv' /\ now' = now
    BY <1>6, StopIInv DEF StopTimer, clock
  <1>7. ASSUME NEW s \in Setters, NEW h \in Handles, Fire(s, h)
        PROVE  IInv' /\ (NoNegative => now' >= now)
    BY <1>7, FireIInv
  <1>8. ASSUME NEW h \in Handles, ReceiveTime(h)
        PROVE  IInv' /\ now' = now
    BY <1>8, ReceiveIInv DEF ReceiveTime, clock
  <1>9. ASSUME NEW s \in Setters, NEW t \in 0 .. MaxTime, Set(s, t)
        PROVE  IInv' /\ now' = now
    <2>1. t \in Int /\ now' = now
      BY <1>9, ClockAssumption DEF Set, clock
    <2> QED
      BY <1>9, <2>1, SetIInv
  <1>10. ASSUME NEW s \in Setters, Deliver(s)
         PROVE  IInv' /\ now' = now
    BY <1>10, DeliverIInv DEF Deliver, clock
  <1>11. ASSUME NEW s \in Setters, SetReturns(s)
         PROVE  IInv' /\ SetReturned /\ (Alone => now' >= now)
    BY <1>11, SetReturnsIInv DEF SetReturned, SetReturns
  <1>12. CASE UNCHANGED clockVars
    BY <1>12 DEF clockVars, clock, history, IInv, ClockTypeOK, Within
  <1>13. now' = now => now' >= now
    BY <1>0
  <1> QED
    BY <1>1, <1>2, <1>3, <1>4, <1>5, <1>6, <1>7, <1>8, <1>9, <1>10, <1>11, <1>12, <1>13
    DEF ClockNext

\* The invariant holds in every state of every run.
LEMMA Invariant == ClockSpec => []IInv
  <1>1. IInv /\ [ClockNext]_clockVars => IInv'
    BY NextIInv
  <1> QED
    BY <1>1, InitIInv, PTL DEF ClockSpec

\* Set fires every timer whose deadline it passes: if no duration is negative, no armed
\* timer or ticker is ever overdue, also in the middle of a Set whose callbacks stop and
\* reset timers, and when calls of Set overlap.
THEOREM ClockNeverOverdue ==
    ASSUME NoNegative
    PROVE  ClockSpec => [](ClockTypeOK /\ NeverOverdue)
  <1>1. IInv => ClockTypeOK /\ NeverOverdue
    BY NoNegative DEF IInv, NeverOverdue, Active, HandleOK
  <1> QED
    BY <1>1, Invariant, PTL

\* Each arming of a one-shot timer fires once, or is reported as stopped once, or is
\* pending.
THEOREM ClockArmingAccounted == ClockSpec => []ArmingAccounted
  <1>1. IInv => ArmingAccounted
    BY DEF IInv, ArmingAccounted, Active, OneShot, HandleOK, Pending
  <1> QED
    BY <1>1, Invariant, PTL

\* If no duration is negative, time goes back only when a Set returns that another one
\* has overtaken.
THEOREM ClockBackOnlyIfOvertaken ==
    ASSUME NoNegative
    PROVE  ClockSpec => BackOnlyIfOvertaken
  <1>1. ASSUME IInv, [ClockNext]_clockVars
        PROVE  [now' < now => SetReturned]_clockVars
    <2>1. now \in Int /\ now' \in Int
      BY <1>1, NextIInv DEF IInv, ClockTypeOK
    <2> QED
      BY <1>1, <2>1, NextIInv, NoNegative
  <1> QED
    BY <1>1, Invariant, PTL DEF ClockSpec, BackOnlyIfOvertaken

\* If also one goroutine alone moves the clock, outside its callbacks, time never goes
\* back.
THEOREM ClockTimeNeverBack ==
    ASSUME NoNegative, Alone
    PROVE  ClockSpec => TimeNeverBack
  <1>1. ASSUME IInv, [ClockNext]_clockVars
        PROVE  [now' >= now]_clockVars
    BY <1>1, NextIInv, NoNegative, Alone
  <1> QED
    BY <1>1, Invariant, PTL DEF ClockSpec, TimeNeverBack
===============================================================================
