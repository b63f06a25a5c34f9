---------------------------- MODULE PacketBufProofs ----------------------------
(***************************************************************************)
(* Ownership of pooled buffers (PacketBuf), for any number of goroutines,  *)
(* buffers and size classes.                                               *)
(***************************************************************************)
EXTENDS PacketBuf, TLAPS

USE DEF Goto

\* What the fields of a buffer say in each place it can be in.
Live(r) == /\ r # None
           /\ ~r.released /\ r.attached
           /\ r.class = Classes[r.poolIdx]

Freed(r) == r # None /\ r.released /\ r.class = Classes[r.poolIdx]

Pooled(b) == \E i \in DOMAIN Classes : b \in pools[i]

\* A goroutine without a buffer is idle; one that releases calls Release once.
Phases ==
    /\ \A g \in Goroutines : pc[g] = "idle" <=> hold[g] = None
    /\ \A g \in Goroutines : pc[g] \in {"release", "put"} => calls[g] = 1

Fields ==
    /\ \A g \in Goroutines : pc[g] \in {"own", "reading", "writing", "release"} =>
         hold[g] \in Buffers /\ Live(buffer[hold[g]])
    /\ \A g \in Goroutines : pc[g] = "put" => hold[g] \in Buffers /\ Freed(buffer[hold[g]])
    /\ \A b \in inflight : Live(buffer[b])
    /\ \A i \in DOMAIN Classes : \A b \in pools[i] :
         Freed(buffer[b]) /\ buffer[b].poolIdx = i

\* One buffer, one place: a goroutine, the way between two, or a pool. A release in
\* progress still holds its buffer.
OnePlace ==
    /\ \A g, h \in Goroutines : hold[g] = hold[h] /\ hold[g] # None => g = h
    /\ \A g \in Goroutines : hold[g] # None => hold[g] \notin inflight /\ ~Pooled(hold[g])
    /\ \A b \in inflight : ~Pooled(b)

IInv == PoolTypeOK /\ Phases /\ Fields /\ OnePlace /\ NoLeak

\* A pool nobody has used yet has the invariant.
LEMMA InitIInv == PoolInit => IInv
  BY ClassesAssumption
  DEF PoolInit, IInv, PoolTypeOK, Phases, Fields, OnePlace, Live, Freed, Pooled, NoLeak, Buffer

\* A change of one buffer's fields keeps the others and their types.
LEMMA Update ==
    ASSUME PoolTypeOK, NEW b \in Buffers, NEW v \in Buffer, v.len <= v.class,
           buffer' = [buffer EXCEPT ![b] = v]
    PROVE  /\ buffer' \in [Buffers -> Buffer \cup {None}]
           /\ buffer'[b] = v /\ v # None
           /\ \A x \in Buffers \ {b} : buffer'[x] = buffer[x]
           /\ \A x \in Buffers : buffer'[x] # None => buffer'[x].len <= buffer'[x].class
  BY ClassesAssumption DEF PoolTypeOK

\* A change of length alone, in the hands of an owner that goes on to use the buffer:
\* Resize, and the two ends of a read.
LEMMA SizedIInv ==
    ASSUME IInv, NEW g \in Goroutines, pc[g] \in {"own", "reading"},
           NEW n \in Nat, n <= buffer[hold[g]].class, Sized(g, n),
           NEW next \in {"own", "reading"}, pc' = [pc EXCEPT ![g] = next],
           UNCHANGED <<pools, inflight, hold, calls>>
    PROVE  IInv'
  <1> DEFINE b == hold[g]
             v == [buffer[b] EXCEPT !.len = n]
  <1>1. b \in Buffers /\ buffer[b] \in Buffer /\ Live(buffer[b])
    BY DEF IInv, PoolTypeOK, Fields, Live
  <1>2. /\ v \in Buffer /\ v.len <= v.class /\ v # None /\ v.poolIdx = buffer[b].poolIdx
        /\ Live(v) /\ ~Freed(buffer[b])
    BY <1>1, ClassesAssumption DEF Buffer, Live, Freed
  <1>3. buffer' = [buffer EXCEPT ![b] = v]
    BY DEF Sized
  <1>4. b = hold[g]
    OBVIOUS
  <1> HIDE DEF b, v
  <1>5. /\ buffer' \in [Buffers -> Buffer \cup {None}]
        /\ buffer'[b] = v
        /\ \A x \in Buffers : x # b => buffer'[x] = buffer[x]
        /\ \A x \in Buffers : buffer'[x] # None => buffer'[x].len <= buffer'[x].class
    BY <1>1, <1>2, <1>3, Update DEF IInv
  <1>6. /\ \A x \in Buffers : Live(buffer[x]) => Live(buffer'[x])
        /\ \A x \in Buffers : Freed(buffer[x]) => Freed(buffer'[x]) /\ buffer'[x] = buffer[x]
    BY <1>2, <1>5
  <1>7. /\ \A h \in Goroutines : h # g => pc'[h] = pc[h]
        /\ pc'[g] = next /\ pc[g] # "idle"
    BY DEF IInv, PoolTypeOK
  <1>8. PoolTypeOK'
    BY <1>5, <1>7 DEF IInv, PoolTypeOK
  <1>9. Phases'
    BY <1>7 DEF IInv, Phases
  <1>10. Fields'
    <2>1. ASSUME NEW h \in Goroutines, pc'[h] \in {"own", "reading", "writing", "release"}
          PROVE  hold'[h] \in Buffers /\ Live(buffer'[hold'[h]])
      <3>1. hold[h] \in Buffers /\ Live(buffer[hold[h]])
        BY <1>1, <1>4, <1>7, <2>1 DEF IInv, Fields
      <3> QED
        BY <1>6, <3>1
    <2>2. ASSUME NEW h \in Goroutines, pc'[h] = "put"
          PROVE  hold'[h] \in Buffers /\ Freed(buffer'[hold'[h]])
      <3>1. hold[h] \in Buffers /\ Freed(buffer[hold[h]])
        BY <1>7, <2>2 DEF IInv, Fields
      <3> QED
        BY <1>6, <3>1
    <2>3. \A x \in inflight' : Live(buffer'[x])
      BY <1>6 DEF IInv, Fields, PoolTypeOK
    <2>4. \A i \in DOMAIN Classes : \A x \in pools'[i] :
            Freed(buffer'[x]) /\ buffer'[x].poolIdx = i
      BY <1>6 DEF IInv, Fields, PoolTypeOK
    <2> QED
      BY <2>1, <2>2, <2>3, <2>4 DEF Fields
  <1>11. OnePlace'
    BY DEF IInv, OnePlace, Pooled
  <1>12. NoLeak'
    BY <1>1, <1>5 DEF IInv, NoLeak, Live
  <1> QED
    BY <1>8, <1>9, <1>10, <1>11, <1>12 DEF IInv

\* Every step of Get, Resize, Release, Put, of a read or write, of a transfer and of
\* the collector keeps it.
LEMMA NextIInv == IInv /\ [PoolNext]_poolVars => IInv'
  <1> SUFFICES ASSUME IInv, [PoolNext]_poolVars
               PROVE  IInv'
    OBVIOUS
  <1> USE ClassesAssumption DEF IInv
  <1>1. ASSUME NEW g \in Goroutines, NEW n \in Lengths, NEW i \in DOMAIN Classes,
               NEW b \in Buffers, Get(g, n, i, b)
        PROVE  IInv'
    <2>y. n \in Nat /\ Classes[i] \in Nat /\ n <= Classes[i] /\ 1 \in DOMAIN Classes
      BY <1>1 DEF Get, Serves
    <2>z. Taken(i, b) \in Buffer /\ Taken(i, b).class = Classes[i]
      <3>1. CASE buffer[b] = None
        BY <2>y, <3>1 DEF Taken, New, Buffer
      <3>2. CASE buffer[b] # None
        <4>1. b \in pools[i] /\ Taken(i, b) = buffer[b]
          BY <1>1, <3>2 DEF Get, PoolGet, Taken
        <4>2. Freed(buffer[b]) /\ buffer[b].poolIdx = i /\ buffer[b] \in Buffer
          BY <3>2, <4>1 DEF Fields, PoolTypeOK
        <4> QED
          BY <4>1, <4>2 DEF Freed
      <3> QED
        BY <3>1, <3>2
    <2> DEFINE r == Taken(i, b)
               v == [r EXCEPT !.attached = TRUE, !.poolIdx = i, !.len = n, !.released = FALSE]
    <2>b. buffer' = [buffer EXCEPT ![b] = v]
      BY <1>1 DEF Get
    <2>x. r \in Buffer /\ r.class = Classes[i]
      BY <2>z
    <2> HIDE DEF r
    <2>a. /\ v \in Buffer /\ v.len <= v.class /\ v.class = Classes[v.poolIdx]
          /\ ~v.released /\ v.attached
      BY <2>x, <2>y DEF Buffer
    <2> HIDE DEF v
    <2>c. /\ buffer' \in [Buffers -> Buffer \cup {None}]
          /\ buffer'[b] = v /\ v # None
          /\ \A x \in Buffers \ {b} : buffer'[x] = buffer[x]
          /\ \A x \in Buffers : buffer'[x] # None => buffer'[x].len <= buffer'[x].class
      BY <2>a, <2>b, Update
    <2>d. /\ b \notin inflight
          /\ \A h \in Goroutines : hold[h] # b
          /\ \A k \in DOMAIN Classes : pools'[k] = pools[k] \ {b}
          /\ pools' \in [DOMAIN Classes -> SUBSET Buffers]
      <3>1. CASE b \in pools[i] /\ pools' = [pools EXCEPT ![i] = @ \ {b}]
        <4>1. Pooled(b) /\ b # None
          BY <3>1 DEF Pooled
        <4>2. b \notin inflight /\ \A h \in Goroutines : hold[h] # b
          BY <4>1 DEF OnePlace
        <4>3. \A k \in DOMAIN Classes : k # i => b \notin pools[k]
          BY <3>1 DEF Fields
        <4> QED
          BY <3>1, <4>2, <4>3 DEF PoolTypeOK
      <3>2. CASE buffer[b] = None /\ pools' = pools
        <4>1. ~Live(buffer[b]) /\ ~Freed(buffer[b]) /\ b # None
          BY <3>2 DEF Live, Freed
        <4>2. b \notin inflight /\ ~Pooled(b)
          BY <4>1 DEF Fields, Pooled
        <4>3. \A h \in Goroutines : hold[h] # b
          BY <4>1 DEF Fields, Phases, PoolTypeOK
        <4> QED
          BY <3>2, <4>2, <4>3 DEF PoolTypeOK, Pooled
      <3> QED
        BY <1>1, <3>1, <3>2 DEF Get, PoolGet
    <2>e. pc[g] = "idle" /\ pc' = [pc EXCEPT ![g] = "own"] /\ hold' = [hold EXCEPT ![g] = b]
          /\ inflight' = inflight /\ calls' = calls
      BY <1>1 DEF Get
    <2>f. Live(buffer'[b])
      BY <2>a, <2>c DEF Live, Freed
    <2>g. \A x \in Buffers : x # b => buffer'[x] = buffer[x]
      BY <2>c
    <2>1. PoolTypeOK'
      BY <2>c, <2>d, <2>e DEF PoolTypeOK
    <2>2. Phases'
      BY <2>e DEF PoolTypeOK, Phases
    <2>3. Fields'
      <3>1. \A h \in Goroutines : h # g => hold'[h] = hold[h] /\ pc'[h] = pc[h] /\ hold[h] # b
        BY <2>d, <2>e DEF PoolTypeOK
      <3>2. hold'[g] = b /\ pc'[g] = "own"
        BY <2>e DEF PoolTypeOK
      <3>3. \A k \in DOMAIN Classes : \A x \in pools'[k] :
              x \in pools[k] /\ x # b /\ buffer'[x] = buffer[x]
        BY <2>d, <2>g DEF PoolTypeOK
      <3>4. \A k \in DOMAIN Classes : \A x \in pools'[k] :
              Freed(buffer'[x]) /\ buffer'[x].poolIdx = k
        BY <3>3 DEF Fields
      <3>5. \A h \in Goroutines :
              /\ pc'[h] \in {"own", "reading", "writing", "release"} =>
                   hold'[h] \in Buffers /\ Live(buffer'[hold'[h]])
              /\ pc'[h] = "put" => hold'[h] \in Buffers /\ Freed(buffer'[hold'[h]])
        BY <2>f, <2>g, <3>1, <3>2 DEF Fields
      <3>6. \A x \in inflight' : Live(buffer'[x])
        BY <2>d, <2>e, <2>g DEF Fields, PoolTypeOK
      <3> QED
        BY <3>4, <3>5, <3>6 DEF Fields
    <2>4. OnePlace'
      BY <2>d, <2>e DEF PoolTypeOK, OnePlace, Pooled
    <2>5. NoLeak'
      <3>1. hold'[g] = b /\ \A h \in Goroutines : h # g => hold'[h] = hold[h]
        BY <2>e DEF PoolTypeOK
      <3>2. hold[g] = None
        BY <2>e DEF Phases
      <3> QED
        BY <2>d, <2>e, <2>g, <3>1, <3>2 DEF NoLeak
    <2> QED
      BY <2>1, <2>2, <2>3, <2>4, <2>5
  <1>2. ASSUME NEW g \in Goroutines, NEW n \in Lengths, Resize(g, n)
        PROVE  IInv'
    <2>1. n \in Nat /\ pc[g] = "own" /\ pc' = [pc EXCEPT ![g] = "own"]
      BY <1>2 DEF Resize, PoolTypeOK
    <2> QED
      BY <1>2, <2>1, SizedIInv DEF Resize
  <1>3. ASSUME NEW g \in Goroutines, NEW n \in Lengths, ReadReturns(g, n)
        PROVE  IInv'
    <2>1. hold[g] \in Buffers /\ buffer[hold[g]] \in Buffer
          /\ buffer[hold[g]].len <= buffer[hold[g]].class
      BY <1>3 DEF ReadReturns, PoolTypeOK, Fields, Live
    <2>2. n \in Nat /\ buffer[hold[g]].len \in Nat /\ buffer[hold[g]].class \in Nat
      BY <2>1 DEF Buffer
    <2>3. n <= buffer[hold[g]].class
      BY <1>3, <2>1, <2>2 DEF ReadReturns
    <2> QED
      BY <1>3, <2>2, <2>3, SizedIInv DEF ReadReturns
  <1>4. ASSUME NEW g \in Goroutines, Done(g)
        PROVE  IInv'
    <2>1. PoolTypeOK'
      BY <1>4 DEF Done, Releases, PoolTypeOK
    <2>2. Phases'
      BY <1>4 DEF Done, Releases, PoolTypeOK, Phases
    <2>3. Fields'
      BY <1>4 DEF Done, Releases, PoolTypeOK, Fields
    <2>4. OnePlace'
      BY <1>4 DEF Done, Releases, OnePlace, Pooled
    <2>5. NoLeak'
      BY <1>4 DEF Done, Releases, NoLeak
    <2> QED
      BY <2>1, <2>2, <2>3, <2>4, <2>5
  <1>5. ASSUME NEW g \in Goroutines, Release(g)
        PROVE  IInv'
    <2>x. hold[g] \in Buffers
      BY <1>5 DEF Release, Fields, Live
    <2>f. PICK b \in Buffers : b = hold[g]
      BY <2>x
    <2> DEFINE v == [buffer[b] EXCEPT !.released = TRUE, !.len = buffer[b].class,
                                      !.attached = FALSE]
    <2>z. b \in Buffers /\ buffer[b] \in Buffer /\ ~buffer[b].released
          /\ buffer[b].class = Classes[buffer[b].poolIdx] /\ buffer[b] # None
      BY <1>5, <2>f DEF Release, Returned, PoolTypeOK, Fields, Live
    <2>y. /\ v \in Buffer /\ v.len = buffer[b].class /\ v.class = buffer[b].class
          /\ v.poolIdx = buffer[b].poolIdx /\ v.released
      BY <2>z DEF Buffer
    <2>a. /\ v \in Buffer /\ v.len <= v.class /\ v.class = Classes[v.poolIdx] /\ v.released
      BY <2>y, <2>z DEF Buffer
    <2>b. buffer' = [buffer EXCEPT ![b] = v]
      BY <1>5, <2>f, <2>z DEF Release, Returned
    <2>e. pc[g] = "release" /\ pc' = [pc EXCEPT ![g] = "put"]
          /\ UNCHANGED <<hold, calls, pools, inflight>>
      BY <1>5, <2>f, <2>z DEF Release
    <2> HIDE DEF v
    <2>c. /\ buffer' \in [Buffers -> Buffer \cup {None}]
          /\ buffer'[b] = v /\ v # None
          /\ \A x \in Buffers \ {b} : buffer'[x] = buffer[x]
          /\ \A x \in Buffers : buffer'[x] # None => buffer'[x].len <= buffer'[x].class
      BY <2>z, <2>a, <2>b, Update
    <2>1. PoolTypeOK'
      BY <2>c, <2>e DEF PoolTypeOK
    <2>2. Phases'
      BY <2>e DEF PoolTypeOK, Phases
    <2>3. Fields'
      <3>1. Freed(buffer'[b]) /\ \A x \in Buffers : x # b => buffer'[x] = buffer[x]
        BY <2>z, <2>a, <2>c DEF Live, Freed
      <3>2. b # None /\ b \notin inflight /\ ~Pooled(b) /\ \A h \in Goroutines \ {g} : hold[h] # b
        BY <2>z, <2>f DEF OnePlace
      <3>3. \A k \in DOMAIN Classes : \A x \in pools'[k] :
              Freed(buffer'[x]) /\ buffer'[x].poolIdx = k
        BY <2>c, <2>e, <3>1, <3>2, SMTT(60) DEF Fields, Pooled, PoolTypeOK
      <3>4. \A h \in Goroutines :
              /\ pc'[h] \in {"own", "reading", "writing", "release"} =>
                   hold'[h] \in Buffers /\ Live(buffer'[hold'[h]])
              /\ pc'[h] = "put" => hold'[h] \in Buffers /\ Freed(buffer'[hold'[h]])
        BY <2>e, <2>f, <3>1, <3>2 DEF Fields, PoolTypeOK
      <3>5. \A x \in inflight' : Live(buffer'[x])
        BY <2>e, <3>1, <3>2 DEF Fields, PoolTypeOK
      <3> QED
        BY <3>3, <3>4, <3>5 DEF Fields
    <2>4. OnePlace'
      BY <2>e DEF OnePlace, Pooled
    <2>5. NoLeak'
      BY <2>z, <2>c, <2>e DEF NoLeak
    <2> QED
      BY <2>1, <2>2, <2>3, <2>4, <2>5
  <1>6. ASSUME NEW g \in Goroutines, Put(g)
        PROVE  IInv'
    <2>1. PoolTypeOK'
      BY <1>6 DEF Put, Returned, PoolTypeOK, Phases, Fields, Freed, Buffer
    <2>2. Phases'
      BY <1>6 DEF Put, Returned, PoolTypeOK, Phases
    <2>3. Fields'
      BY <1>6 DEF Put, Returned, PoolTypeOK, Phases, Fields, OnePlace, Pooled, Live, Freed, Buffer
    <2>4. OnePlace'
      BY <1>6 DEF Put, Returned, OnePlace, Pooled, PoolTypeOK, Phases, Fields, Freed, Buffer
    <2>5. NoLeak'
      <3>1. /\ hold[g] \in Buffers /\ buffer[hold[g]] \in Buffer
            /\ calls[g] = 1 /\ buffer' = buffer /\ inflight' = inflight
        BY <1>6 DEF Put, PoolTypeOK, Phases, Fields, Freed
      <3>2. /\ hold[g] \in pools'[buffer[hold[g]].poolIdx]
            /\ buffer[hold[g]].poolIdx \in DOMAIN Classes
            /\ \A i \in DOMAIN Classes : pools[i] \subseteq pools'[i]
        BY <1>6, <3>1 DEF Put, PoolTypeOK, Buffer
      <3>3. \A h \in Goroutines : h # g => hold'[h] = hold[h]
        BY <1>6, <3>1 DEF Put, Returned, PoolTypeOK
      <3> QED
        BY <3>1, <3>2, <3>3 DEF NoLeak
    <2> QED
      BY <2>1, <2>2, <2>3, <2>4, <2>5
  <1>7. ASSUME NEW g \in Goroutines, ReadInto(g)
        PROVE  IInv'
    <2>1. PICK n \in Nat : n = buffer[hold[g]].class
      BY <1>7 DEF ReadInto, PoolTypeOK, Fields, Live, Buffer
    <2>2. n <= buffer[hold[g]].class /\ Sized(g, n)
      BY <1>7, <2>1 DEF ReadInto
    <2> QED
      BY <1>7, <2>2, SizedIInv DEF ReadInto
  <1>8. ASSUME NEW g \in Goroutines, ReadFails(g)
        PROVE  IInv'
    <2>1. PoolTypeOK'
      BY <1>8 DEF ReadFails, Releases, PoolTypeOK
    <2>2. Phases'
      BY <1>8 DEF ReadFails, Releases, PoolTypeOK, Phases
    <2>3. Fields'
      BY <1>8 DEF ReadFails, Releases, PoolTypeOK, Fields
    <2>4. OnePlace'
      BY <1>8 DEF ReadFails, Releases, OnePlace, Pooled
    <2>5. NoLeak'
      BY <1>8 DEF ReadFails, Releases, NoLeak
    <2> QED
      BY <2>1, <2>2, <2>3, <2>4, <2>5
  <1>9. ASSUME NEW g \in Goroutines, WriteFrom(g)
        PROVE  IInv'
    <2>1. PoolTypeOK'
      BY <1>9 DEF WriteFrom, PoolTypeOK
    <2>2. Phases'
      BY <1>9 DEF WriteFrom, PoolTypeOK, Phases
    <2>3. Fields'
      BY <1>9 DEF WriteFrom, PoolTypeOK, Fields
    <2>4. OnePlace'
      BY <1>9 DEF WriteFrom, OnePlace, Pooled
    <2>5. NoLeak'
      BY <1>9 DEF WriteFrom, NoLeak
    <2> QED
      BY <2>1, <2>2, <2>3, <2>4, <2>5
  <1>10. ASSUME NEW g \in Goroutines, NEW err \in BOOLEAN, WriteReturns(g, err)
        PROVE  IInv'
    <2>1. PoolTypeOK'
      BY <1>10 DEF WriteReturns, Releases, PoolTypeOK
    <2>2. Phases'
      BY <1>10 DEF WriteReturns, Releases, PoolTypeOK, Phases
    <2>3. Fields'
      BY <1>10 DEF WriteReturns, Releases, PoolTypeOK, Fields
    <2>4. OnePlace'
      BY <1>10 DEF WriteReturns, Releases, OnePlace, Pooled
    <2>5. NoLeak'
      BY <1>10 DEF WriteReturns, Releases, NoLeak
    <2> QED
      BY <2>1, <2>2, <2>3, <2>4, <2>5
  <1>11. ASSUME NEW g \in Goroutines, Send(g)
        PROVE  IInv'
    <2>1. PoolTypeOK'
      BY <1>11 DEF Send, PoolTypeOK, Fields
    <2>2. Phases'
      BY <1>11 DEF Send, PoolTypeOK, Phases
    <2>3. Fields'
      BY <1>11 DEF Send, PoolTypeOK, Fields, OnePlace
    <2>4. OnePlace'
      BY <1>11 DEF Send, OnePlace, Pooled, PoolTypeOK, Phases, Fields
    <2>5. NoLeak'
      BY <1>11 DEF Send, NoLeak, PoolTypeOK
    <2> QED
      BY <2>1, <2>2, <2>3, <2>4, <2>5
  <1>12. ASSUME NEW g \in Goroutines, NEW b \in Buffers, Receive(g, b)
        PROVE  IInv'
    <2>1. PoolTypeOK'
      BY <1>12 DEF Receive, PoolTypeOK
    <2>2. Phases'
      BY <1>12 DEF Receive, PoolTypeOK, Phases
    <2>3. Fields'
      BY <1>12 DEF Receive, PoolTypeOK, Fields, OnePlace
    <2>4. OnePlace'
      BY <1>12 DEF Receive, OnePlace, Pooled, PoolTypeOK, Phases
    <2>5. NoLeak'
      BY <1>12, SMTT(60) DEF Receive, NoLeak, PoolTypeOK, Phases
    <2> QED
      BY <2>1, <2>2, <2>3, <2>4, <2>5
  <1>13. ASSUME NEW i \in DOMAIN Classes, NEW b \in Buffers, Collect(i, b)
        PROVE  IInv'
    <2>1. PoolTypeOK'
      BY <1>13 DEF Collect, PoolTypeOK
    <2>2. Phases'
      BY <1>13 DEF Collect, PoolTypeOK, Phases
    <2>3. Fields'
      BY <1>13 DEF Collect, PoolTypeOK, Phases, Fields, OnePlace, Pooled
    <2>4. OnePlace'
      BY <1>13 DEF Collect, OnePlace, Pooled, PoolTypeOK
    <2>5. NoLeak'
      BY <1>13 DEF Collect, NoLeak, PoolTypeOK
    <2> QED
      BY <2>1, <2>2, <2>3, <2>4, <2>5
  <1>14. CASE UNCHANGED poolVars
    BY <1>14 DEF poolVars, PoolTypeOK, Phases, Fields, OnePlace, Live, Freed, Pooled, NoLeak
  <1> QED
    BY <1>1, <1>2, <1>3, <1>4, <1>5, <1>6, <1>7, <1>8, <1>9, <1>10, <1>11, <1>12, <1>13, <1>14
    DEF PoolNext

\* The invariant holds in every state of every run.
LEMMA Invariant == PoolSpec => []IInv
  BY InitIInv, NextIInv, PTL DEF PoolSpec

\* A buffer in use has one owner: no other goroutine uses it, and it is neither on its
\* way to one nor in a pool Get could take it from.
THEOREM PoolOneOwner == PoolSpec => []OneOwner
  <1>1. IInv => OneOwner
    BY ClassesAssumption DEF IInv, OneOwner, OnePlace, Phases, Pooled, Using
  <1> QED
    BY <1>1, Invariant, PTL

\* No path of ReadInto, WriteFrom or Release forgets an allocated buffer.
THEOREM PoolNoLeak == PoolSpec => []NoLeak
  <1>1. IInv => NoLeak
    BY DEF IInv
  <1> QED
    BY <1>1, Invariant, PTL

\* A buffer in use is live and goes back to the pool of its own class, and Resize never
\* leaves it longer than its class.
THEOREM PoolBufferIntact == PoolSpec => [](PoolTypeOK /\ BufferIntact)
  <1>1. IInv => PoolTypeOK /\ BufferIntact
    BY DEF IInv, BufferIntact, Fields, Live, Freed, Using
  <1> QED
    BY <1>1, Invariant, PTL
===============================================================================
