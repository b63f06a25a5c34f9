------------------------------ MODULE RingProofs ------------------------------
(***************************************************************************)
(* The ring (Ring) implements a bounded first-in first-out queue (Fifo),   *)
(* for every capacity and every element type; the byte queue (ByteQueue)   *)
(* drops everything that has expired, for every capacity and cutoff.       *)
(***************************************************************************)
EXTENDS Ring, ByteQueue, SequenceTheorems, TLAPS

\* An index at most one lap past the end wraps by one subtraction.
LEMMA WrapsAt ==
    ASSUME NEW C \in Nat \ {0}
    PROVE  \A a \in 0 .. 2 * C - 1 : a % C = IF a < C THEN a ELSE a - C
  <1> SUFFICES ASSUME NEW a \in 0 .. 2 * C - 1
               PROVE  a % C = IF a < C THEN a ELSE a - C
    OBVIOUS
  <1>1. C \in Nat /\ C > 0
    OBVIOUS
  <1>2. CASE a < C
    BY <1>1, <1>2
  <1>3. CASE ~(a < C)
    BY <1>1, <1>3
  <1> QED
    BY <1>2, <1>3

\* The slots of the window: k places after the head, in range and all different.
LEMMA SlotsAt ==
    ASSUME NEW C \in Nat \ {0}, NEW h \in 0 .. C - 1
    PROVE  /\ \A k \in 0 .. C : (h + k) % C = IF h + k < C THEN h + k ELSE h + k - C
           /\ \A k \in 0 .. C : (h + k) % C \in 0 .. C - 1
           /\ \A j, k \in 0 .. C - 1 : (h + j) % C = (h + k) % C => j = k
           /\ \A i \in 0 .. C - 1 : \E k \in 0 .. C - 1 : i = (h + k) % C
  <1>0. C \in Nat /\ C > 0
    OBVIOUS
  <1>1. ASSUME NEW k \in 0 .. C
        PROVE  (h + k) % C = IF h + k < C THEN h + k ELSE h + k - C
    <2> DEFINE a == h + k
    <2>1. a \in 0 .. 2 * C - 1
      BY <1>0
    <2> HIDE DEF a
    <2>2. a % C = IF a < C THEN a ELSE a - C
      BY <2>1, WrapsAt
    <2> QED
      BY <1>0, <2>2 DEF a
  <1>2. \A k \in 0 .. C : (h + k) % C \in 0 .. C - 1
    BY <1>0, <1>1
  <1>3. \A j, k \in 0 .. C - 1 : (h + j) % C = (h + k) % C => j = k
    BY <1>0, <1>1
  <1>4. ASSUME NEW i \in 0 .. C - 1
        PROVE  \E k \in 0 .. C - 1 : i = (h + k) % C
    <2>1. CASE i >= h
      <3> DEFINE k == i - h
      <3>1. k \in 0 .. C - 1 /\ k \in 0 .. C /\ h + k = i
        BY <1>0, <2>1
      <3> HIDE DEF k
      <3>2. (h + k) % C = IF h + k < C THEN h + k ELSE h + k - C
        BY <1>1, <3>1
      <3>3. (h + k) % C = i
        BY <1>0, <3>1, <3>2
      <3> QED
        BY <3>1, <3>3
    <2>2. CASE i < h
      <3> DEFINE k == i + C - h
      <3>1. k \in 0 .. C - 1 /\ k \in 0 .. C /\ h + k = i + C
        BY <1>0, <2>2
      <3> HIDE DEF k
      <3>2. (h + k) % C = IF h + k < C THEN h + k ELSE h + k - C
        BY <1>1, <3>1
      <3>3. (h + k) % C = i
        BY <1>0, <3>1, <3>2
      <3> QED
        BY <3>1, <3>3
    <2> QED
      BY <1>0, <2>1, <2>2
  <1> QED
    BY <1>1, <1>2, <1>3, <1>4

\* Moving the head by one shifts the window by one.
LEMMA ShiftAt ==
    ASSUME NEW C \in Nat \ {0}, NEW h \in 0 .. C - 1, NEW g, g = (h + 1) % C
    PROVE  /\ g \in 0 .. C - 1
           /\ \A k \in 0 .. C - 1 : (g + k) % C = (h + (k + 1)) % C
  <1>0. C \in Nat /\ C > 0
    OBVIOUS
  <1>1. g = IF h + 1 < C THEN h + 1 ELSE h + 1 - C
    BY <1>0, SlotsAt
  <1>2. g \in 0 .. C - 1
    BY <1>0, <1>1
  <1>3. ASSUME NEW k \in 0 .. C - 1
        PROVE  (g + k) % C = (h + (k + 1)) % C
    <2> DEFINE a == g + k
    <2>1. a \in 0 .. 2 * C - 1 /\ k + 1 \in 0 .. C
      BY <1>0, <1>2
    <2> HIDE DEF a
    <2>2. a % C = IF a < C THEN a ELSE a - C
      BY <2>1, WrapsAt
    <2>3. (h + (k + 1)) % C = IF h + (k + 1) < C THEN h + (k + 1) ELSE h + (k + 1) - C
      <3>1. \A j \in 0 .. C : (h + j) % C = IF h + j < C THEN h + j ELSE h + j - C
        BY SlotsAt
      <3> QED
        BY <2>1, <3>1
    <2> QED
      BY <1>0, <1>1, <2>2, <2>3 DEF a
  <1> QED
    BY <1>2, <1>3

\* The slots of the ring's own window.
LEMMA Slots ==
    ASSUME NEW h \in 0 .. Cap - 1
    PROVE  /\ \A k \in 0 .. Cap : (h + k) % Cap = IF h + k < Cap THEN h + k ELSE h + k - Cap
           /\ \A k \in 0 .. Cap : (h + k) % Cap \in 0 .. Cap - 1
           /\ \A j, k \in 0 .. Cap - 1 : (h + j) % Cap = (h + k) % Cap => j = k
           /\ \A i \in 0 .. Cap - 1 : \E k \in 0 .. Cap - 1 : i = (h + k) % Cap
  BY CapAssumption, SlotsAt

\* Moving the ring's head by one shifts its window by one.
LEMMA Shift ==
    ASSUME NEW h \in 0 .. Cap - 1, NEW g, g = (h + 1) % Cap
    PROVE  /\ g \in 0 .. Cap - 1
           /\ \A k \in 0 .. Cap - 1 : (g + k) % Cap = (h + (k + 1)) % Cap
  BY CapAssumption, ShiftAt

-------------------------------------------------------------------------------
\* The ring starts empty and well formed.
LEMMA RingInit == Init => TypeOK /\ NoStaleReference
  <1> SUFFICES ASSUME Init PROVE TypeOK /\ NoStaleReference
    OBVIOUS
  <1>1. TypeOK
    BY CapAssumption DEF Init, TypeOK, Nothing
  <1>2. NoStaleReference
    BY DEF Init, NoStaleReference
  <1> QED
    BY <1>1, <1>2

\* What a call may return.
Returned == [v : T \cup {Zero}, ok : BOOLEAN]

\* The two forms of a result are results.
LEMMA Results == Nothing \in Returned /\ \A x \in T \cup {Zero} : Some(x) \in Returned
  BY DEF Nothing, Some, Returned

\* Every call leaves indices and storage in range.
LEMMA RingType == TypeOK /\ [Next]_vars => TypeOK'
  <1> SUFFICES ASSUME TypeOK, [Next]_vars PROVE TypeOK'
    OBVIOUS
  <1>0. Cap \in Nat /\ Cap > 0 /\ head \in 0 .. Cap - 1
    BY CapAssumption DEF TypeOK
  <1>1. tail \in 0 .. Cap - 1
    BY <1>0, Slots DEF TypeOK, tail
  <1>2. head' = (head + 1) % Cap => head' \in 0 .. Cap - 1
    BY <1>0, Shift
  <1> USE DEF TypeOK
  <1>3. ASSUME NEW x \in T, Push(x) PROVE TypeOK'
    <2>1. ret' \in Returned
      BY <1>3, Results DEF Push
    <2> QED
      BY <1>0, <1>1, <1>3, <2>1 DEF Push, Full, ring, Returned
  <1>4. ASSUME NEW x \in T, PushEvict(x) PROVE TypeOK'
    <2>1. buf' \in [0 .. Cap - 1 -> T \cup {Zero}]
      BY <1>1, <1>4 DEF PushEvict
    <2>2. head' \in 0 .. Cap - 1 /\ n' \in 0 .. Cap
      BY <1>0, <1>2, <1>4 DEF PushEvict, Full
    <2>3. ret' \in Returned
      <3>1. buf[head] \in T \cup {Zero}
        BY <1>0
      <3> QED
        BY <1>4, <3>1, Results DEF PushEvict
    <2> QED
      BY <2>1, <2>2, <2>3 DEF Returned
  <1>5. CASE Pop
    <2>1. buf' \in [0 .. Cap - 1 -> T \cup {Zero}]
      BY <1>5 DEF Pop, ring
    <2>2. head' \in 0 .. Cap - 1 /\ n' \in 0 .. Cap
      BY <1>0, <1>2, <1>5 DEF Pop, ring
    <2>3. ret' \in Returned
      <3>1. buf[head] \in T \cup {Zero}
        BY <1>0
      <3> QED
        BY <1>5, <3>1, Results DEF Pop
    <2> QED
      BY <2>1, <2>2, <2>3 DEF Returned
  <1>6. CASE Peek
    BY <1>6 DEF Peek, ring, Nothing, Some
  <1>7. CASE Reset
    BY <1>0, <1>7 DEF Reset, Nothing
  <1>8. CASE UNCHANGED vars
    BY <1>8 DEF vars, ring
  <1> QED
    BY <1>3, <1>4, <1>5, <1>6, <1>7, <1>8 DEF Next

\* No call keeps a reference to an element that has left the ring.
LEMMA RingStale == TypeOK /\ NoStaleReference /\ [Next]_vars => NoStaleReference'
  <1> SUFFICES ASSUME TypeOK, NoStaleReference, [Next]_vars,
                      NEW i \in 0 .. Cap - 1, buf'[i] # Zero
               PROVE  \E k \in 0 .. n' - 1 : i = (head' + k) % Cap
    BY DEF NoStaleReference
  <1>0. /\ Cap \in Nat /\ Cap > 0 /\ head \in 0 .. Cap - 1 /\ n \in 0 .. Cap
        /\ buf \in [0 .. Cap - 1 -> T \cup {Zero}]
    BY CapAssumption DEF TypeOK
  <1>1. buf[i] # Zero => \E k \in 0 .. n - 1 : i = (head + k) % Cap
    BY DEF NoStaleReference
  <1>2. CASE ring' = ring
    BY <1>1, <1>2 DEF ring
  <1>3. CASE Reset
    BY <1>3 DEF Reset
  <1>4. ASSUME NEW x \in T, buf' = [buf EXCEPT ![tail] = x], n' = n + 1, head' = head
        PROVE  \E k \in 0 .. n' - 1 : i = (head' + k) % Cap
    <2>1. CASE i = tail
      BY <1>0, <1>4, <2>1 DEF tail
    <2>2. CASE i # tail
      <3>1. PICK k \in 0 .. n - 1 : i = (head + k) % Cap
        BY <1>0, <1>1, <1>4, <2>2
      <3>2. k \in 0 .. n' - 1
        BY <1>0, <1>4
      <3> QED
        BY <1>4, <3>1, <3>2
    <2> QED
      BY <2>1, <2>2
  <1>5. ASSUME NEW x \in T, PushEvict(x), Full
        PROVE  \E k \in 0 .. n' - 1 : i = (head' + k) % Cap
    <2>1. head' \in 0 .. Cap - 1 /\ n' = Cap
      BY <1>0, <1>5, Shift DEF PushEvict, Full
    <2> QED
      BY <2>1, Slots
  <1>6. CASE Pop /\ n # 0
    <2>1. i # head /\ buf[i] # Zero
      BY <1>0, <1>6 DEF Pop
    <2>2. PICK k \in 0 .. n - 1 : i = (head + k) % Cap
      BY <1>1, <2>1
    <2>3. k # 0
      <3>1. (head + 0) % Cap = head
        BY <1>0, Slots
      <3> QED
        BY <2>1, <2>2, <3>1
    <2> DEFINE j == k - 1
    <2>4. j \in 0 .. Cap - 1 /\ j + 1 = k /\ j \in 0 .. n' - 1
      BY <1>0, <1>6, <2>3 DEF Pop
    <2> HIDE DEF j
    <2>5. (head' + j) % Cap = (head + (j + 1)) % Cap
      <3>1. head' = (head + 1) % Cap
        BY <1>6 DEF Pop
      <3>2. \A m \in 0 .. Cap - 1 : (head' + m) % Cap = (head + (m + 1)) % Cap
        BY <1>0, <3>1, Shift
      <3> QED
        BY <2>4, <3>2
    <2> QED
      BY <2>2, <2>4, <2>5
  <1>7. Next \/ ring' = ring
    BY DEF vars
  <1> QED
    BY <1>2, <1>3, <1>4, <1>5, <1>6, <1>7 DEF Next, Push, PushEvict, Pop, Peek, ring

-------------------------------------------------------------------------------
\* What a slot may hold, and the storage.
S     == T \cup {Zero}
Store == [0 .. Cap - 1 -> S]

\* The m elements that b holds from the index h on.
Window(b, h, m) == [i \in 1 .. m |-> b[(h + (i - 1)) % Cap]]

\* A window is a sequence of the elements in its slots.
LEMMA WindowIsSeq ==
    \A b \in Store, h \in 0 .. Cap - 1, m \in 0 .. Cap :
      /\ Window(b, h, m) \in Seq(S)
      /\ Len(Window(b, h, m)) = m
      /\ \A i \in 1 .. m : Window(b, h, m)[i] = b[(h + (i - 1)) % Cap]
  <1> TAKE b \in Store, h \in 0 .. Cap - 1, m \in 0 .. Cap
  <1>0. Cap \in Nat /\ m \in Nat
    BY CapAssumption
  <1>1. \A i \in 1 .. m : b[(h + (i - 1)) % Cap] \in S
    <2> SUFFICES ASSUME NEW i \in 1 .. m PROVE (h + (i - 1)) % Cap \in 0 .. Cap - 1
      BY DEF Store
    <2>1. i - 1 \in 0 .. Cap
      BY <1>0
    <2> QED
      BY <2>1, Slots
  <1>2. Window(b, h, m) \in Seq(S)
    BY <1>0, <1>1, IsASeq DEF Window
  <1>3. DOMAIN Window(b, h, m) = 1 .. m
    BY DEF Window
  <1>4. Len(Window(b, h, m)) = m
    BY <1>0, <1>2, <1>3, LenProperties
  <1> QED
    BY <1>2, <1>4 DEF Window

\* Writing the slot after the window's end appends to it.
LEMMA WindowAppend ==
    \A b \in Store, h \in 0 .. Cap - 1, m \in 0 .. Cap - 1, x \in S :
      Window([b EXCEPT ![(h + m) % Cap] = x], h, m + 1) = Append(Window(b, h, m), x)
  <1> TAKE b \in Store, h \in 0 .. Cap - 1, m \in 0 .. Cap - 1, x \in S
  <1> DEFINE c == [b EXCEPT ![(h + m) % Cap] = x]
             s == Window(c, h, m + 1)
             w == Window(b, h, m)
             t == Append(w, x)
  <1>0. Cap \in Nat /\ Cap > 0 /\ m \in Nat /\ m \in 0 .. Cap /\ m + 1 \in 0 .. Cap
    BY CapAssumption
  <1>1. (h + m) % Cap \in 0 .. Cap - 1
    BY <1>0, Slots
  <1>C. /\ c \in Store
        /\ c[(h + m) % Cap] = x
        /\ \A j \in 0 .. Cap - 1 : j # (h + m) % Cap => c[j] = b[j]
    BY <1>1 DEF Store
  <1> HIDE DEF c
  <1>2. s \in Seq(S) /\ Len(s) = m + 1
        /\ \A i \in 1 .. m + 1 : s[i] = c[(h + (i - 1)) % Cap]
    <2> DEFINE l == m + 1
    <2>1. l \in 0 .. Cap
      BY <1>0
    <2> HIDE DEF l
    <2>2. /\ Window(c, h, l) \in Seq(S) /\ Len(Window(c, h, l)) = l
          /\ \A i \in 1 .. l : Window(c, h, l)[i] = c[(h + (i - 1)) % Cap]
      BY <1>C, <2>1, WindowIsSeq
    <2> QED
      BY <2>2 DEF l
  <1>3. w \in Seq(S) /\ Len(w) = m /\ \A i \in 1 .. m : w[i] = b[(h + (i - 1)) % Cap]
    BY <1>0, WindowIsSeq
  <1>4. t \in Seq(S) /\ Len(t) = m + 1 /\ (\A i \in 1 .. m : t[i] = w[i]) /\ t[m + 1] = x
    BY <1>3, AppendProperties
  <1>5. \A i \in 1 .. m : c[(h + (i - 1)) % Cap] = b[(h + (i - 1)) % Cap]
    <2> SUFFICES ASSUME NEW i \in 1 .. m
                 PROVE  c[(h + (i - 1)) % Cap] = b[(h + (i - 1)) % Cap]
      OBVIOUS
    <2>1. i - 1 \in 0 .. Cap - 1 /\ i - 1 \in 0 .. Cap /\ i - 1 # m
      BY <1>0
    <2>2. (h + (i - 1)) % Cap # (h + m) % Cap /\ (h + (i - 1)) % Cap \in 0 .. Cap - 1
      BY <2>1, Slots
    <2> QED
      BY <1>C, <2>2
  <1>6. c[(h + ((m + 1) - 1)) % Cap] = x
    <2>1. (m + 1) - 1 = m
      BY <1>0
    <2> QED
      BY <1>C, <2>1
  <1> HIDE DEF s, w, t
  <1>7. \A i \in 1 .. m + 1 : s[i] = t[i]
    <2>1. \A i \in 1 .. m : s[i] = t[i]
      <3>1. \A i \in 1 .. m : i \in 1 .. m + 1
        BY <1>0
      <3> QED
        BY <1>2, <1>3, <1>4, <1>5, <3>1
    <2>2. s[m + 1] = t[m + 1]
      <3>1. m + 1 \in 1 .. m + 1
        BY <1>0
      <3> QED
        BY <1>2, <1>4, <1>6, <3>1
    <2>3. \A i \in 1 .. m + 1 : i \in 1 .. m \/ i = m + 1
      BY <1>0
    <2> QED
      BY <2>1, <2>2, <2>3
  <1>8. s = t
    BY <1>2, <1>4, <1>7, SeqEqual
  <1> QED
    BY <1>8 DEF c, s, w, t

\* Moving the head past the window's first element, whatever is written into the
\* slot it leaves, takes that element away.
LEMMA WindowTail ==
    \A b \in Store, h \in 0 .. Cap - 1, m \in 1 .. Cap, x \in S :
      /\ Window(b, h, m) # <<>> /\ Head(Window(b, h, m)) = b[h]
      /\ Window([b EXCEPT ![h] = x], (h + 1) % Cap, m - 1) = Tail(Window(b, h, m))
  <1> TAKE b \in Store, h \in 0 .. Cap - 1, m \in 1 .. Cap, x \in S
  <1> DEFINE g == (h + 1) % Cap
             c == [b EXCEPT ![h] = x]
             s == Window(c, g, m - 1)
             w == Window(b, h, m)
             t == Tail(w)
  <1>0. Cap \in Nat /\ Cap > 0 /\ m \in Nat /\ m \in 0 .. Cap /\ m - 1 \in 0 .. Cap
    BY CapAssumption
  <1>1. g \in 0 .. Cap - 1 /\ \A k \in 0 .. Cap - 1 : (g + k) % Cap = (h + (k + 1)) % Cap
    BY Shift
  <1>C. /\ c \in Store
        /\ \A j \in 0 .. Cap - 1 : j # h => c[j] = b[j]
    BY DEF Store
  <1> HIDE DEF c, g
  <1>2. s \in Seq(S) /\ Len(s) = m - 1
        /\ \A i \in 1 .. m - 1 : s[i] = c[(g + (i - 1)) % Cap]
    <2> DEFINE l == m - 1
    <2>1. l \in 0 .. Cap
      BY <1>0
    <2> HIDE DEF l
    <2>2. /\ Window(c, g, l) \in Seq(S) /\ Len(Window(c, g, l)) = l
          /\ \A i \in 1 .. l : Window(c, g, l)[i] = c[(g + (i - 1)) % Cap]
      BY <1>1, <1>C, <2>1, WindowIsSeq
    <2> QED
      BY <2>2 DEF l
  <1>3. w \in Seq(S) /\ Len(w) = m /\ \A i \in 1 .. m : w[i] = b[(h + (i - 1)) % Cap]
    BY <1>0, WindowIsSeq
  <1>H. (h + 0) % Cap = h
    BY <1>0, Slots
  <1>4. w # <<>> /\ Head(w) = b[h]
    <2>1. w[1] = b[h]
      <3>1. 1 \in 1 .. m /\ 1 - 1 = 0
        BY <1>0
      <3> QED
        BY <1>3, <1>H, <3>1
    <2> HIDE DEF w
    <2>2. w # <<>>
      BY <1>0, <1>3
    <2>3. Head(w) = w[1]
      BY <1>3, <2>2
    <2> QED
      BY <2>1, <2>2, <2>3
  <1>5. t \in Seq(S) /\ Len(t) = m - 1 /\ \A i \in 1 .. m - 1 : t[i] = w[i + 1]
    BY <1>3, <1>4, HeadTailProperties
  <1>6. ASSUME NEW i \in 1 .. m - 1 PROVE c[(g + (i - 1)) % Cap] = w[i + 1]
    <2>1. /\ i - 1 \in 0 .. Cap - 1 /\ (i - 1) + 1 = i /\ i \in 0 .. Cap - 1 /\ 0 \in 0 .. Cap - 1
          /\ i + 1 \in 1 .. m /\ (i + 1) - 1 = i /\ i \in 0 .. Cap /\ i # 0
      BY <1>0
    <2>2. (g + (i - 1)) % Cap = (h + i) % Cap
      BY <1>1, <2>1
    <2>3. (h + i) % Cap \in 0 .. Cap - 1 /\ (h + i) % Cap # h
      BY <1>H, <2>1, Slots
    <2>4. w[i + 1] = b[(h + i) % Cap]
      BY <1>3, <2>1
    <2> QED
      BY <1>C, <2>2, <2>3, <2>4
  <1> HIDE DEF s, w, t
  <1>7. \A i \in 1 .. m - 1 : s[i] = t[i]
    BY <1>2, <1>5, <1>6
  <1>8. s = t
    BY <1>2, <1>5, <1>7, SeqEqual
  <1> QED
    BY <1>4, <1>8 DEF c, g, s, w, t

-------------------------------------------------------------------------------
\* The empty ring is the empty queue.
LEMMA RefinesInit == Init => F!Init
  <1> SUFFICES ASSUME Init PROVE F!Init
    OBVIOUS
  <1>1. Contents = <<>>
    BY DEF Init, Contents
  <1> QED
    BY <1>1 DEF Init, F!Init, Nothing, F!Nothing

\* Every call on the ring is a call on the queue it holds, with the same result.
LEMMA RefinesNext == TypeOK /\ TypeOK' /\ [Next]_vars => [F!Next]_(F!vars)
  <1> SUFFICES ASSUME TypeOK, TypeOK', [Next]_vars PROVE [F!Next]_(F!vars)
    OBVIOUS
  <1> DEFINE q == Contents
  <1>0. /\ Cap \in Nat /\ Cap > 0 /\ head \in 0 .. Cap - 1 /\ n \in 0 .. Cap
        /\ buf \in Store /\ Zero \in S /\ \A x \in T : x \in S
    BY CapAssumption DEF TypeOK, Store, S
  <1>1. q = Window(buf, head, n) /\ q' = Window(buf', head', n')
    BY DEF Contents, Window
  <1>2. q \in Seq(S) /\ Len(q) = n
    BY <1>0, <1>1, WindowIsSeq
  <1>3. n = 0 <=> q = <<>>
    <2> HIDE DEF q
    <2> QED
      BY <1>2
  <1>4. n > 0 => Head(q) = buf[head]
    <2>1. n > 0 => n \in 1 .. Cap
      BY <1>0
    <2>2. n \in 1 .. Cap => Head(Window(buf, head, n)) = buf[head]
      BY <1>0, WindowTail, Zenon
    <2> QED
      BY <1>1, <2>1, <2>2
  <1> USE DEF Nothing, Some, F!Nothing, F!Some
  <1>5. ASSUME NEW x \in T, ~Full, buf' = [buf EXCEPT ![tail] = x], n' = n + 1, head' = head
        PROVE  Len(q) < Cap /\ q' = Append(q, x)
    <2>1. n \in 0 .. Cap - 1 /\ n < Cap
      BY <1>0, <1>5 DEF Full
    <2>2. Window([buf EXCEPT ![(head + n) % Cap] = x], head, n + 1) = Append(Window(buf, head, n), x)
      BY <1>0, <2>1, WindowAppend, Zenon
    <2> QED
      BY <1>1, <1>2, <1>5, <2>1, <2>2 DEF tail
  <1>6. ASSUME NEW x \in T, Push(x) PROVE F!Next
    <2>1. CASE Full
      <3>1. q' = q /\ Len(q) = Cap /\ ret' = Nothing
        BY <1>2, <1>6, <2>1 DEF Push, Full, ring, Contents
      <3> QED
        BY <3>1 DEF F!Next, F!Refuse
    <2>2. CASE ~Full
      <3>1. Len(q) < Cap /\ q' = Append(q, x) /\ ret' = Some(Zero)
        BY <1>5, <1>6, <2>2 DEF Push
      <3> QED
        BY <3>1 DEF F!Next, F!Put
    <2> QED
      BY <2>1, <2>2
  <1>7. ASSUME NEW x \in T, PushEvict(x) PROVE F!Next
    <2>1. CASE ~Full
      <3>1. Len(q) < Cap /\ q' = Append(q, x) /\ ret' = Nothing
        BY <1>5, <1>7, <2>1 DEF PushEvict
      <3> QED
        BY <3>1 DEF F!Next, F!Displace
    <2>2. CASE Full
      <3>1. n = Cap /\ n \in 1 .. Cap
        BY <1>0, <2>2 DEF Full
      <3>2. tail = head
        <4>1. Cap \in 0 .. Cap
          BY <1>0
        <4>2. (head + Cap) % Cap = IF head + Cap < Cap THEN head + Cap ELSE head + Cap - Cap
          BY <1>0, <4>1, Slots
        <4> QED
          BY <1>0, <3>1, <4>2 DEF tail
      <3> DEFINE c == [buf EXCEPT ![head] = x]
                 g == (head + 1) % Cap
      <3>3. g \in 0 .. Cap - 1 /\ \A k \in 0 .. Cap - 1 : (g + k) % Cap = (head + (k + 1)) % Cap
        BY <1>0, Shift
      <3>4. Window(c, g, n - 1) = Tail(q) /\ q # <<>>
        BY <1>0, <1>1, <3>1, WindowTail, Zenon
      <3>5. c \in Store /\ c[head] = x
        BY <1>0 DEF Store
      <3>6. (g + (n - 1)) % Cap = head
        <4>1. n - 1 \in 0 .. Cap - 1 /\ (n - 1) + 1 = n
          BY <1>0, <3>1
        <4> QED
          BY <3>1, <3>2, <3>3, <4>1 DEF tail
      <3>7. [c EXCEPT ![head] = x] = c
        BY <1>0, <3>5 DEF Store
      <3> HIDE DEF c, g
      <3>8. Window(c, g, n) = Append(Tail(q), x)
        <4> DEFINE m == n - 1
        <4>1. m \in 0 .. Cap - 1 /\ m + 1 = n
          BY <1>0, <3>1
        <4> HIDE DEF m
        <4>2. Window([c EXCEPT ![(g + m) % Cap] = x], g, m + 1) = Append(Window(c, g, m), x)
          BY <1>0, <3>3, <3>5, <4>1, WindowAppend, Zenon
        <4>3. (g + m) % Cap = head /\ Window(c, g, m) = Tail(q)
          BY <3>4, <3>6 DEF m
        <4> QED
          BY <3>7, <4>1, <4>2, <4>3
      <3>9. buf' = c /\ head' = g /\ n' = n /\ ret' = Some(buf[head])
        BY <1>7, <2>2, <3>2 DEF PushEvict, c, g
      <3>10. Len(q) = Cap /\ q' = Append(Tail(q), x) /\ ret' = Some(Head(q))
        BY <1>0, <1>1, <1>2, <1>4, <3>1, <3>8, <3>9
      <3> QED
        BY <3>10 DEF F!Next, F!Displace
    <2> QED
      BY <2>1, <2>2
  <1>8. CASE Pop
    <2>1. CASE n = 0
      <3>1. q' = q /\ q = <<>> /\ ret' = Nothing
        BY <1>3, <1>8, <2>1 DEF Pop, ring, Contents
      <3> QED
        BY <3>1 DEF F!Next, F!Refuse
    <2>2. CASE n # 0
      <3>1. n \in 1 .. Cap
        BY <1>0, <2>2
      <3>2. Window([buf EXCEPT ![head] = Zero], (head + 1) % Cap, n - 1) = Tail(q)
        BY <1>0, <1>1, <3>1, WindowTail, Zenon
      <3>3. q # <<>> /\ q' = Tail(q) /\ ret' = Some(Head(q))
        <4>1. n > 0
          BY <1>0, <2>2
        <4>2. q # <<>> /\ Head(q) = buf[head]
          BY <1>3, <1>4, <2>2, <4>1
        <4>3. q' = Tail(q)
          BY <1>1, <1>8, <2>2, <3>2 DEF Pop
        <4>4. ret' = Some(buf[head])
          BY <1>8, <2>2 DEF Pop
        <4> QED
          BY <4>2, <4>3, <4>4
      <3> QED
        BY <3>3 DEF F!Next, F!Take
    <2> QED
      BY <2>1, <2>2
  <1>9. CASE Peek
    <2>1. q' = q
      BY <1>9 DEF Peek, ring, Contents
    <2>2. CASE n = 0
      <3>1. q = <<>> /\ ret' = Nothing
        BY <1>3, <1>9, <2>2 DEF Peek
      <3> QED
        BY <2>1, <3>1 DEF F!Next, F!Refuse
    <2>3. CASE n # 0
      <3>1. q # <<>> /\ ret' = Some(Head(q))
        <4>1. n > 0
          BY <1>0, <2>3
        <4>2. q # <<>> /\ Head(q) = buf[head]
          BY <1>3, <1>4, <2>3, <4>1
        <4>3. ret' = Some(buf[head])
          BY <1>9, <2>3 DEF Peek
        <4> QED
          BY <4>2, <4>3
      <3> QED
        BY <2>1, <3>1 DEF F!Next, F!Look
    <2> QED
      BY <2>2, <2>3
  <1>10. CASE Reset
    <2>1. q' = <<>> /\ ret' = Nothing
      BY <1>10 DEF Reset, Contents
    <2> QED
      BY <2>1 DEF F!Next, F!Clear
  <1>11. CASE UNCHANGED vars
    BY <1>11 DEF vars, ring, Contents, F!vars
  <1> QED
    BY <1>6, <1>7, <1>8, <1>9, <1>10, <1>11 DEF Next

-------------------------------------------------------------------------------
\* For every capacity the ring is a bounded first-in first-out queue: Push refuses
\* only when full, PushEvict gives up exactly the oldest element, Pop and Peek
\* return it, however often the indices have wrapped.
THEOREM RingIsFifo == Spec => FifoOrder
  <1>1. Spec => []TypeOK
    BY RingInit, RingType, PTL DEF Spec
  <1> QED
    BY <1>1, RefinesInit, RefinesNext, PTL DEF Spec, FifoOrder, F!Spec

\* For every capacity no slot outside the live window keeps a reference.
THEOREM RingReleases == Spec => []NoStaleReference
  BY RingInit, RingType, RingStale, PTL DEF Spec
-------------------------------------------------------------------------------
\* The storage, indices and clock of the byte queue.
QueueTypeOK ==
    /\ qbuf \in [0 .. MaxPackets - 1 -> Item \cup {NoItem}]
    /\ qhead \in 0 .. MaxPackets - 1
    /\ qn \in 0 .. MaxPackets
    /\ qnow \in Times
    /\ cutoff \in Times \cup {Idle}

\* When the packet k places after the head was enqueued.
EnqueuedAt(k) == qbuf[(qhead + k) % MaxPackets].at

\* Packets stand in the order of their times, none of them later than the clock.
InOrder ==
    /\ \A j, k \in 0 .. qn - 1 : j <= k => EnqueuedAt(j) <= EnqueuedAt(k)
    /\ \A k \in 0 .. qn - 1 : EnqueuedAt(k) <= qnow

QueueInv == QueueTypeOK /\ InOrder

\* The empty queue is in order.
LEMMA QueueStarts == QueueInit => QueueInv
  <1> SUFFICES ASSUME QueueInit PROVE QueueInv
    OBVIOUS
  <1>1. /\ qbuf = [i \in 0 .. MaxPackets - 1 |-> NoItem]
        /\ qhead = 0 /\ qn = 0 /\ qnow = 0 /\ cutoff = Idle
    BY DEF QueueInit, R!Init
  <1>2. QueueTypeOK
    BY <1>1, QueueAssumption DEF QueueTypeOK, Times
  <1>3. InOrder
    BY <1>1 DEF InOrder
  <1> QED
    BY <1>2, <1>3 DEF QueueInv

\* The slots of the queue's window.
LEMMA QueueSlots ==
    ASSUME QueueTypeOK
    PROVE  /\ \A k \in 0 .. MaxPackets : (qhead + k) % MaxPackets \in 0 .. MaxPackets - 1
           /\ \A j, k \in 0 .. MaxPackets - 1 :
                (qhead + j) % MaxPackets = (qhead + k) % MaxPackets => j = k
           /\ (qhead + 0) % MaxPackets = qhead
  <1>1. MaxPackets \in Nat \ {0} /\ qhead \in 0 .. MaxPackets - 1
    BY QueueAssumption DEF QueueTypeOK
  <1>2. (qhead + 0) % MaxPackets = qhead
    BY <1>1
  <1> QED
    BY <1>1, <1>2, SlotsAt

\* Every slot of the window has a time.
LEMMA Timed ==
    ASSUME QueueTypeOK
    PROVE  \A k \in 0 .. MaxPackets : EnqueuedAt(k) \in Int
  <1> SUFFICES ASSUME NEW k \in 0 .. MaxPackets PROVE EnqueuedAt(k) \in Int
    OBVIOUS
  <1> DEFINE i == (qhead + k) % MaxPackets
  <1>1. i \in 0 .. MaxPackets - 1
    BY QueueSlots
  <1> HIDE DEF i
  <1>2. qbuf[i] \in Item \cup {NoItem}
    BY <1>1 DEF QueueTypeOK
  <1>3. qbuf[i].at \in Int
    BY <1>2 DEF Item, NoItem, Times
  <1> QED
    BY <1>3 DEF i, EnqueuedAt

\* A packet pushed behind the others with the clock's time keeps the order.
LEMMA PushKeepsOrder ==
    ASSUME QueueInv, NEW x \in Item, x.at = qnow, qn # MaxPackets,
           qbuf' = [qbuf EXCEPT ![(qhead + qn) % MaxPackets] = x],
           qhead' = qhead, qn' = qn + 1, qnow' = qnow, cutoff' = cutoff
    PROVE  QueueInv'
  <1> USE DEF QueueInv
  <1> DEFINE M == MaxPackets
             slot(k) == (qhead + k) % M
  <1>0. /\ M \in Nat /\ M > 0 /\ qhead \in 0 .. M - 1 /\ qn \in 0 .. M - 1 /\ qn + 1 \in 0 .. M
        /\ qnow \in Int
    BY QueueAssumption DEF QueueTypeOK, Times
  <1>M. \A k \in 0 .. M - 1 : k \in 0 .. M
    BY <1>0
  <1>S. /\ \A k \in 0 .. M - 1 : slot(k) \in 0 .. M - 1
        /\ \A j, k \in 0 .. M - 1 : slot(j) = slot(k) => j = k
    BY <1>M, QueueSlots
  <1>L. PICK l \in 0 .. M - 1 : l = qn
    BY <1>0
  <1>1. QueueTypeOK'
    <2>1. slot(qn) \in 0 .. M - 1
      BY <1>0, <1>S
    <2>2. qbuf' \in [0 .. M - 1 -> Item \cup {NoItem}]
      BY <2>1 DEF QueueTypeOK
    <2> QED
      BY <1>0, <2>2 DEF QueueTypeOK
  <1>2. ASSUME NEW k \in 0 .. qn - 1 PROVE EnqueuedAt(k)' = EnqueuedAt(k)
    <2>1. k \in 0 .. M - 1 /\ k # qn /\ qn \in 0 .. M - 1
      BY <1>0
    <2>2. slot(k) # slot(qn) /\ slot(k) \in 0 .. M - 1
      BY <1>S, <2>1
    <2> HIDE DEF slot
    <2>3. [qbuf EXCEPT ![slot(qn)] = x][slot(k)] = qbuf[slot(k)]
      BY <2>2 DEF QueueTypeOK
    <2> QED
      BY <2>3 DEF EnqueuedAt, slot
  <1>3. EnqueuedAt(l)' = qnow
    <2>1. slot(qn) \in 0 .. M - 1
      BY <1>0, <1>S
    <2> HIDE DEF slot
    <2>2. [qbuf EXCEPT ![slot(qn)] = x][slot(qn)] = x
      BY <2>1 DEF QueueTypeOK
    <2> QED
      BY <1>L, <2>2 DEF EnqueuedAt, slot
  <1>4. \A k \in 0 .. qn - 1 : EnqueuedAt(k) \in Int
    <2>1. \A k \in 0 .. qn - 1 : k \in 0 .. M
      BY <1>0
    <2> QED
      BY <2>1, Timed
  <1>5. \A k \in 0 .. qn' - 1 : k \in 0 .. qn - 1 \/ k = l
    BY <1>0, <1>L
  <1>6. ASSUME NEW k \in 0 .. qn' - 1 PROVE EnqueuedAt(k)' <= qnow'
    <2>1. CASE k = l
      BY <1>0, <1>3, <2>1
    <2>2. CASE k \in 0 .. qn - 1
      BY <1>2, <2>2 DEF InOrder
    <2> QED
      BY <1>5, <2>1, <2>2
  <1>7. ASSUME NEW j \in 0 .. qn' - 1, NEW k \in 0 .. qn' - 1, j <= k
        PROVE  EnqueuedAt(j)' <= EnqueuedAt(k)'
    <2>1. CASE k = l
      BY <1>3, <1>6, <2>1
    <2>2. CASE k \in 0 .. qn - 1
      <3>1. j \in 0 .. qn - 1
        BY <1>0, <1>7, <2>2
      <3> QED
        BY <1>2, <1>7, <2>2, <3>1 DEF InOrder
    <2> QED
      BY <1>5, <2>1, <2>2
  <1>8. InOrder'
    BY <1>6, <1>7 DEF InOrder
  <1> QED
    BY <1>1, <1>8

\* Taking the oldest packet away keeps the order of the rest.
LEMMA PopKeepsOrder ==
    ASSUME QueueInv, qn # 0,
           qbuf' = [qbuf EXCEPT ![qhead] = NoItem],
           qhead' = (qhead + 1) % MaxPackets, qn' = qn - 1, qnow' = qnow, cutoff' = cutoff
    PROVE  QueueInv'
  <1> USE DEF QueueInv
  <1> DEFINE M == MaxPackets
  <1>0. /\ M \in Nat /\ M > 0 /\ qhead \in 0 .. M - 1 /\ qn \in 1 .. M
        /\ qbuf \in [0 .. M - 1 -> Item \cup {NoItem}]
    BY QueueAssumption DEF QueueTypeOK
  <1>1. /\ qhead' \in 0 .. M - 1
        /\ \A k \in 0 .. M - 1 : (qhead' + k) % M = (qhead + (k + 1)) % M
    BY <1>0, QueueAssumption, ShiftAt
  <1>2. QueueTypeOK'
    BY <1>0, <1>1 DEF QueueTypeOK
  <1>3. ASSUME NEW k \in 0 .. qn' - 1
        PROVE  k + 1 \in 0 .. qn - 1 /\ EnqueuedAt(k)' = EnqueuedAt(k + 1)
    <2> DEFINE m == k + 1
               i == (qhead + m) % M
    <2>1. /\ m \in 0 .. qn - 1 /\ m \in 0 .. M - 1 /\ m \in 0 .. M /\ m # 0
          /\ k \in 0 .. M - 1 /\ 0 \in 0 .. M - 1 /\ 0 \in 0 .. M
      BY <1>0
    <2>2. (qhead' + k) % M = i
      BY <1>1, <2>1
    <2> HIDE DEF m
    <2>3. /\ i \in 0 .. M - 1
          /\ (qhead + m) % M = (qhead + 0) % M => m = 0
          /\ (qhead + 0) % M = qhead
      BY <2>1, QueueSlots
    <2>4. i # qhead
      BY <1>0, <2>1, <2>3
    <2> HIDE DEF i
    <2>5. qbuf'[i] = qbuf[i]
      BY <1>0, <2>3, <2>4
    <2>6. EnqueuedAt(m) = qbuf[i].at
      BY DEF EnqueuedAt, i
    <2> QED
      BY <2>1, <2>2, <2>5, <2>6 DEF EnqueuedAt, m
  <1>4. ASSUME NEW j \in 0 .. qn' - 1, NEW k \in 0 .. qn' - 1, j <= k
        PROVE  EnqueuedAt(j)' <= EnqueuedAt(k)'
    <2>1. j + 1 \in 0 .. qn - 1 /\ k + 1 \in 0 .. qn - 1 /\ j + 1 <= k + 1
      BY <1>3, <1>4
    <2>2. EnqueuedAt(j + 1) <= EnqueuedAt(k + 1)
      BY <2>1 DEF InOrder
    <2> QED
      BY <1>3, <2>2
  <1>5. ASSUME NEW k \in 0 .. qn' - 1 PROVE EnqueuedAt(k)' <= qnow'
    BY <1>3 DEF InOrder
  <1> QED
    BY <1>2, <1>4, <1>5 DEF InOrder

\* No operation of the queue, and no tick between two of them, breaks its order.
LEMMA QueueStep == QueueInv /\ [QueueNext]_queueVars => QueueInv'
  <1> SUFFICES ASSUME QueueInv, [QueueNext]_queueVars PROVE QueueInv'
    OBVIOUS
  <1>0. /\ qn \in 0 .. MaxPackets /\ MaxPackets \in Nat /\ MaxBytes \in Nat
        /\ qnow \in Times /\ MaxClock \in Nat
    BY QueueAssumption DEF QueueInv, QueueTypeOK
  <1>1. ASSUME UNCHANGED queueRing, qnow' \in Times, qnow <= qnow', cutoff' \in Times \cup {Idle}
        PROVE  QueueInv'
    <2>1. QueueTypeOK'
      BY <1>1 DEF queueRing, QueueInv, QueueTypeOK
    <2>2. \A k \in 0 .. qn - 1 : EnqueuedAt(k) \in Int /\ EnqueuedAt(k) <= qnow
      <3>1. \A k \in 0 .. qn - 1 : k \in 0 .. MaxPackets
        BY <1>0
      <3> QED
        BY <3>1, Timed DEF QueueInv, InOrder
    <2>3. \A k : EnqueuedAt(k)' = EnqueuedAt(k)
      BY <1>1 DEF queueRing, EnqueuedAt
    <2>4. qnow \in Int /\ qnow' \in Int
      BY <1>0, <1>1 DEF Times
    <2>5. \A k \in 0 .. qn - 1 : EnqueuedAt(k) <= qnow'
      BY <1>1, <2>2, <2>4
    <2> QED
      BY <1>1, <2>1, <2>3, <2>5 DEF queueRing, QueueInv, InOrder
  <1>2. ASSUME Remove, UNCHANGED <<qnow, cutoff>> PROVE QueueInv'
    <2>1. CASE qn = 0
      <3>1. UNCHANGED queueRing
        BY <1>2, <2>1 DEF Remove, R!Pop, R!ring, queueRing
      <3> QED
        BY <1>0, <1>1, <1>2, <3>1 DEF QueueInv, QueueTypeOK, Times
    <2>2. CASE qn # 0
      <3>1. /\ qbuf' = [qbuf EXCEPT ![qhead] = NoItem]
            /\ qhead' = (qhead + 1) % MaxPackets /\ qn' = qn - 1
        BY <1>2, <2>2 DEF Remove, R!Pop
      <3> QED
        BY <1>2, <2>2, <3>1, PopKeepsOrder
    <2> QED
      BY <2>1, <2>2
  <1>3. UNCHANGED <<queueRing, qnow>> /\ cutoff' \in Times \cup {Idle} => QueueInv'
    BY <1>0, <1>1 DEF Times
  <1>4. cutoff \in Times \cup {Idle}
    BY DEF QueueInv, QueueTypeOK
  <1>5. ASSUME NEW s \in Sizes, Enqueue(s) PROVE QueueInv'
    <2>1. CASE Accepts(s)
      <3> DEFINE x == [bytes |-> s, at |-> qnow]
      <3>1. x \in Item /\ x.at = qnow
        <4>1. s \in 1 .. MaxBytes
          BY <1>0, <2>1, QueueAssumption, BudgetFits DEF Accepts
        <4> QED
          BY <1>0, <4>1 DEF Item
      <3>2. R!Push(x) /\ ~R!Full /\ UNCHANGED <<qnow, cutoff>>
        BY <1>5, <2>1 DEF Enqueue, Accepts
      <3> HIDE DEF x
      <3>3. /\ qn # MaxPackets
            /\ qbuf' = [qbuf EXCEPT ![(qhead + qn) % MaxPackets] = x]
            /\ qhead' = qhead /\ qn' = qn + 1
        BY <3>2 DEF R!Push, R!Full, R!tail
      <3> QED
        BY <3>1, <3>2, <3>3, PushKeepsOrder
    <2>2. CASE ~Accepts(s)
      BY <1>3, <1>4, <1>5, <2>2 DEF Enqueue
    <2> QED
      BY <2>1, <2>2
  <1>6. CASE Dequeue
    BY <1>2, <1>6 DEF Dequeue
  <1>7. CASE QueuePeek
    BY <1>3, <1>4, <1>7 DEF QueuePeek, R!Peek, R!ring, queueRing
  <1>8. ASSUME NEW t \in Times, DropExpired(t) PROVE QueueInv'
    BY <1>3, <1>8 DEF DropExpired
  <1>9. CASE DropHead
    BY <1>2, <1>9 DEF DropHead
  <1>10. CASE DropReturns
    BY <1>3, <1>10 DEF DropReturns
  <1>11. CASE Tick
    BY <1>0, <1>1, <1>4, <1>11 DEF Tick, Times
  <1>12. CASE UNCHANGED queueVars
    BY <1>3, <1>4, <1>12 DEF queueVars
  <1> QED
    BY <1>5, <1>6, <1>7, <1>8, <1>9, <1>10, <1>11, <1>12 DEF QueueNext

\* The scan stops at a head still in time, and the order makes that enough.
LEMMA ReturnsClean ==
    QueueInv /\ [QueueNext]_queueVars =>
      (cutoff # Idle /\ cutoff' = Idle => \A i \in 1 .. qn : R!Contents[i].at > cutoff)
  <1> SUFFICES ASSUME QueueInv, [QueueNext]_queueVars, cutoff # Idle, cutoff' = Idle,
                      NEW i \in 1 .. qn
               PROVE  R!Contents[i].at > cutoff
    OBVIOUS
  <1>0. /\ qn \in 0 .. MaxPackets /\ MaxPackets \in Nat /\ MaxPackets > 0
        /\ qhead \in 0 .. MaxPackets - 1 /\ cutoff \in Int
    BY QueueAssumption DEF QueueInv, QueueTypeOK, Times
  <1>1. DropReturns
    BY DEF QueueNext, queueVars, Enqueue, Dequeue, QueuePeek, DropExpired, DropHead, Tick
  <1>2. ~Expired(qbuf[qhead])
    BY <1>0, <1>1 DEF DropReturns
  <1>3. EnqueuedAt(0) = qbuf[qhead].at
    <2>1. (qhead + 0) % MaxPackets = qhead
      BY <1>0
    <2> QED
      BY <2>1 DEF EnqueuedAt
  <1> DEFINE k == i - 1
  <1>4. k \in 0 .. qn - 1 /\ 0 \in 0 .. qn - 1 /\ 0 <= k /\ k \in 0 .. MaxPackets /\ 0 \in 0 .. MaxPackets
    BY <1>0
  <1>5. R!Contents[i].at = EnqueuedAt(k)
    BY DEF R!Contents, EnqueuedAt
  <1> HIDE DEF k
  <1>6. EnqueuedAt(0) <= EnqueuedAt(k) /\ EnqueuedAt(0) \in Int /\ EnqueuedAt(k) \in Int
    BY <1>4, Timed DEF QueueInv, InOrder
  <1>7. EnqueuedAt(0) > cutoff
    BY <1>0, <1>2, <1>3, <1>6 DEF Expired
  <1> QED
    BY <1>0, <1>5, <1>6, <1>7

\* For every capacity, budget, mix of sizes and cutoff, a DropExpired that has
\* returned has left no expired packet, although it looks only at the head.
THEOREM QueueNoExpiredLeft == QueueSpec => NoExpiredLeft
  <1>1. QueueSpec => []QueueInv
    BY QueueStarts, QueueStep, PTL DEF QueueSpec
  <1> QED
    BY <1>1, ReturnsClean, PTL DEF QueueSpec, NoExpiredLeft
-------------------------------------------------------------------------------
\* The packet k places after the head.
PacketAt(k) == qbuf[(qhead + k) % MaxPackets]

\* Running totals of the queue that end in the counter. They do not fall, so that none
\* is negative once the first packet is taken off all of them.
Totals(total) ==
    /\ total[0] = 0
    /\ \A k \in 0 .. qn - 1 : total[k + 1] = total[k] + PacketAt(k).bytes
    /\ \A j, k \in 0 .. qn : j <= k => total[j] <= total[k]
    /\ total[qn] = curBytes

BytesInv == \E total \in [0 .. qn -> 0 .. MaxBytes] : Totals(total)

\* Every slot of the window has a size.
LEMMA Sized ==
    ASSUME QueueTypeOK
    PROVE  \A k \in 0 .. MaxPackets : PacketAt(k).bytes \in Nat
  <1> SUFFICES ASSUME NEW k \in 0 .. MaxPackets PROVE PacketAt(k).bytes \in Nat
    OBVIOUS
  <1> DEFINE i == (qhead + k) % MaxPackets
  <1>1. i \in 0 .. MaxPackets - 1
    BY QueueSlots
  <1> HIDE DEF i
  <1>2. qbuf[i] \in Item \cup {NoItem}
    BY <1>1 DEF QueueTypeOK
  <1>3. qbuf[i].bytes \in Nat
    BY <1>2, QueueAssumption DEF Item, NoItem
  <1> QED
    BY <1>3 DEF i, PacketAt

\* The queue after a push: the packets it had, and the new one behind them.
LEMMA Pushed ==
    ASSUME QueueTypeOK, qn # MaxPackets, NEW x, NEW l, l = qn,
           qbuf' = [qbuf EXCEPT ![(qhead + qn) % MaxPackets] = x], qhead' = qhead
    PROVE  /\ \A k \in 0 .. qn - 1 : PacketAt(k)' = PacketAt(k)
           /\ PacketAt(l)' = x
  <1> DEFINE M == MaxPackets
             slot(k) == (qhead + k) % M
  <1>0. /\ M \in Nat /\ M > 0 /\ qn \in 0 .. M - 1 /\ qn \in 0 .. M
        /\ \A k \in 0 .. qn - 1 : k \in 0 .. M - 1 /\ k \in 0 .. M /\ k # qn
    BY QueueAssumption DEF QueueTypeOK
  <1>1. /\ slot(qn) \in 0 .. M - 1
        /\ \A k \in 0 .. qn - 1 : slot(k) \in 0 .. M - 1 /\ slot(k) # slot(qn)
    BY <1>0, QueueSlots
  <1> HIDE DEF slot
  <1>2. [qbuf EXCEPT ![slot(qn)] = x][slot(qn)] = x
    BY <1>1 DEF QueueTypeOK
  <1>3. \A k \in 0 .. qn - 1 : [qbuf EXCEPT ![slot(qn)] = x][slot(k)] = qbuf[slot(k)]
    BY <1>1 DEF QueueTypeOK
  <1> QED
    BY <1>2, <1>3 DEF slot, PacketAt

\* The queue after a pop: the packets behind the first.
LEMMA Popped ==
    ASSUME QueueTypeOK, qn # 0, NEW x,
           qbuf' = [qbuf EXCEPT ![qhead] = x], qhead' = (qhead + 1) % MaxPackets
    PROVE  \A k \in 0 .. qn - 2 : PacketAt(k)' = PacketAt(k + 1)
  <1> SUFFICES ASSUME NEW k \in 0 .. qn - 2 PROVE PacketAt(k)' = PacketAt(k + 1)
    OBVIOUS
  <1> DEFINE M == MaxPackets
             m == k + 1
             i == (qhead + m) % M
  <1>0. M \in Nat /\ M > 0 /\ qhead \in 0 .. M - 1 /\ qn \in 1 .. M
    BY QueueAssumption DEF QueueTypeOK
  <1>1. \A g \in 0 .. M - 1 : (qhead' + g) % M = (qhead + (g + 1)) % M
    BY <1>0, QueueAssumption, ShiftAt
  <1>2. /\ m \in 0 .. M - 1 /\ m \in 0 .. M /\ m # 0
        /\ k \in 0 .. M - 1 /\ 0 \in 0 .. M - 1
    BY <1>0
  <1>3. (qhead' + k) % M = i
    BY <1>1, <1>2
  <1> HIDE DEF m
  <1>4. i \in 0 .. M - 1 /\ i # qhead
    BY <1>2, QueueSlots
  <1> HIDE DEF i
  <1>5. qbuf'[i] = qbuf[i]
    BY <1>4 DEF QueueTypeOK
  <1> QED
    BY <1>3, <1>5 DEF PacketAt, m, i

\* A packet that the budget has room for is charged in full: the sum does not wrap.
LEMMA Charged ==
    ASSUME BytesInv, QueueTypeOK, NEW s \in Sizes, Accepts(s)
    PROVE  /\ curBytes \in 0 .. MaxBytes
           /\ Plus(curBytes, s) = curBytes + s
           /\ curBytes + s \in 0 .. MaxBytes
  <1>0. /\ MaxBytes \in Nat /\ IntMax \in Nat /\ 2 * MaxBytes <= IntMax /\ qn \in Nat
        /\ s \in Nat /\ s <= MaxBytes
    BY QueueAssumption, BudgetFits DEF Accepts, QueueTypeOK
  <1>1. PICK t \in [0 .. qn -> 0 .. MaxBytes] : Totals(t)
    BY DEF BytesInv
  <1>2. qn \in 0 .. qn
    BY <1>0
  <1>3. curBytes \in 0 .. MaxBytes
    BY <1>1, <1>2 DEF Totals
  <1>4. Plus(curBytes, s) = curBytes + s
    BY <1>0, <1>3 DEF Plus
  <1> QED
    BY <1>0, <1>3, <1>4 DEF Accepts

\* Accepting a packet adds a total to the totals.
LEMMA PushKeepsTotals ==
    ASSUME BytesInv, QueueTypeOK, NEW s \in Sizes, Accepts(s), qn # MaxPackets,
           NEW x, x.bytes = s,
           qbuf' = [qbuf EXCEPT ![(qhead + qn) % MaxPackets] = x],
           qhead' = qhead, qn' = qn + 1, curBytes' = Plus(curBytes, s)
    PROVE  BytesInv'
  <1>1. PICK t \in [0 .. qn -> 0 .. MaxBytes] : Totals(t)
    BY DEF BytesInv
  <1>2. PICK l \in Nat : l = qn
    BY QueueAssumption DEF QueueTypeOK
  <1>3. /\ curBytes \in 0 .. MaxBytes /\ curBytes' = curBytes + s
        /\ curBytes + s \in 0 .. MaxBytes /\ s \in Nat /\ MaxBytes \in Nat
    BY Charged, QueueAssumption, BudgetFits
  <1>4. (\A k \in 0 .. l - 1 : PacketAt(k)' = PacketAt(k)) /\ PacketAt(l)' = x
    BY <1>2, Pushed
  <1>C. PICK c \in 0 .. MaxBytes : c = curBytes
    BY <1>3
  <1> DEFINE u == [k \in 0 .. l + 1 |-> IF k <= l THEN t[k] ELSE c + s]
  <1>5. /\ \A k \in 0 .. l : u[k] = t[k] /\ u[k] \in 0 .. MaxBytes
        /\ u[l + 1] = curBytes + s /\ u[l] = curBytes
    BY <1>1, <1>2, <1>C DEF Totals
  <1>6. u \in [0 .. l + 1 -> 0 .. MaxBytes]
    BY <1>1, <1>2, <1>3, <1>C
  <1> HIDE DEF u
  <1>7. u[0] = 0
    BY <1>1, <1>2, <1>5 DEF Totals
  <1>8. ASSUME NEW k \in 0 .. l PROVE u[k + 1] = u[k] + PacketAt(k)'.bytes
    <2>1. CASE k = l
      BY <1>4, <1>5, <2>1
    <2>2. CASE k # l
      <3>1. k \in 0 .. l - 1 /\ k + 1 \in 0 .. l
        BY <2>2
      <3> QED
        BY <1>1, <1>2, <1>4, <1>5, <3>1 DEF Totals
    <2> QED
      BY <2>1, <2>2
  <1>9. ASSUME NEW i \in 0 .. l + 1, NEW k \in 0 .. l + 1, i <= k PROVE u[i] <= u[k]
    <2>1. CASE k = l + 1
      <3>1. CASE i = l + 1
        BY <1>3, <1>5, <2>1, <3>1
      <3>2. CASE i # l + 1
        <4>1. i \in 0 .. l /\ l \in 0 .. l /\ i <= l
          BY <3>2
        <4>2. u[i] <= curBytes /\ u[i] \in 0 .. MaxBytes
          BY <1>1, <1>2, <1>5, <4>1 DEF Totals
        <4> QED
          BY <1>3, <1>5, <2>1, <4>2
      <3> QED
        BY <3>1, <3>2
    <2>2. CASE k # l + 1
      <3>1. i \in 0 .. l /\ k \in 0 .. l
        BY <1>9, <2>2
      <3> QED
        BY <1>1, <1>2, <1>5, <1>9, <3>1 DEF Totals
    <2> QED
      BY <2>1, <2>2
  <1>10. qn' = l + 1 /\ (l + 1) - 1 = l
    BY <1>2
  <1>11. Totals(u)'
    BY <1>3, <1>5, <1>7, <1>8, <1>9, <1>10 DEF Totals
  <1> QED
    BY <1>6, <1>10, <1>11 DEF BytesInv

\* Removing the first packet takes its size off every total.
LEMMA PopKeepsTotals ==
    ASSUME BytesInv, QueueTypeOK, qn # 0, NEW x,
           qbuf' = [qbuf EXCEPT ![qhead] = x], qhead' = (qhead + 1) % MaxPackets,
           qn' = qn - 1, curBytes' = curBytes - qbuf[qhead].bytes
    PROVE  BytesInv'
  <1>1. PICK t \in [0 .. qn -> 0 .. MaxBytes] : Totals(t)
    BY DEF BytesInv
  <1>2. PICK l \in Nat \ {0} : l = qn
    BY QueueAssumption DEF QueueTypeOK
  <1>3. MaxBytes \in Nat /\ \A k \in 0 .. l : t[k] \in 0 .. MaxBytes
    BY <1>1, <1>2, QueueAssumption
  <1>4. \A k \in 0 .. l - 2 : PacketAt(k)' = PacketAt(k + 1)
    BY <1>2, Popped
  <1>5. t[1] = qbuf[qhead].bytes
    <2>1. PacketAt(0) = qbuf[qhead]
      BY QueueSlots DEF PacketAt
    <2>2. 0 \in 0 .. l - 1 /\ 0 + 1 = 1
      BY <1>2
    <2>3. t[1] = t[0] + PacketAt(0).bytes /\ t[0] = 0
      BY <1>1, <1>2, <2>2 DEF Totals
    <2>4. t[1] \in Int /\ PacketAt(0).bytes \in Nat
      BY <1>2, <1>3, Sized, QueueAssumption
    <2> QED
      BY <2>1, <2>3, <2>4
  <1> DEFINE u == [k \in 0 .. l - 1 |-> t[k + 1] - t[1]]
  <1>6. \A k \in 0 .. l - 1 : u[k] = t[k + 1] - t[1]
    OBVIOUS
  <1>7. u \in [0 .. l - 1 -> 0 .. MaxBytes]
    <2> SUFFICES ASSUME NEW k \in 0 .. l - 1 PROVE t[k + 1] - t[1] \in 0 .. MaxBytes
      OBVIOUS
    <2>1. k + 1 \in 0 .. l /\ 1 \in 0 .. l /\ 1 <= k + 1
      BY <1>2
    <2>2. t[1] <= t[k + 1]
      BY <1>1, <1>2, <2>1 DEF Totals
    <2> QED
      BY <1>3, <2>1, <2>2
  <1> HIDE DEF u
  <1>8. u[0] = 0
    <2>1. 0 \in 0 .. l - 1 /\ 0 + 1 = 1 /\ 1 \in 0 .. l
      BY <1>2
    <2> QED
      BY <1>3, <1>6, <2>1
  <1>9. ASSUME NEW k \in 0 .. l - 2 PROVE u[k + 1] = u[k] + PacketAt(k)'.bytes
    <2> DEFINE m == k + 1
    <2>1. m \in 0 .. l - 1 /\ m \in 0 .. l /\ k \in 0 .. l - 1 /\ m + 1 \in 0 .. l /\ 1 \in 0 .. l
      BY <1>2
    <2>2. PacketAt(k)' = PacketAt(m)
      BY <1>4
    <2>3. u[k] = t[m] - t[1]
      BY <1>6, <2>1
    <2> HIDE DEF m
    <2>4. t[m + 1] = t[m] + PacketAt(m).bytes
      BY <1>1, <1>2, <2>1 DEF Totals
    <2>5. u[m] = t[m + 1] - t[1]
      BY <1>6, <2>1
    <2>6. PacketAt(m).bytes \in Nat
      <3>1. m \in 0 .. MaxPackets
        BY <1>2, <2>1, QueueAssumption DEF QueueTypeOK
      <3> QED
        BY <3>1, Sized
    <2>7. t[m] \in Int /\ t[m + 1] \in Int /\ t[1] \in Int
      BY <1>3, <2>1
    <2> QED
      BY <2>2, <2>3, <2>4, <2>5, <2>6, <2>7 DEF m
  <1>10. ASSUME NEW i \in 0 .. l - 1, NEW k \in 0 .. l - 1, i <= k PROVE u[i] <= u[k]
    <2>1. i + 1 \in 0 .. l /\ k + 1 \in 0 .. l /\ 1 \in 0 .. l /\ i + 1 <= k + 1
      BY <1>2, <1>10
    <2>2. t[i + 1] <= t[k + 1]
      BY <1>1, <1>2, <2>1 DEF Totals
    <2>3. t[i + 1] \in Int /\ t[k + 1] \in Int /\ t[1] \in Int
      BY <1>3, <2>1
    <2>4. u[i] = t[i + 1] - t[1] /\ u[k] = t[k + 1] - t[1]
      BY <1>6
    <2> QED
      BY <2>2, <2>3, <2>4
  <1>11. u[l - 1] = curBytes - t[1]
    <2>1. l - 1 \in 0 .. l - 1 /\ (l - 1) + 1 = l
      BY <1>2
    <2> QED
      BY <1>1, <1>2, <1>6, <2>1 DEF Totals
  <1>12. qn' = l - 1 /\ (l - 1) - 1 = l - 2
    BY <1>2
  <1>13. Totals(u)'
    BY <1>5, <1>8, <1>9, <1>10, <1>11, <1>12 DEF Totals
  <1> QED
    BY <1>7, <1>12, <1>13 DEF BytesInv

\* Every operation keeps the totals.
LEMMA BytesStep == QueueTypeOK /\ BytesInv /\ [QueueNext]_queueVars => BytesInv'
  <1> SUFFICES ASSUME QueueTypeOK, BytesInv, [QueueNext]_queueVars PROVE BytesInv'
    OBVIOUS
  <1>1. UNCHANGED <<queueRing, curBytes>> => BytesInv'
    BY DEF queueRing, BytesInv, Totals, PacketAt
  <1>2. ASSUME Remove PROVE BytesInv'
    <2>1. CASE qn = 0
      BY <1>1, <1>2, <2>1 DEF Remove, R!Pop, R!ring, queueRing
    <2>2. CASE qn # 0
      <3>1. /\ qbuf' = [qbuf EXCEPT ![qhead] = NoItem]
            /\ qhead' = (qhead + 1) % MaxPackets /\ qn' = qn - 1
            /\ curBytes' = curBytes - qbuf[qhead].bytes
        BY <1>2, <2>2 DEF Remove, R!Pop
      <3> QED
        BY <2>2, <3>1, PopKeepsTotals
    <2> QED
      BY <2>1, <2>2
  <1>3. ASSUME NEW s \in Sizes, Enqueue(s) PROVE BytesInv'
    <2>1. CASE Accepts(s)
      <3> DEFINE x == [bytes |-> s, at |-> qnow]
      <3>1. x.bytes = s
        OBVIOUS
      <3>2. R!Push(x) /\ ~R!Full /\ curBytes' = Plus(curBytes, s)
        BY <1>3, <2>1 DEF Enqueue, Accepts
      <3> HIDE DEF x
      <3>3. /\ qn # MaxPackets
            /\ qbuf' = [qbuf EXCEPT ![(qhead + qn) % MaxPackets] = x]
            /\ qhead' = qhead /\ qn' = qn + 1
        BY <3>2 DEF R!Push, R!Full, R!tail
      <3> QED
        BY <2>1, <3>1, <3>2, <3>3, PushKeepsTotals
    <2>2. CASE ~Accepts(s)
      BY <1>1, <1>3, <2>2 DEF Enqueue
    <2> QED
      BY <2>1, <2>2
  <1>4. CASE Dequeue \/ DropHead
    BY <1>2, <1>4 DEF Dequeue, DropHead
  <1>5. CASE QueuePeek
    BY <1>1, <1>5 DEF QueuePeek, R!Peek, R!ring, queueRing
  <1>6. CASE DropReturns \/ Tick \/ \E t \in Times : DropExpired(t)
    BY <1>1, <1>6 DEF DropReturns, Tick, DropExpired
  <1>7. CASE UNCHANGED queueVars
    BY <1>1, <1>7 DEF queueVars
  <1> QED
    BY <1>3, <1>4, <1>5, <1>6, <1>7 DEF QueueNext

\* For every capacity, budget and mix of sizes, the byte counter is the sum of the
\* sizes of the queued packets and within the budget, whatever was refused,
\* dequeued, dropped and expired, as long as twice the budget fits in an int.
THEOREM QueueBytesExact == QueueSpec => []BytesExact
  <1>1. QueueInit => BytesInv
    <2> SUFFICES ASSUME QueueInit PROVE BytesInv
      OBVIOUS
    <2> DEFINE t == [k \in 0 .. 0 |-> 0]
    <2>1. qn = 0 /\ curBytes = 0
      BY DEF QueueInit, R!Init
    <2>2. t \in [0 .. qn -> 0 .. MaxBytes]
      BY <2>1, QueueAssumption
    <2>3. Totals(t)
      BY <2>1 DEF Totals
    <2> QED
      BY <2>2, <2>3 DEF BytesInv
  <1>2. QueueTypeOK /\ BytesInv => BytesExact
    <2> SUFFICES ASSUME QueueTypeOK, BytesInv PROVE BytesExact
      OBVIOUS
    <2>1. PICK t \in [0 .. qn -> 0 .. MaxBytes] : Totals(t)
      BY DEF BytesInv
    <2>2. ASSUME NEW i \in 1 .. qn PROVE t[i] = t[i - 1] + R!Contents[i].bytes
      <3> DEFINE k == i - 1
      <3>1. k \in 0 .. qn - 1 /\ k + 1 = i
        BY QueueAssumption DEF QueueTypeOK
      <3>2. R!Contents[i] = PacketAt(k)
        BY DEF R!Contents, PacketAt
      <3> HIDE DEF k
      <3>3. t[k + 1] = t[k] + PacketAt(k).bytes
        BY <2>1, <3>1 DEF Totals
      <3> QED
        BY <3>1, <3>2, <3>3 DEF k
    <2> QED
      BY <2>1, <2>2 DEF BytesExact, Totals
  <1>3. QueueInv => QueueTypeOK
    BY DEF QueueInv
  <1> QED
    BY <1>1, <1>2, <1>3, BytesStep, QueueStarts, QueueStep, PTL DEF QueueSpec
===============================================================================
