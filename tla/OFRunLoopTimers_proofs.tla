----------------------- MODULE OFRunLoopTimers_proofs -----------------------
(***************************************************************************)
(* Theorems about OFRunLoopTimers, for any number of timers, threads,      *)
(* waiters and delays.                                                     *)
(***************************************************************************)
EXTENDS OFRunLoopTimers, SequenceTheorems, TLAPS

(* A thread that has yet to insert or to mark a timer has one in hand.     *)
Holding == \A t \in Threads :
              pc[t] \in {"mark", "setDate", "readd", "insert"} => hand[t] \in Timers

TypeInv == TypeOK /\ Holding

USE TimerAssumption

-----------------------------------------------------------------------------
(* What the operations on the queue make of it.                            *)
LEMMA InsertAtIs ==
    ASSUME NEW S, NEW q \in Seq(S), NEW t \in S, NEW i \in 1..Len(q) + 1
    PROVE  /\ InsertAt(q, i, t) \in Seq(S)
           /\ Len(InsertAt(q, i, t)) = Len(q) + 1
           /\ \A j \in 1..Len(q) + 1 :
                 InsertAt(q, i, t)[j] = IF j < i THEN q[j] ELSE IF j = i THEN t ELSE q[j - 1]
<1> DEFINE a == SubSeq(q, 1, i - 1)
           b == SubSeq(q, i, Len(q))
<1>1. Len(q) \in Nat /\ i \in Int /\ 1 \in Int /\ \A j \in 1..Len(q) : q[j] \in S
  BY LenProperties, ElementOfSeq
<1>2. /\ a \in Seq(S) /\ Len(a) = i - 1
      /\ \A j \in 1..i - 1 : a[j] = q[j]
  <2>1. i - 1 \in Int /\ \A j \in 1..i - 1 : q[j] \in S BY <1>1
  <2>2. /\ a \in Seq(S) /\ Len(a) = IF 1 <= i - 1 THEN i - 1 - 1 + 1 ELSE 0
        /\ \A j \in 1..i - 1 - 1 + 1 : a[j] = q[1 + j - 1]
    BY <1>1, <2>1, SubSeqProperties
  <2>3. i - 1 - 1 + 1 = i - 1 /\ (~(1 <= i - 1) => i - 1 = 0)
        /\ \A j \in 1..i - 1 : 1 + j - 1 = j
    BY <1>1
  <2> HIDE DEF a
  <2> QED BY <2>2, <2>3
<1>3. /\ b \in Seq(S) /\ Len(b) = Len(q) - i + 1
      /\ \A j \in 1..Len(q) - i + 1 : b[j] = q[i + j - 1]
  <2>1. Len(q) \in Int /\ \A j \in i..Len(q) : q[j] \in S BY <1>1
  <2>2. /\ b \in Seq(S) /\ Len(b) = IF i <= Len(q) THEN Len(q) - i + 1 ELSE 0
        /\ \A j \in 1..Len(q) - i + 1 : b[j] = q[i + j - 1]
    BY <1>1, <2>1, SubSeqProperties
  <2>3. ~(i <= Len(q)) => Len(q) - i + 1 = 0 BY <1>1
  <2> HIDE DEF b
  <2> QED BY <2>2, <2>3
<1>4. <<t>> \in Seq(S) /\ Len(<<t>>) = 1 /\ <<t>>[1] = t OBVIOUS
<1> HIDE DEF a, b
<1>5. /\ a \o <<t>> \in Seq(S) /\ Len(a \o <<t>>) = i
      /\ \A j \in 1..i : (a \o <<t>>)[j] = IF j < i THEN q[j] ELSE t
  BY <1>1, <1>2, <1>4
<1>6. /\ a \o <<t>> \o b \in Seq(S) /\ Len(a \o <<t>> \o b) = Len(q) + 1
      /\ \A j \in 1..Len(q) + 1 :
            (a \o <<t>> \o b)[j] = IF j < i THEN q[j] ELSE IF j = i THEN t ELSE q[j - 1]
  <2> DEFINE c == a \o <<t>>
  <2>1. c \in Seq(S) /\ Len(c) = i /\ \A j \in 1..i : c[j] = IF j < i THEN q[j] ELSE t
    BY <1>5
  <2> HIDE DEF c
  <2>2. c \o b \in Seq(S) /\ Len(c \o b) = Len(q) + 1
    <3>1. c \o b \in Seq(S) /\ Len(c \o b) = Len(c) + Len(b)
      BY <1>3, <2>1, ConcatProperties
    <3> QED BY <1>1, <1>3, <2>1, <3>1
  <2>3. ASSUME NEW j \in 1..Len(q) + 1
        PROVE  (c \o b)[j] = IF j < i THEN q[j] ELSE IF j = i THEN t ELSE q[j - 1]
    <3>1. CASE j <= i BY <1>1, <1>3, <2>1, <3>1
    <3>2. CASE ~(j <= i)
      <4>1. (c \o b)[j] = b[j - i] BY <1>1, <1>3, <2>1, <3>2
      <4>2. j - i \in 1..Len(q) - i + 1 /\ i + (j - i) - 1 = j - 1 BY <1>1, <3>2
      <4>3. b[j - i] = q[j - 1] BY <1>3, <4>2
      <4> QED BY <1>1, <3>2, <4>1, <4>3
    <3> QED BY <3>1, <3>2
  <2> QED BY <2>2, <2>3 DEF c
<1> QED BY <1>6 DEF InsertAt, a, b

LEMMA RemoveAtIs ==
    ASSUME NEW S, NEW q \in Seq(S), NEW i \in 1..Len(q)
    PROVE  /\ RemoveAt(q, i) \in Seq(S)
           /\ Len(RemoveAt(q, i)) = Len(q) - 1
           /\ \A j \in 1..Len(q) - 1 : RemoveAt(q, i)[j] = IF j < i THEN q[j] ELSE q[j + 1]
<1> DEFINE a == SubSeq(q, 1, i - 1)
           b == SubSeq(q, i + 1, Len(q))
<1>1. Len(q) \in Nat /\ i \in Int /\ 1 \in Int /\ \A j \in 1..Len(q) : q[j] \in S
  BY LenProperties, ElementOfSeq
<1>2. /\ a \in Seq(S) /\ Len(a) = i - 1
      /\ \A j \in 1..i - 1 : a[j] = q[j]
  <2>1. i - 1 \in Int /\ \A j \in 1..i - 1 : q[j] \in S BY <1>1
  <2>2. /\ a \in Seq(S) /\ Len(a) = IF 1 <= i - 1 THEN i - 1 - 1 + 1 ELSE 0
        /\ \A j \in 1..i - 1 - 1 + 1 : a[j] = q[1 + j - 1]
    BY <1>1, <2>1, SubSeqProperties
  <2>3. i - 1 - 1 + 1 = i - 1 /\ (~(1 <= i - 1) => i - 1 = 0)
        /\ \A j \in 1..i - 1 : 1 + j - 1 = j
    BY <1>1
  <2> HIDE DEF a
  <2> QED BY <2>2, <2>3
<1>3. /\ b \in Seq(S) /\ Len(b) = Len(q) - i
      /\ \A j \in 1..Len(q) - i : b[j] = q[i + j]
  <2>1. Len(q) \in Int /\ i + 1 \in Int /\ \A j \in i + 1..Len(q) : q[j] \in S BY <1>1
  <2>2. /\ b \in Seq(S) /\ Len(b) = IF i + 1 <= Len(q) THEN Len(q) - (i + 1) + 1 ELSE 0
        /\ \A j \in 1..Len(q) - (i + 1) + 1 : b[j] = q[i + 1 + j - 1]
    BY <1>1, <2>1, SubSeqProperties
  <2>3. Len(q) - (i + 1) + 1 = Len(q) - i /\ (~(i + 1 <= Len(q)) => Len(q) - i = 0)
        /\ \A j \in 1..Len(q) - i : i + 1 + j - 1 = i + j
    BY <1>1
  <2> HIDE DEF b
  <2> QED BY <2>2, <2>3
<1> HIDE DEF a, b
<1>4. a \o b \in Seq(S) /\ Len(a \o b) = Len(q) - 1
  <2>1. a \o b \in Seq(S) /\ Len(a \o b) = Len(a) + Len(b)
    BY <1>2, <1>3, ConcatProperties
  <2> QED BY <1>1, <1>2, <1>3, <2>1
<1>5. ASSUME NEW j \in 1..Len(q) - 1
      PROVE  (a \o b)[j] = IF j < i THEN q[j] ELSE q[j + 1]
  <2>1. CASE j < i BY <1>1, <1>2, <1>3, <2>1
  <2>2. CASE ~(j < i)
    <3>1. (a \o b)[j] = b[j - (i - 1)] BY <1>1, <1>2, <1>3, <2>2
    <3>2. j - (i - 1) \in 1..Len(q) - i /\ i + (j - (i - 1)) = j + 1 BY <1>1, <2>2
    <3>3. b[j - (i - 1)] = q[j + 1] BY <1>3, <3>2
    <3> QED BY <2>2, <3>1, <3>3
  <2> QED BY <2>1, <2>2
<1> QED BY <1>4, <1>5 DEF RemoveAt, a, b

LEMMA SetOfSeq ==
    ASSUME NEW S, NEW q \in Seq(S)
    PROVE  \A x : x \in ToSet(q) <=> \E i \in 1..Len(q) : q[i] = x
BY LenProperties DEF ToSet

(* In the order of dates, with no timer twice.                             *)
InOrder(q, date) == \A m, n \in 1..Len(q) :
                       m < n => q[m] # q[n] /\ date[q[m]] <= date[q[n]]

LEMMA InsertedType ==
    ASSUME NEW q \in Seq(Timers), NEW t \in Timers, NEW date, NEW r \in Inserted(q, t, date)
    PROVE  r \in Seq(Timers)
<1>1. PICK i \in 1..Len(q) + 1 : r = InsertAt(q, i, t) BY DEF Inserted
<1> QED BY <1>1, InsertAtIs

LEMMA InsertedInOrder ==
    ASSUME NEW q \in Seq(Timers), NEW t \in Timers, NEW date \in [Timers -> Nat],
           InOrder(q, date), t \notin ToSet(q), NEW r \in Inserted(q, t, date)
    PROVE  /\ r \in Seq(Timers) /\ InOrder(r, date)
           /\ \A x : x \in ToSet(r) <=> x \in ToSet(q) \/ x = t
<1>1. PICK i \in 1..Len(q) + 1 : /\ r = InsertAt(q, i, t)
                                 /\ i > 1 => date[q[i - 1]] <= date[t]
                                 /\ \A m \in i..Len(q) : date[q[m]] > date[t]
  BY DEF Inserted
<1>2. /\ r \in Seq(Timers) /\ Len(r) = Len(q) + 1
      /\ \A j \in 1..Len(q) + 1 : r[j] = IF j < i THEN q[j] ELSE IF j = i THEN t ELSE q[j - 1]
  <2>1. r = InsertAt(q, i, t) BY <1>1
  <2>2. /\ InsertAt(q, i, t) \in Seq(Timers)
        /\ Len(InsertAt(q, i, t)) = Len(q) + 1
        /\ \A j \in 1..Len(q) + 1 :
              InsertAt(q, i, t)[j] = IF j < i THEN q[j] ELSE IF j = i THEN t ELSE q[j - 1]
    BY InsertAtIs
  <2> QED BY <2>1, <2>2
<1>3. Len(q) \in Nat /\ i \in Int /\ \A j \in 1..Len(q) : q[j] \in Timers /\ q[j] # t /\ date[q[j]] \in Nat
  BY LenProperties, ElementOfSeq, SetOfSeq
<1>4. date[t] \in Nat OBVIOUS
<1>5. \A m \in 1..i - 1 : date[q[m]] <= date[t]
  <2> SUFFICES ASSUME NEW m \in 1..i - 1 PROVE date[q[m]] <= date[t]
    OBVIOUS
  <2>1. m = i - 1 \/ m < i - 1 BY <1>3
  <2>2. i - 1 \in 1..Len(q) /\ m \in 1..Len(q) /\ i > 1 BY <1>3
  <2>3. m < i - 1 => date[q[m]] <= date[q[i - 1]] BY <2>2 DEF InOrder
  <2>4. date[q[i - 1]] \in Nat /\ date[q[m]] \in Nat BY <1>3, <2>2
  <2>5. date[q[i - 1]] <= date[t] BY <1>1, <2>2
  <2>6. CASE m = i - 1 BY <2>5, <2>6
  <2>7. CASE m < i - 1 BY <1>4, <2>3, <2>4, <2>5, <2>7
  <2> QED BY <2>1, <2>6, <2>7
<1>6. InOrder(r, date)
  <2> SUFFICES ASSUME NEW m \in 1..Len(q) + 1, NEW n \in 1..Len(q) + 1, m < n
               PROVE  r[m] # r[n] /\ date[r[m]] <= date[r[n]]
    BY <1>2 DEF InOrder
  <2>1. CASE n < i
    <3>1. m \in 1..Len(q) /\ n \in 1..Len(q) /\ r[m] = q[m] /\ r[n] = q[n]
      BY <1>2, <1>3, <2>1
    <3> QED BY <3>1 DEF InOrder
  <2>2. CASE n = i
    <3>1. m \in 1..i - 1 /\ m \in 1..Len(q) /\ r[m] = q[m] /\ r[n] = t BY <1>2, <1>3, <2>2
    <3> QED BY <1>3, <1>5, <3>1
  <2>3. CASE n > i
    <3>1. n - 1 \in 1..Len(q) /\ n - 1 \in i..Len(q) /\ r[n] = q[n - 1] BY <1>2, <1>3, <2>3
    <3>2. CASE m < i
      <4>1. m \in 1..Len(q) /\ m < n - 1 /\ r[m] = q[m] BY <1>2, <1>3, <2>3, <3>2
      <4> QED BY <3>1, <4>1 DEF InOrder
    <3>3. CASE m = i
      <4>1. ~(m < i) /\ r[m] = t BY <1>2, <1>3, <3>3
      <4>2. date[q[n - 1]] > date[t] /\ date[q[n - 1]] \in Nat /\ q[n - 1] # t
        BY <1>1, <1>3, <3>1
      <4> QED BY <1>4, <3>1, <4>1, <4>2
    <3>4. CASE m > i
      <4>1. m - 1 \in 1..Len(q) /\ m - 1 < n - 1 /\ ~(m < i) /\ m # i BY <1>2, <1>3, <3>4
      <4>2. r[m] = q[m - 1] BY <1>2, <4>1
      <4> QED BY <3>1, <4>1, <4>2 DEF InOrder
    <3> QED BY <3>2, <3>3, <3>4
  <2> QED BY <2>1, <2>2, <2>3
<1>7. ASSUME NEW x PROVE x \in ToSet(r) <=> x \in ToSet(q) \/ x = t
  <2>1. ASSUME NEW j \in 1..Len(r) PROVE r[j] \in ToSet(q) \/ r[j] = t
    <3>1. CASE j < i
      <4>1. j \in 1..Len(q) /\ r[j] = q[j] BY <1>2, <1>3, <3>1
      <4> QED BY <4>1, SetOfSeq
    <3>2. CASE j = i BY <1>2, <3>2
    <3>3. CASE j > i
      <4>1. j - 1 \in 1..Len(q) /\ r[j] = q[j - 1] BY <1>2, <1>3, <3>3
      <4> QED BY <4>1, SetOfSeq
    <3> QED BY <3>1, <3>2, <3>3
  <2>2. ASSUME NEW j \in 1..Len(q) PROVE q[j] \in ToSet(r)
    <3>1. CASE j < i
      <4>1. j \in 1..Len(r) /\ r[j] = q[j] BY <1>2, <1>3, <3>1
      <4> QED BY <1>2, <4>1, SetOfSeq
    <3>2. CASE ~(j < i)
      <4>1. j + 1 \in 1..Len(q) + 1 /\ ~(j + 1 < i) /\ j + 1 # i /\ j + 1 - 1 = j
        BY <1>3, <3>2
      <4>2. j + 1 \in 1..Len(r) /\ r[j + 1] = q[j] BY <1>2, <4>1
      <4> QED BY <1>2, <4>2, SetOfSeq
    <3> QED BY <3>1, <3>2
  <2>3. t \in ToSet(r)
    <3>1. i \in 1..Len(r) /\ r[i] = t BY <1>2, <1>3
    <3> QED BY <1>2, <3>1, SetOfSeq
  <2>4. ASSUME x \in ToSet(r) PROVE x \in ToSet(q) \/ x = t
    <3>1. PICK j \in 1..Len(r) : r[j] = x BY <1>2, <2>4, SetOfSeq
    <3> QED BY <2>1, <3>1
  <2>5. ASSUME x \in ToSet(q) PROVE x \in ToSet(r)
    <3>1. PICK j \in 1..Len(q) : q[j] = x BY <2>5, SetOfSeq
    <3> QED BY <2>2, <3>1
  <2> QED BY <2>3, <2>4, <2>5
<1> QED BY <1>2, <1>6, <1>7

LEMMA RemovedType ==
    ASSUME NEW q \in Seq(Timers), NEW t, NEW r \in Removed(q, t)
    PROVE  r \in Seq(Timers)
<1>1. PICK i \in 1..Len(q) : r = RemoveAt(q, i) BY DEF Removed
<1> QED BY <1>1, RemoveAtIs

LEMMA RemovedInOrder ==
    ASSUME NEW q \in Seq(Timers), NEW t, NEW date, InOrder(q, date), NEW r \in Removed(q, t)
    PROVE  /\ r \in Seq(Timers) /\ InOrder(r, date)
           /\ \A x : x \in ToSet(r) => x \in ToSet(q) /\ x # t
<1>1. PICK i \in 1..Len(q) : r = RemoveAt(q, i) /\ q[i] = t BY DEF Removed
<1>2. /\ r \in Seq(Timers) /\ Len(r) = Len(q) - 1
      /\ \A j \in 1..Len(q) - 1 : r[j] = IF j < i THEN q[j] ELSE q[j + 1]
  BY <1>1, RemoveAtIs
<1>3. Len(q) \in Nat BY LenProperties
<1>4. ASSUME NEW j \in 1..Len(r)
      PROVE  \E k \in 1..Len(q) : k # i /\ r[j] = q[k] /\ k = IF j < i THEN j ELSE j + 1
  BY <1>2, <1>3
<1>5. InOrder(r, date)
  <2> SUFFICES ASSUME NEW m \in 1..Len(r), NEW n \in 1..Len(r), m < n
               PROVE  r[m] # r[n] /\ date[r[m]] <= date[r[n]]
    BY DEF InOrder
  <2>1. PICK k \in 1..Len(q) : r[m] = q[k] /\ k = IF m < i THEN m ELSE m + 1 BY <1>4
  <2>2. PICK l \in 1..Len(q) : r[n] = q[l] /\ l = IF n < i THEN n ELSE n + 1 BY <1>4
  <2>3. k < l BY <1>2, <1>3, <2>1, <2>2
  <2> QED BY <2>1, <2>2, <2>3 DEF InOrder
<1>6. ASSUME NEW x \in ToSet(r) PROVE x \in ToSet(q) /\ x # t
  <2>1. PICK j \in 1..Len(r) : r[j] = x BY <1>2, SetOfSeq
  <2>2. PICK k \in 1..Len(q) : k # i /\ r[j] = q[k] BY <1>4
  <2>3. k < i \/ i < k BY <1>3, <2>2
  <2>4. q[k] # q[i] BY <2>3 DEF InOrder
  <2> QED BY <1>1, <2>1, <2>2, <2>4, SetOfSeq
<1> QED BY <1>2, <1>5, <1>6

LEMMA TailInOrder ==
    ASSUME NEW q \in Seq(Timers), q # << >>, NEW date, InOrder(q, date)
    PROVE  /\ Tail(q) \in Seq(Timers) /\ InOrder(Tail(q), date) /\ Head(q) \in ToSet(q)
           /\ \A x : x \in ToSet(Tail(q)) => x \in ToSet(q) /\ x # Head(q)
<1>1. /\ Tail(q) \in Seq(Timers) /\ Len(Tail(q)) = Len(q) - 1
      /\ \A i \in 1..Len(Tail(q)) : Tail(q)[i] = q[i + 1]
  BY HeadTailProperties
<1>2. Len(q) \in Nat /\ Len(q) > 0 /\ Head(q) = q[1] BY LenProperties, EmptySeq
<1>3. \A i \in 1..Len(Tail(q)) : i + 1 \in 1..Len(q) /\ 1 < i + 1 /\ 1 \in 1..Len(q)
  BY <1>1, <1>2
<1>4. InOrder(Tail(q), date)
  <2> SUFFICES ASSUME NEW m \in 1..Len(Tail(q)), NEW n \in 1..Len(Tail(q)), m < n
               PROVE  Tail(q)[m] # Tail(q)[n] /\ date[Tail(q)[m]] <= date[Tail(q)[n]]
    BY DEF InOrder
  <2>1. m + 1 < n + 1 BY <1>1, <1>2
  <2> QED BY <1>1, <1>3, <2>1 DEF InOrder
<1>5. ASSUME NEW x \in ToSet(Tail(q)) PROVE x \in ToSet(q) /\ x # Head(q)
  <2>1. PICK i \in 1..Len(Tail(q)) : Tail(q)[i] = x BY <1>1, SetOfSeq
  <2>2. x = q[i + 1] /\ i + 1 \in 1..Len(q) BY <1>1, <1>3, <2>1
  <2>3. q[1] # q[i + 1] BY <1>3 DEF InOrder
  <2> QED BY <1>2, <2>2, <2>3, SetOfSeq
<1>6. Head(q) \in ToSet(q) BY <1>2, SetOfSeq
<1> QED BY <1>1, <1>4, <1>5, <1>6

-----------------------------------------------------------------------------
(* Types.                                                                  *)
LEMMA TypeKept == ASSUME TypeInv, UNCHANGED vars PROVE TypeInv'
BY DEF TypeInv, TypeOK, Holding, vars, Threads, Forever

LEMMA TypeAdd == ASSUME TypeInv, NEW t \in Threads, Add(t) PROVE TypeInv'
<1>1. PICK n \in unborn, d \in 0..MaxDelay :
         /\ unborn' = unborn \ {n}
         /\ hand' = [hand EXCEPT ![t] = n]
         /\ left' = [left EXCEPT ![n] = d]
         /\ owned' = [owned EXCEPT ![n] = TRUE]
         /\ queue' \in Inserted(queue, n, left')
  BY DEF Add
<1>2. n \in Timers /\ queue \in Seq(Timers) BY DEF TypeInv, TypeOK
<1>3. queue' \in Seq(Timers) BY <1>1, <1>2, InsertedType
<1>4. pc' = [pc EXCEPT ![t] = "mark"]
      /\ UNCHANGED <<cur, marked, valid, timeout, pipe, stop, done>>
  BY DEF Add, Goto
<1>5. TypeOK' BY <1>1, <1>2, <1>3, <1>4 DEF TypeInv, TypeOK
<1>6. Holding' BY <1>1, <1>2, <1>4 DEF TypeInv, TypeOK, Holding
<1> QED BY <1>5, <1>6 DEF TypeInv

LEMMA TypeReschedule ==
    ASSUME TypeInv, NEW t \in Threads, BeginReschedule(t) \/ SetDate(t) \/ Readd(t)
    PROVE  TypeInv'
<1>1. CASE BeginReschedule(t)
  <2>1. PICK n \in Rescheduled : /\ hand' = [hand EXCEPT ![t] = n]
                                 /\ IF marked[n] /\ n \in Queued
                                      THEN queue' \in Removed(queue, n)
                                      ELSE UNCHANGED queue
    BY <1>1 DEF BeginReschedule
  <2>2. n \in Timers /\ queue \in Seq(Timers) BY DEF TypeInv, TypeOK
  <2>3. queue' \in Seq(Timers) BY <2>1, <2>2, RemovedType
  <2>4. /\ pc' = [pc EXCEPT ![t] = "setDate"]
        /\ UNCHANGED <<cur, left, marked, valid, owned, unborn, timeout, pipe, stop, done>>
    BY <1>1 DEF BeginReschedule, Goto
  <2>5. TypeOK' BY <2>1, <2>2, <2>3, <2>4 DEF TypeInv, TypeOK
  <2>6. Holding' BY <2>1, <2>2, <2>4 DEF TypeInv, TypeOK, Holding
  <2> QED BY <2>5, <2>6 DEF TypeInv
<1>2. CASE SetDate(t)
  BY <1>2 DEF TypeInv, TypeOK, Holding, SetDate, Goto
<1>3. CASE Readd(t)
  <2>1. pc[t] = "readd" /\ hand[t] \in Timers /\ queue \in Seq(Timers)
    BY <1>3 DEF Readd, TypeInv, TypeOK, Holding
  <2>2. queue' \in Seq(Timers)
    BY <1>3, <2>1, InsertedType DEF Readd, InsertUnderMutex
  <2>3. UNCHANGED <<cur, left, marked, valid, owned, unborn, timeout, pipe, stop, done>>
    BY <1>3 DEF Readd
  <2>4. \/ pc' = [pc EXCEPT ![t] = "mark"] /\ hand' = hand
        \/ pc' = [pc EXCEPT ![t] = "idle"] /\ hand' = [hand EXCEPT ![t] = NoTimer]
    BY <1>3 DEF Readd, Goto
  <2>5. TypeOK' BY <2>2, <2>3, <2>4 DEF TypeInv, TypeOK
  <2>6. Holding' BY <2>1, <2>3, <2>4 DEF TypeInv, TypeOK, Holding
  <2> QED BY <2>5, <2>6 DEF TypeInv
<1> QED BY <1>1, <1>2, <1>3

LEMMA TypeOfThread ==
    ASSUME TypeInv, NEW t \in Threads,
           Mark(t) \/ CancelObserver(t) \/ Stop(t) \/ FindDone(t) \/ WaitUntilDone(t)
             \/ WakeForNoReason(t)
    PROVE  TypeInv'
<1>1. CASE Mark(t) BY <1>1 DEF TypeInv, TypeOK, Holding, Mark, Goto
<1>2. CASE CancelObserver(t) BY <1>2 DEF TypeInv, TypeOK, Holding, CancelObserver, Goto
<1>3. CASE Stop(t) BY <1>3 DEF TypeInv, TypeOK, Holding, Stop, Goto
<1>4. CASE FindDone(t) BY <1>4 DEF TypeInv, TypeOK, Holding, FindDone, Goto
<1>5. CASE WaitUntilDone(t) BY <1>5 DEF TypeInv, TypeOK, Holding, WaitUntilDone, Goto
<1>6. CASE WakeForNoReason(t) BY <1>6 DEF TypeInv, TypeOK, Holding, WakeForNoReason, Goto
<1> QED BY <1>1, <1>2, <1>3, <1>4, <1>5, <1>6

LEMMA TypeOfLoop == ASSUME TypeInv, LoopStep PROVE TypeInv'
<1>0. Loop \in Threads BY DEF Threads
<1>1. CASE Run \/ CheckStop \/ NoneDue
  BY <1>1 DEF TypeInv, TypeOK, Holding, Run, CheckStop, NoneDue, Goto
<1>2. CASE TakeDue
  <2>1. queue \in Seq(Timers) /\ queue # << >> BY <1>2 DEF TakeDue, TypeInv, TypeOK
  <2>2. Head(queue) \in Timers /\ Tail(queue) \in Seq(Timers) BY <2>1, HeadTailProperties
  <2> QED BY <1>2, <2>2 DEF TypeInv, TypeOK, Holding, TakeDue, Goto
<1>3. CASE NextTimer
  <2>1. queue \in Seq(Timers) BY DEF TypeInv, TypeOK
  <2>2. queue # << >> => Head(queue) \in Timers BY <2>1, HeadTailProperties
  <2>3. queue # << >> => left[Head(queue)] \in 0..MaxDelay BY <2>2 DEF TypeInv, TypeOK
  <2>4. timeout' \in 0..Forever BY <1>3, <2>3 DEF NextTimer, Forever
  <2> QED BY <1>3, <2>4 DEF TypeInv, TypeOK, Holding, NextTimer, Goto
<1>4. CASE Observe
  <2>1. pipe' \in 0..PipeSize BY <1>4 DEF TypeInv, TypeOK, Observe
  <2>2. /\ pc' = [pc EXCEPT ![Loop] = "check"]
        /\ UNCHANGED <<hand, cur, queue, left, marked, valid, owned, unborn, timeout,
                       stop, done>>
    BY <1>4 DEF Observe, Goto
  <2> QED BY <1>0, <2>1, <2>2 DEF TypeInv, TypeOK, Holding
<1>5. CASE Fire
  <2>1. CASE cur \in Repeating
    <3>1. PICK d \in 1..MaxDelay : left' = [left EXCEPT ![cur] = d]
      BY <1>5, <2>1 DEF Fire
    <3>2. /\ hand' = [hand EXCEPT ![Loop] = cur] /\ pc' = [pc EXCEPT ![Loop] = "insert"]
          /\ UNCHANGED <<valid, cur, queue, marked, owned, unborn, timeout, pipe, stop, done>>
          /\ cur \in Timers
      BY <1>5, <2>1 DEF Fire, Goto
    <3>3. TypeOK' BY <1>0, <3>1, <3>2 DEF TypeInv, TypeOK
    <3>4. Holding' BY <1>0, <3>2 DEF TypeInv, TypeOK, Holding
    <3> QED BY <3>3, <3>4 DEF TypeInv
  <2>2. CASE cur \notin Repeating
    <3>1. /\ pc' = [pc EXCEPT ![Loop] = "callback"]
          /\ valid' = [valid EXCEPT ![cur] = FALSE]
          /\ UNCHANGED <<left, hand, cur, queue, marked, owned, unborn, timeout, pipe, stop, done>>
      BY <1>5, <2>2 DEF Fire, Goto
    <3>2. TypeOK' BY <1>0, <3>1 DEF TypeInv, TypeOK
    <3>3. Holding' BY <1>0, <3>1 DEF TypeInv, TypeOK, Holding
    <3> QED BY <3>2, <3>3 DEF TypeInv
  <2> QED BY <2>1, <2>2
<1>6. CASE InsertAgain
  <2>1. hand[Loop] \in Timers /\ queue \in Seq(Timers)
    BY <1>0, <1>6 DEF InsertAgain, TypeInv, TypeOK, Holding
  <2>2. queue' \in Seq(Timers)
    BY <1>6, <2>1, InsertedType DEF InsertAgain, InsertUnderMutex
  <2> QED BY <1>6, <2>1, <2>2 DEF TypeInv, TypeOK, Holding, InsertAgain, Goto
<1>7. CASE Fired
  <2>1. PICK t \in Threads : /\ pc' \in {[pc EXCEPT ![Loop] = "check"],
                                         [pc EXCEPT ![Loop] = "check", ![t] = "idle"]}
                             /\ hand' \in {hand, [hand EXCEPT ![t] = NoTimer]}
                             /\ hand' # hand => pc'[t] = "idle"
    <3>1. CASE Waiting(cur) = {}
      BY <1>0, <1>7, <3>1 DEF Fired, Signal, Goto
    <3>2. ASSUME NEW t \in Waiting(cur), Woken(t)
          PROVE  /\ t \in Threads /\ pc' = [pc EXCEPT ![Loop] = "check", ![t] = "idle"]
                 /\ hand' = [hand EXCEPT ![t] = NoTimer] /\ pc'[t] = "idle"
      BY <3>2 DEF Waiting, Woken, Threads, TypeInv, TypeOK
    <3> QED BY <1>7, <3>1, <3>2 DEF Fired, Signal
  <2>2. done' \in [Waited -> BOOLEAN] /\ cur' \in Timers \cup {NoTimer}
    BY <1>7 DEF Fired, TypeInv, TypeOK
  <2>3. UNCHANGED <<queue, left, marked, valid, owned, unborn, timeout, pipe, stop>>
    BY <1>7 DEF Fired
  <2>4. TypeOK' BY <1>0, <2>1, <2>2, <2>3 DEF TypeInv, TypeOK
  <2>5. Holding' BY <1>0, <2>1 DEF TypeInv, TypeOK, Holding
  <2> QED BY <2>4, <2>5 DEF TypeInv
<1>8. CASE Mark(Loop) \/ CancelObserver(Loop) BY <1>0, <1>8, TypeOfThread
<1> QED BY <1>1, <1>2, <1>3, <1>4, <1>5, <1>6, <1>7, <1>8 DEF LoopStep

LEMMA TypeTick == ASSUME TypeInv, Tick PROVE TypeInv'
<1>1. /\ left' = [n \in Timers |-> IF left[n] > 0 THEN left[n] - 1 ELSE 0]
      /\ timeout' = IF timeout = Forever THEN Forever
                    ELSE IF timeout > 0 THEN timeout - 1 ELSE 0
      /\ UNCHANGED <<pc, hand, cur, queue, marked, valid, owned, unborn, pipe, stop, done>>
  BY DEF Tick
<1>2. left' \in [Timers -> 0..MaxDelay] BY <1>1 DEF TypeInv, TypeOK
<1>3. timeout' \in 0..Forever BY <1>1 DEF TypeInv, TypeOK, Forever
<1> QED BY <1>1, <1>2, <1>3 DEF TypeInv, TypeOK, Holding

LEMMA TypeNext == ASSUME TypeInv, [Next]_vars PROVE TypeInv'
<1>1. Loop \in Threads /\ \A t \in Others : t \in Threads BY DEF Threads
<1>2. CASE LoopStep BY <1>2, TypeOfLoop
<1>3. CASE Callback
  <2>1. CASE Add(Loop) BY <1>1, <2>1, TypeAdd
  <2>2. CASE Invalidate BY <2>2 DEF TypeInv, TypeOK, Holding, Invalidate
  <2> QED BY <1>3, <2>1, <2>2 DEF Callback
<1>4. CASE Tick BY <1>4, TypeTick
<1>5. ASSUME NEW t \in Others, Call(t) \/ Continue(t) PROVE TypeInv'
  BY <1>1, <1>5, TypeAdd, TypeReschedule, TypeOfThread DEF Call, Continue
<1>6. ASSUME NEW n \in Timers, Release(n) PROVE TypeInv'
  BY <1>6 DEF TypeInv, TypeOK, Holding, Release
<1>7. CASE UNCHANGED vars BY <1>7, TypeKept
<1> QED BY <1>2, <1>3, <1>4, <1>5, <1>6, <1>7 DEF Next

LEMMA TypeInit == ASSUME Init PROVE TypeInv
<1>1. pc \in [Threads -> {"idle"}] /\ hand \in [Threads -> {NoTimer}] BY DEF Init
<1>2. TypeOK
  <2>1. queue \in Seq(Timers) /\ timeout \in 0..Forever /\ pipe \in 0..PipeSize
    BY DEF Init, Forever
  <2>2. left \in [Timers -> 0..MaxDelay] BY DEF Init
  <2>3. /\ hand \in [Threads -> Timers \cup {NoTimer}] /\ cur \in Timers \cup {NoTimer}
        /\ marked \in [Timers -> BOOLEAN] /\ valid \in [Timers -> BOOLEAN]
        /\ done \in [Waited -> BOOLEAN] /\ owned \in [Timers -> BOOLEAN]
        /\ unborn \subseteq Timers /\ stop \in BOOLEAN
    BY DEF Init
  <2> QED BY <1>1, <2>1, <2>2, <2>3 DEF TypeOK
<1>3. Holding BY <1>1 DEF Holding
<1> QED BY <1>2, <1>3 DEF TypeInv

(* The types hold for any number of timers and threads: what is in the     *)
(* queue, in hand or being fired is a timer, a thread that is about to     *)
(* insert one has one, and neither the pipe nor a date leaves its bounds.  *)
THEOREM TypeCorrect == Spec => []TypeOK
<1>1. Init => TypeInv BY TypeInit
<1>2. TypeInv /\ [Next]_vars => TypeInv' BY TypeNext
<1>3. TypeInv => TypeOK BY DEF TypeInv
<1> QED BY <1>1, <1>2, <1>3, PTL DEF Spec

-----------------------------------------------------------------------------
(* What keeps the queue in order.  Timers that repeat are not rescheduled  *)
(* by other threads: the loop's own -[addTimer:] does not wait for a       *)
(* -[setFireDate:] in progress, and would queue such a timer again.        *)
Disjoint == Repeating \cap Rescheduled = {}

(* Nothing refers to a timer before it is created.                         *)
Born == /\ \A n \in unborn : n \notin Queued /\ n # cur /\ ~owned[n]
        /\ \A t \in Threads : hand[t] \notin unborn

(* -[setFireDate:] is synchronized on the timer.                           *)
Exclusive == \A s, t \in Others :
                s # t /\ hand[s] = hand[t] /\ hand[s] \in Timers
                   => pc[s] = "waiting" \/ pc[t] = "waiting"

(* A timer whose date another thread changes is not in the queue, and      *)
(* neither is one whose date the loop changes as it fires it.              *)
OutOfQueue ==
    /\ \A t \in Others : pc[t] \in {"setDate", "readd"}
                            => hand[t] \in Rescheduled /\ hand[t] \notin Queued
    /\ pc[Loop] \in {"fire", "insert"} /\ cur \in Repeating => cur \notin Queued
    /\ pc[Loop] = "insert" => cur \in Repeating /\ hand[Loop] = cur
    /\ pc[Loop] = "mark" /\ hand[Loop] = cur => cur \in Repeating

QueueInv == /\ TypeInv /\ Born /\ Exclusive /\ OutOfQueue
            /\ InOrder(queue, left) /\ QueuedIsMarked

LEMMA ThreadsAre == /\ Loop \in Threads /\ Loop \notin Others
                    /\ \A t \in Others : t \in Threads
BY DEF Threads

(* A step in which t comes to a place where it does nothing to the queue,  *)
(* after marking its timer if it was about to.                             *)
Calm(t) ==
    \/ hand'[t] = hand[t] /\ pc'[t] = pc[t]
    \/ /\ (hand'[t] = hand[t] /\ pc[t] # "waiting") \/ hand'[t] = NoTimer
       /\ pc'[t] \notin {"mark", "setDate", "readd", "insert", "fire"}
       /\ pc[t] = "mark" => marked'[hand[t]]

LEMMA CalmKeeps ==
    ASSUME QueueInv, TypeInv', UNCHANGED <<queue, left, unborn>>,
           \A n \in Queued : marked[n] => marked'[n],
           \A n \in Timers : owned'[n] => owned[n],
           \A t \in Threads : Calm(t),
           \/ cur' = cur
           \/ cur' = NoTimer /\ pc'[Loop] \notin {"fire", "insert", "mark"}
    PROVE  QueueInv'
<1>1. TypeInv /\ Born /\ Exclusive /\ OutOfQueue /\ InOrder(queue, left) /\ QueuedIsMarked
  BY DEF QueueInv
<1>2. unborn \subseteq Timers /\ Queued' = Queued BY <1>1 DEF TypeInv, TypeOK, Queued
<1>3. NoTimer \notin unborn BY <1>2
<1>4. Born'
  <2>1. \A n \in unborn' : n \notin Queued' /\ n # cur' /\ ~owned'[n]
    BY <1>1, <1>2, <1>3 DEF Born
  <2>2. \A t \in Threads : hand'[t] = hand[t] \/ hand'[t] = NoTimer BY DEF Calm
  <2>3. \A t \in Threads : hand'[t] \notin unborn' BY <1>1, <1>3, <2>2 DEF Born
  <2> QED BY <2>1, <2>3 DEF Born
<1>5. Exclusive'
  <2> SUFFICES ASSUME NEW s \in Others, NEW t \in Others, s # t,
                      hand'[s] = hand'[t], hand'[s] \in Timers
               PROVE  pc'[s] = "waiting" \/ pc'[t] = "waiting"
    BY DEF Exclusive
  <2>1. Calm(s) /\ Calm(t) BY ThreadsAre
  <2>2. hand'[s] # NoTimer /\ hand'[t] # NoTimer OBVIOUS
  <2>3. /\ hand[s] = hand'[s] /\ (pc[s] = "waiting" => pc'[s] = "waiting")
        /\ hand[t] = hand'[t] /\ (pc[t] = "waiting" => pc'[t] = "waiting")
    BY <2>1, <2>2 DEF Calm
  <2> QED BY <1>1, <2>3 DEF Exclusive
<1>6. OutOfQueue'
  <2>1. ASSUME NEW t \in Others, pc'[t] \in {"setDate", "readd"}
        PROVE  hand'[t] \in Rescheduled /\ hand'[t] \notin Queued'
    <3>1. Calm(t) BY ThreadsAre
    <3>2. hand'[t] = hand[t] /\ pc'[t] = pc[t] BY <2>1, <3>1 DEF Calm
    <3> QED BY <1>1, <1>2, <2>1, <3>2 DEF OutOfQueue
  <2>2. Calm(Loop) BY ThreadsAre
  <2>3. CASE pc'[Loop] \in {"fire", "insert", "mark"}
    <3>1. cur' = cur /\ hand'[Loop] = hand[Loop] /\ pc'[Loop] = pc[Loop]
      BY <2>2, <2>3 DEF Calm
    <3> QED BY <1>1, <1>2, <2>1, <3>1 DEF OutOfQueue
  <2>4. CASE pc'[Loop] \notin {"fire", "insert", "mark"}
    BY <2>1, <2>4 DEF OutOfQueue
  <2> QED BY <2>3, <2>4
<1>7. QueuedIsMarked'
  <2> SUFFICES ASSUME NEW n \in Queued
               PROVE  marked'[n] \/ \E t \in Threads : hand'[t] = n /\ pc'[t] = "mark"
    BY <1>2 DEF QueuedIsMarked
  <2>1. CASE marked[n] BY <2>1
  <2>2. CASE ~marked[n]
    <3>1. PICK t \in Threads : hand[t] = n /\ pc[t] = "mark" BY <1>1, <2>2 DEF QueuedIsMarked
    <3>2. Calm(t) OBVIOUS
    <3> QED BY <3>1, <3>2 DEF Calm
  <2> QED BY <2>1, <2>2
<1>8. InOrder(queue, left)' BY <1>1 DEF InOrder
<1> QED BY <1>4, <1>5, <1>6, <1>7, <1>8 DEF QueueInv

(* One thread moves.                                                       *)
LEMMA OneMoves ==
    ASSUME TypeInv, NEW t \in Threads, NEW l, pc' = [pc EXCEPT ![t] = l],
           NEW h, hand' = [hand EXCEPT ![t] = h]
    PROVE  /\ pc'[t] = l /\ hand'[t] = h
           /\ \A s \in Threads : s # t => pc'[s] = pc[s] /\ hand'[s] = hand[s]
BY DEF TypeInv, TypeOK

LEMMA OneGoes ==
    ASSUME TypeInv, NEW t \in Threads, NEW l, pc' = [pc EXCEPT ![t] = l], hand' = hand
    PROVE  /\ pc'[t] = l /\ hand'[t] = hand[t]
           /\ \A s \in Threads : s # t => pc'[s] = pc[s] /\ hand'[s] = hand[s]
BY DEF TypeInv, TypeOK

LEMMA CalmOfThread ==
    ASSUME QueueInv, TypeInv', NEW t \in Threads,
           Mark(t) \/ CancelObserver(t) \/ Stop(t) \/ FindDone(t) \/ WakeForNoReason(t)
    PROVE  QueueInv'
<1>1. TypeInv BY DEF QueueInv
<1>2. CASE Mark(t)
  <2>1. /\ pc[t] = "mark" /\ pc' = [pc EXCEPT ![t] = "cancel"] /\ hand' = hand
        /\ marked' = [marked EXCEPT ![hand[t]] = TRUE]
        /\ UNCHANGED <<queue, left, unborn, owned, cur>>
    BY <1>2 DEF Mark, Goto
  <2>2. hand[t] \in Timers /\ marked \in [Timers -> BOOLEAN] /\ queue \in Seq(Timers)
    BY <1>1, <2>1 DEF TypeInv, TypeOK, Holding
  <2>3. marked'[hand[t]] /\ \A n \in Timers : marked[n] => marked'[n] BY <2>1, <2>2
  <2>4. \A n \in Queued : n \in Timers BY <2>2, SetOfSeq, ElementOfSeq DEF Queued
  <2>5. \A s \in Threads : Calm(s) BY <1>1, <2>1, <2>3, OneGoes DEF Calm
  <2> QED BY <2>1, <2>3, <2>4, <2>5, CalmKeeps
<1>3. CASE CancelObserver(t)
  <2>1. /\ pc[t] = "cancel" /\ hand' = [hand EXCEPT ![t] = NoTimer]
        /\ UNCHANGED <<queue, left, unborn, owned, cur, marked>>
        /\ pc' = [pc EXCEPT ![t] = IF t = Loop THEN "callback" ELSE "idle"]
    BY <1>3 DEF CancelObserver, Goto
  <2>2. /\ pc'[t] = (IF t = Loop THEN "callback" ELSE "idle") /\ hand'[t] = NoTimer
        /\ \A s \in Threads : s # t => pc'[s] = pc[s] /\ hand'[s] = hand[s]
    BY <1>1, <2>1, OneMoves
  <2>3. \A s \in Threads : Calm(s) BY <2>1, <2>2 DEF Calm
  <2> QED BY <2>1, <2>3, CalmKeeps
<1>4. CASE Stop(t)
  <2>1. /\ pc[t] = "idle" /\ UNCHANGED <<queue, left, unborn, owned, cur, marked, hand>>
        /\ pc' = [pc EXCEPT ![t] = "cancel"]
    BY <1>4 DEF Stop, Goto
  <2>2. \A s \in Threads : Calm(s) BY <1>1, <2>1, OneGoes DEF Calm
  <2> QED BY <2>1, <2>2, CalmKeeps
<1>5. CASE FindDone(t)
  <2>1. UNCHANGED <<queue, left, unborn, owned, cur, marked, hand, pc>> BY <1>5 DEF FindDone
  <2>2. \A s \in Threads : Calm(s) BY <2>1 DEF Calm
  <2> QED BY <2>1, <2>2, CalmKeeps
<1>6. CASE WakeForNoReason(t)
  <2>1. /\ pc[t] = "waiting" /\ UNCHANGED <<queue, left, unborn, owned, cur, marked>>
        /\ pc' = [pc EXCEPT ![t] = "idle"] /\ hand' = [hand EXCEPT ![t] = NoTimer]
    BY <1>6 DEF WakeForNoReason, Goto
  <2>2. /\ pc'[t] = "idle" /\ hand'[t] = NoTimer
        /\ \A s \in Threads : s # t => pc'[s] = pc[s] /\ hand'[s] = hand[s]
    BY <1>1, <2>1, OneMoves
  <2>3. \A s \in Threads : Calm(s) BY <2>1, <2>2 DEF Calm
  <2> QED BY <2>1, <2>3, CalmKeeps
<1> QED BY <1>2, <1>3, <1>4, <1>5, <1>6

LEMMA CalmOfLoop ==
    ASSUME QueueInv, TypeInv', Run \/ CheckStop \/ NoneDue \/ NextTimer \/ Observe
    PROVE  QueueInv'
<1>1. TypeInv BY DEF QueueInv
<1>2. PICK l \in {"check", "done", "scan", "next", "observe"} :
         /\ pc' = [pc EXCEPT ![Loop] = l] /\ UNCHANGED hand
         /\ pc[Loop] \notin {"mark", "waiting"}
         /\ UNCHANGED <<queue, left, unborn, owned, cur, marked>>
  BY DEF Run, CheckStop, NoneDue, NextTimer, Observe, Goto
<1>3. /\ pc'[Loop] = l /\ hand'[Loop] = hand[Loop]
      /\ \A s \in Threads : s # Loop => pc'[s] = pc[s] /\ hand'[s] = hand[s]
  BY <1>1, <1>2, ThreadsAre, OneGoes
<1>4. \A s \in Threads : Calm(s) BY <1>2, <1>3 DEF Calm
<1> QED BY <1>2, <1>4, CalmKeeps

LEMMA FiredKeeps == ASSUME QueueInv, TypeInv', Fired PROVE QueueInv'
<1>1. TypeInv /\ pc[Loop] = "callback" /\ cur' = NoTimer
      /\ UNCHANGED <<queue, left, unborn, owned, marked>>
  BY DEF QueueInv, Fired
<1>2. CASE Waiting(cur) = {}
  <2>1. pc' = [pc EXCEPT ![Loop] = "check"] /\ hand' = hand
    BY <1>2 DEF Fired, Signal, Goto
  <2>2. /\ pc'[Loop] = "check" /\ hand'[Loop] = hand[Loop]
        /\ \A s \in Threads : s # Loop => pc'[s] = pc[s] /\ hand'[s] = hand[s]
    BY <1>1, <2>1, ThreadsAre, OneGoes
  <2>3. \A s \in Threads : Calm(s) BY <1>1, <2>2 DEF Calm
  <2> QED BY <1>1, <2>2, <2>3, CalmKeeps
<1>3. ASSUME NEW t \in Waiting(cur), Woken(t) PROVE QueueInv'
  <2>1. /\ t \in Threads /\ t # Loop /\ pc[t] = "waiting"
        /\ pc' = [pc EXCEPT ![Loop] = "check", ![t] = "idle"]
        /\ hand' = [hand EXCEPT ![t] = NoTimer]
    BY <1>3, ThreadsAre DEF Waiting, Woken
  <2>2. /\ pc'[Loop] = "check" /\ pc'[t] = "idle" /\ hand'[t] = NoTimer
        /\ hand'[Loop] = hand[Loop]
        /\ \A s \in Threads : s # Loop /\ s # t => pc'[s] = pc[s] /\ hand'[s] = hand[s]
    BY <1>1, <2>1, ThreadsAre DEF TypeInv, TypeOK
  <2>3. \A s \in Threads : Calm(s) BY <1>1, <2>1, <2>2 DEF Calm
  <2> QED BY <1>1, <2>2, <2>3, CalmKeeps
<1> QED BY <1>2, <1>3 DEF Fired, Signal

LEMMA OtherDates ==
    ASSUME NEW q \in Seq(Timers), NEW d, InOrder(q, d),
           NEW e, \A x \in ToSet(q) : e[x] = d[x]
    PROVE  InOrder(q, e)
<1>1. \A m \in 1..Len(q) : e[q[m]] = d[q[m]] BY SetOfSeq
<1> QED BY <1>1 DEF InOrder

LEMMA AddKeeps == ASSUME QueueInv, TypeInv', NEW t \in Threads, Add(t) PROVE QueueInv'
<1>1. PICK n \in unborn, d \in 0..MaxDelay :
         /\ unborn' = unborn \ {n}
         /\ hand' = [hand EXCEPT ![t] = n]
         /\ left' = [left EXCEPT ![n] = d]
         /\ owned' = [owned EXCEPT ![n] = TRUE]
         /\ queue' \in Inserted(queue, n, left')
  BY DEF Add
<1>2. /\ pc' = [pc EXCEPT ![t] = "mark"] /\ UNCHANGED <<cur, marked>>
      /\ pc[t] \notin {"mark", "setDate", "readd", "waiting"}
  BY DEF Add, Goto
<1>3. TypeInv /\ Born /\ Exclusive /\ OutOfQueue /\ InOrder(queue, left) /\ QueuedIsMarked
  BY DEF QueueInv
<1>4. n \in Timers /\ queue \in Seq(Timers) /\ left' \in [Timers -> Nat]
  BY <1>3 DEF TypeInv, TypeOK
<1>5. n \notin Queued /\ n # cur /\ (\A s \in Threads : hand[s] # n) BY <1>3 DEF Born
<1>6. /\ pc'[t] = "mark" /\ hand'[t] = n
      /\ \A s \in Threads : s # t => pc'[s] = pc[s] /\ hand'[s] = hand[s]
  BY <1>1, <1>2, <1>3, OneMoves
<1>7. InOrder(queue, left')
  <2>1. \A x \in ToSet(queue) : x \in Timers /\ x # n
    BY <1>4, <1>5, SetOfSeq, ElementOfSeq DEF Queued
  <2>2. \A x \in ToSet(queue) : left'[x] = left[x]
    BY <1>1, <1>3, <2>1 DEF TypeInv, TypeOK
  <2> QED BY <1>3, <1>4, <2>2, OtherDates
<1>8. InOrder(queue', left') /\ \A x : x \in ToSet(queue') <=> x \in ToSet(queue) \/ x = n
  <2>1. queue' \in Inserted(queue, n, left') BY <1>1
  <2>2. n \notin ToSet(queue) BY <1>5 DEF Queued
  <2> QED BY <1>4, <1>7, <2>1, <2>2, InsertedInOrder
<1>9. \A x : x \in Queued' <=> x \in Queued \/ x = n BY <1>8 DEF Queued
<1>10. Born'
  <2>1. \A x \in unborn' : x \notin Queued' /\ x # cur' /\ ~owned'[x]
    BY <1>1, <1>2, <1>3, <1>9 DEF Born, TypeInv, TypeOK
  <2>2. \A s \in Threads : hand'[s] \notin unborn' BY <1>1, <1>3, <1>6 DEF Born
  <2> QED BY <2>1, <2>2 DEF Born
<1>11. Exclusive'
  <2> SUFFICES ASSUME NEW r \in Others, NEW s \in Others, r # s,
                      hand'[r] = hand'[s], hand'[r] \in Timers
               PROVE  pc'[r] = "waiting" \/ pc'[s] = "waiting"
    BY DEF Exclusive
  <2>1. r # t /\ s # t BY <1>5, <1>6, ThreadsAre
  <2> QED BY <1>3, <1>6, <2>1, ThreadsAre DEF Exclusive
<1>12. OutOfQueue'
  <2>1. ASSUME NEW s \in Others, pc'[s] \in {"setDate", "readd"}
        PROVE  hand'[s] \in Rescheduled /\ hand'[s] \notin Queued'
    <3>1. s # t /\ s \in Threads BY <1>6, <2>1, ThreadsAre
    <3> QED BY <1>3, <1>5, <1>6, <1>9, <2>1, <3>1 DEF OutOfQueue
  <2>2. CASE t = Loop
    BY <1>2, <1>5, <1>6, <2>1, <2>2 DEF OutOfQueue
  <2>3. CASE t # Loop
    <3>1. pc'[Loop] = pc[Loop] /\ hand'[Loop] = hand[Loop] BY <1>6, <2>3, ThreadsAre
    <3> QED BY <1>2, <1>3, <1>5, <1>9, <2>1, <3>1 DEF OutOfQueue
  <2> QED BY <2>2, <2>3
<1>13. QueuedIsMarked'
  <2> SUFFICES ASSUME NEW x \in Queued'
               PROVE  marked'[x] \/ \E s \in Threads : hand'[s] = x /\ pc'[s] = "mark"
    BY DEF QueuedIsMarked
  <2>1. CASE x = n BY <1>6, <2>1
  <2>2. CASE x \in Queued BY <1>2, <1>3, <1>6, <2>2 DEF QueuedIsMarked
  <2> QED BY <1>9, <2>1, <2>2
<1> QED BY <1>8, <1>10, <1>11, <1>12, <1>13 DEF QueueInv

(* A thread inserts the timer it has in hand, under the mutex.             *)
LEMMA InsertKeeps ==
    ASSUME QueueInv, TypeInv', NEW t \in Threads, hand[t] \in Timers,
           hand[t] \notin Queued, InsertUnderMutex(t, left),
           pc[t] \notin {"mark", "waiting"}, Goto(t, "mark"),
           UNCHANGED <<hand, cur, left, marked, owned, unborn>>,
           \A s \in Others : s # t /\ pc[s] \in {"setDate", "readd"} => hand[s] # hand[t],
           t # Loop => hand[t] \notin Repeating,
           t = Loop => hand[t] \in Repeating
    PROVE  QueueInv'
<1>1. TypeInv /\ Born /\ Exclusive /\ OutOfQueue /\ InOrder(queue, left) /\ QueuedIsMarked
  BY DEF QueueInv
<1>2. queue \in Seq(Timers) /\ left \in [Timers -> Nat] BY <1>1 DEF TypeInv, TypeOK
<1>3. queue' \in Inserted(queue, hand[t], left) BY DEF InsertUnderMutex
<1>4. /\ InOrder(queue', left)
      /\ \A x : x \in ToSet(queue') <=> x \in ToSet(queue) \/ x = hand[t]
  <2>1. InOrder(queue, left) BY <1>1
  <2>2. hand[t] \notin ToSet(queue) BY DEF Queued
  <2> QED BY <1>2, <1>3, <2>1, <2>2, InsertedInOrder
<1>5. \A x : x \in Queued' <=> x \in Queued \/ x = hand[t] BY <1>4 DEF Queued
<1>6. /\ pc'[t] = "mark" /\ \A s \in Threads : s # t => pc'[s] = pc[s]
      /\ \A s \in Threads : hand'[s] = hand[s]
  BY <1>1, OneGoes DEF Goto
<1>7. Born' BY <1>1, <1>5, <1>6 DEF Born
<1>8. Exclusive'
  <2> SUFFICES ASSUME NEW r \in Others, NEW s \in Others, r # s,
                      hand'[r] = hand'[s], hand'[r] \in Timers
               PROVE  pc'[r] = "waiting" \/ pc'[s] = "waiting"
    BY DEF Exclusive
  <2>1. pc[r] = "waiting" \/ pc[s] = "waiting" BY <1>1 DEF Exclusive
  <2> QED BY <1>6, <2>1, ThreadsAre
<1>9. OutOfQueue'
  <2>1. ASSUME NEW s \in Others, pc'[s] \in {"setDate", "readd"}
        PROVE  hand'[s] \in Rescheduled /\ hand'[s] \notin Queued'
    <3>1. s # t /\ s \in Threads BY <1>6, <2>1, ThreadsAre
    <3>2. pc[s] \in {"setDate", "readd"} BY <1>6, <2>1, <3>1
    <3> QED BY <1>1, <1>5, <1>6, <3>1, <3>2 DEF OutOfQueue
  <2>2. CASE t = Loop BY <1>6, <2>1, <2>2 DEF OutOfQueue
  <2>3. CASE t # Loop
    <3>1. pc'[Loop] = pc[Loop] /\ hand'[Loop] = hand[Loop] BY <1>6, <2>3, ThreadsAre
    <3> QED BY <1>1, <1>5, <2>1, <2>3, <3>1 DEF OutOfQueue
  <2> QED BY <2>2, <2>3
<1>10. QueuedIsMarked'
  <2> SUFFICES ASSUME NEW x \in Queued'
               PROVE  marked'[x] \/ \E s \in Threads : hand'[s] = x /\ pc'[s] = "mark"
    BY DEF QueuedIsMarked
  <2>1. CASE x = hand[t] BY <1>6, <2>1
  <2>2. CASE x \in Queued BY <1>1, <1>6, <2>2 DEF QueuedIsMarked
  <2> QED BY <1>5, <2>1, <2>2
<1>11. InOrder(queue, left)' BY <1>4
<1> QED BY <1>7, <1>8, <1>9, <1>10, <1>11 DEF QueueInv

LEMMA RescheduleKeeps ==
    ASSUME Disjoint, QueueInv, TypeInv', NEW t \in Threads, BeginReschedule(t)
    PROVE  QueueInv'
<1>1. PICK n \in Rescheduled : /\ Known(n)
                               /\ hand' = [hand EXCEPT ![t] = n]
                               /\ IF marked[n] /\ n \in Queued
                                    THEN queue' \in Removed(queue, n)
                                    ELSE UNCHANGED queue
  BY DEF BeginReschedule
<1>2. /\ pc[t] = "idle" /\ t \in Others /\ pc' = [pc EXCEPT ![t] = "setDate"]
      /\ UNCHANGED <<cur, left, marked, owned, unborn>>
  BY DEF BeginReschedule, Goto
<1>3. TypeInv /\ Born /\ Exclusive /\ OutOfQueue /\ InOrder(queue, left) /\ QueuedIsMarked
  BY DEF QueueInv
<1>4. n \in Timers /\ queue \in Seq(Timers) BY <1>3 DEF TypeInv, TypeOK
<1>5. /\ pc'[t] = "setDate" /\ hand'[t] = n
      /\ \A s \in Threads : s # t => pc'[s] = pc[s] /\ hand'[s] = hand[s]
  BY <1>1, <1>2, <1>3, OneMoves
<1>6. t # Loop BY <1>2, ThreadsAre
<1>7. /\ InOrder(queue', left)
      /\ \A x \in Queued' : x \in Queued /\ x # n
  <2>1. CASE marked[n] /\ n \in Queued
    BY <1>1, <1>3, <1>4, <2>1, RemovedInOrder DEF Queued
  <2>2. CASE ~(marked[n] /\ n \in Queued)
    <3>1. queue' = queue /\ Queued' = Queued BY <1>1, <2>2 DEF Queued
    <3>2. ASSUME n \in Queued PROVE FALSE
      <4>1. PICK s \in Threads : hand[s] = n /\ pc[s] = "mark"
        BY <1>3, <2>2, <3>2 DEF QueuedIsMarked
      <4>2. CASE s \in Others BY <1>1, <4>1, <4>2 DEF Known
      <4>3. CASE s = Loop
        <5>1. cur = n BY <1>1, <4>1, <4>3 DEF Known
        <5>2. n \in Repeating BY <1>3, <4>1, <4>3, <5>1 DEF OutOfQueue
        <5> QED BY <5>2 DEF Disjoint
      <4> QED BY <4>2, <4>3 DEF Threads
    <3> QED BY <1>3, <3>1, <3>2
  <2> QED BY <2>1, <2>2
<1>8. n \notin unborn BY <1>1, <1>3 DEF Known, Born
<1>9. Born'
  <2>1. \A x \in unborn' : x \notin Queued' /\ x # cur' /\ ~owned'[x]
    BY <1>2, <1>3, <1>7 DEF Born
  <2>2. \A s \in Threads : hand'[s] \notin unborn' BY <1>2, <1>3, <1>5, <1>8 DEF Born
  <2> QED BY <2>1, <2>2 DEF Born
<1>10. Exclusive'
  <2> SUFFICES ASSUME NEW r \in Others, NEW s \in Others, r # s,
                      hand'[r] = hand'[s], hand'[r] \in Timers
               PROVE  pc'[r] = "waiting" \/ pc'[s] = "waiting"
    BY DEF Exclusive
  <2>1. r \in Threads /\ s \in Threads BY ThreadsAre
  <2>2. CASE r = t
    <3>1. hand[s] = n /\ pc'[s] = pc[s] BY <1>5, <2>1, <2>2
    <3> QED BY <1>1, <3>1 DEF Known
  <2>3. CASE s = t
    <3>1. hand[r] = n /\ pc'[r] = pc[r] BY <1>5, <2>1, <2>3
    <3> QED BY <1>1, <3>1 DEF Known
  <2>4. CASE r # t /\ s # t BY <1>3, <1>5, <2>1, <2>4 DEF Exclusive
  <2> QED BY <2>2, <2>3, <2>4
<1>11. OutOfQueue'
  <2>1. ASSUME NEW s \in Others, pc'[s] \in {"setDate", "readd"}
        PROVE  hand'[s] \in Rescheduled /\ hand'[s] \notin Queued'
    <3>1. CASE s = t BY <1>5, <1>7, <3>1
    <3>2. CASE s # t BY <1>3, <1>5, <1>7, <2>1, <3>2, ThreadsAre DEF OutOfQueue
    <3> QED BY <3>1, <3>2
  <2>2. pc'[Loop] = pc[Loop] /\ hand'[Loop] = hand[Loop] BY <1>5, <1>6, ThreadsAre
  <2> QED BY <1>2, <1>3, <1>7, <2>1, <2>2 DEF OutOfQueue
<1>12. QueuedIsMarked'
  <2> SUFFICES ASSUME NEW x \in Queued'
               PROVE  marked'[x] \/ \E s \in Threads : hand'[s] = x /\ pc'[s] = "mark"
    BY DEF QueuedIsMarked
  <2>1. x \in Queued BY <1>7
  <2>2. CASE marked[x] BY <1>2, <2>2
  <2>3. CASE ~marked[x]
    <3>1. PICK s \in Threads : hand[s] = x /\ pc[s] = "mark"
      BY <1>3, <2>1, <2>3 DEF QueuedIsMarked
    <3>2. s # t BY <1>2, <3>1
    <3> QED BY <1>5, <3>1, <3>2
  <2> QED BY <2>2, <2>3
<1>13. InOrder(queue, left)' BY <1>2, <1>7
<1> QED BY <1>9, <1>10, <1>11, <1>12, <1>13 DEF QueueInv

(* Where no date of a queued timer changes, and the queue does not either. *)
LEMMA DatesKeep ==
    ASSUME QueueInv, UNCHANGED <<queue, cur, marked, owned, unborn>>,
           NEW n \in Timers, n \notin Queued, NEW d, left' = [left EXCEPT ![n] = d]
    PROVE  InOrder(queue, left)'
<1>1. queue \in Seq(Timers) /\ left \in [Timers -> 0..MaxDelay] /\ InOrder(queue, left)
  BY DEF QueueInv, TypeInv, TypeOK
<1>2. \A x \in ToSet(queue) : x \in Timers /\ x # n
  BY <1>1, SetOfSeq, ElementOfSeq DEF Queued
<1>3. \A x \in ToSet(queue) : left'[x] = left[x] BY <1>1, <1>2
<1>4. \A m \in 1..Len(queue) : left'[queue[m]] = left[queue[m]] BY <1>1, <1>3, SetOfSeq
<1> QED BY <1>1, <1>4 DEF InOrder

LEMMA SetDateKeeps ==
    ASSUME QueueInv, TypeInv', NEW t \in Others, SetDate(t) PROVE QueueInv'
<1>1. PICK d \in 0..MaxDelay : left' = [left EXCEPT ![hand[t]] = d] BY DEF SetDate
<1>2. /\ pc[t] = "setDate" /\ pc' = [pc EXCEPT ![t] = "readd"] /\ hand' = hand
      /\ UNCHANGED <<queue, cur, marked, owned, unborn>>
  BY DEF SetDate, Goto
<1>3. TypeInv /\ Born /\ Exclusive /\ OutOfQueue /\ InOrder(queue, left) /\ QueuedIsMarked
  BY DEF QueueInv
<1>4. t \in Threads /\ t # Loop BY ThreadsAre
<1>5. /\ pc'[t] = "readd" /\ \A s \in Threads : s # t => pc'[s] = pc[s]
      /\ \A s \in Threads : hand'[s] = hand[s]
  BY <1>2, <1>3, <1>4, OneGoes
<1>6. hand[t] \in Timers /\ hand[t] \notin Queued /\ Queued' = Queued
  BY <1>2, <1>3, <1>4 DEF OutOfQueue, TypeInv, Holding, Queued
<1>7. InOrder(queue, left)' BY <1>1, <1>2, <1>4, <1>6, DatesKeep
<1>8. Born' BY <1>2, <1>3, <1>6 DEF Born
<1>9. Exclusive'
  <2> SUFFICES ASSUME NEW r \in Others, NEW s \in Others, r # s,
                      hand'[r] = hand'[s], hand'[r] \in Timers
               PROVE  pc'[r] = "waiting" \/ pc'[s] = "waiting"
    BY DEF Exclusive
  <2>1. pc[r] = "waiting" \/ pc[s] = "waiting" BY <1>2, <1>3 DEF Exclusive
  <2> QED BY <1>2, <1>5, <2>1, ThreadsAre
<1>10. OutOfQueue'
  <2>1. ASSUME NEW s \in Others, pc'[s] \in {"setDate", "readd"}
        PROVE  hand'[s] \in Rescheduled /\ hand'[s] \notin Queued'
    <3>1. pc[s] \in {"setDate", "readd"} BY <1>2, <1>5, <2>1, ThreadsAre
    <3> QED BY <1>2, <1>3, <1>6, <3>1 DEF OutOfQueue
  <2>2. pc'[Loop] = pc[Loop] /\ hand'[Loop] = hand[Loop] BY <1>4, <1>5, ThreadsAre
  <2> QED BY <1>2, <1>3, <1>6, <2>1, <2>2 DEF OutOfQueue
<1>11. QueuedIsMarked'
  <2> SUFFICES ASSUME NEW x \in Queued
               PROVE  marked'[x] \/ \E s \in Threads : hand'[s] = x /\ pc'[s] = "mark"
    BY <1>6 DEF QueuedIsMarked
  <2>1. CASE marked[x] BY <1>2, <2>1
  <2>2. CASE ~marked[x]
    <3>1. PICK s \in Threads : hand[s] = x /\ pc[s] = "mark" BY <1>3, <2>2 DEF QueuedIsMarked
    <3>2. s # t BY <1>2, <3>1
    <3> QED BY <1>2, <1>5, <3>1, <3>2
  <2> QED BY <2>1, <2>2
<1> QED BY <1>7, <1>8, <1>9, <1>10, <1>11 DEF QueueInv

LEMMA ReaddKeeps ==
    ASSUME Disjoint, QueueInv, TypeInv', NEW t \in Others, Readd(t) PROVE QueueInv'
<1>1. /\ pc[t] = "readd" /\ UNCHANGED <<cur, left, marked, owned, unborn>>
  BY DEF Readd
<1>2. TypeInv /\ Exclusive /\ OutOfQueue /\ t \in Threads /\ t # Loop
  BY ThreadsAre DEF QueueInv
<1>3. hand[t] \in Timers /\ hand[t] \in Rescheduled /\ hand[t] \notin Queued
  BY <1>1, <1>2 DEF OutOfQueue, TypeInv, Holding
<1>4. CASE marked[hand[t]]
  <2>1. InsertUnderMutex(t, left) /\ Goto(t, "mark") /\ UNCHANGED hand BY <1>4 DEF Readd
  <2>2. ASSUME NEW s \in Others, s # t, pc[s] \in {"setDate", "readd"}
        PROVE  hand[s] # hand[t]
    BY <1>1, <1>2, <1>3, <2>2 DEF Exclusive
  <2>3. hand[t] \notin Repeating BY <1>3 DEF Disjoint
  <2> QED BY <1>1, <1>2, <1>3, <2>1, <2>2, <2>3, InsertKeeps
<1>5. CASE ~marked[hand[t]]
  <2>1. /\ pc' = [pc EXCEPT ![t] = "idle"] /\ hand' = [hand EXCEPT ![t] = NoTimer]
        /\ UNCHANGED queue
    BY <1>5 DEF Readd, Goto
  <2>2. /\ pc'[t] = "idle" /\ hand'[t] = NoTimer
        /\ \A s \in Threads : s # t => pc'[s] = pc[s] /\ hand'[s] = hand[s]
    BY <1>2, <2>1, OneMoves
  <2>3. \A s \in Threads : Calm(s) BY <1>1, <2>2 DEF Calm
  <2> QED BY <1>1, <2>1, <2>3, CalmKeeps
<1> QED BY <1>4, <1>5

LEMMA WaitKeeps ==
    ASSUME QueueInv, TypeInv', NEW t \in Others, WaitUntilDone(t) PROVE QueueInv'
<1>1. PICK n \in Waited : Known(n) /\ hand' = [hand EXCEPT ![t] = n] BY DEF WaitUntilDone
<1>2. /\ pc[t] = "idle" /\ pc' = [pc EXCEPT ![t] = "waiting"]
      /\ UNCHANGED <<queue, left, cur, marked, owned, unborn>>
  BY DEF WaitUntilDone, Goto
<1>3. TypeInv /\ Born /\ Exclusive /\ OutOfQueue /\ InOrder(queue, left) /\ QueuedIsMarked
  BY DEF QueueInv
<1>4. t \in Threads /\ t # Loop BY ThreadsAre
<1>5. /\ pc'[t] = "waiting" /\ hand'[t] = n
      /\ \A s \in Threads : s # t => pc'[s] = pc[s] /\ hand'[s] = hand[s]
  BY <1>1, <1>2, <1>3, <1>4, OneMoves
<1>6. n \notin unborn /\ Queued' = Queued BY <1>1, <1>2, <1>3 DEF Known, Born, Queued
<1>7. Born'
  <2>1. \A s \in Threads : hand'[s] \notin unborn' BY <1>2, <1>3, <1>5, <1>6 DEF Born
  <2> QED BY <1>2, <1>3, <1>6, <2>1 DEF Born
<1>8. Exclusive'
  <2> SUFFICES ASSUME NEW r \in Others, NEW s \in Others, r # s,
                      hand'[r] = hand'[s], hand'[r] \in Timers, r # t, s # t
               PROVE  pc'[r] = "waiting" \/ pc'[s] = "waiting"
    BY <1>5 DEF Exclusive
  <2> QED BY <1>3, <1>5, ThreadsAre DEF Exclusive
<1>9. OutOfQueue'
  <2>1. ASSUME NEW s \in Others, pc'[s] \in {"setDate", "readd"}
        PROVE  hand'[s] \in Rescheduled /\ hand'[s] \notin Queued'
    <3>1. s # t BY <1>5, <2>1
    <3> QED BY <1>3, <1>5, <1>6, <2>1, <3>1, ThreadsAre DEF OutOfQueue
  <2>2. pc'[Loop] = pc[Loop] /\ hand'[Loop] = hand[Loop] BY <1>4, <1>5, ThreadsAre
  <2> QED BY <1>2, <1>3, <1>6, <2>1, <2>2 DEF OutOfQueue
<1>10. QueuedIsMarked'
  <2> SUFFICES ASSUME NEW x \in Queued
               PROVE  marked'[x] \/ \E s \in Threads : hand'[s] = x /\ pc'[s] = "mark"
    BY <1>6 DEF QueuedIsMarked
  <2>1. CASE marked[x] BY <1>2, <2>1
  <2>2. CASE ~marked[x]
    <3>1. PICK s \in Threads : hand[s] = x /\ pc[s] = "mark" BY <1>3, <2>2 DEF QueuedIsMarked
    <3>2. s # t BY <1>2, <3>1
    <3> QED BY <1>5, <3>1, <3>2
  <2> QED BY <2>1, <2>2
<1>11. InOrder(queue, left)' BY <1>2, <1>3
<1> QED BY <1>7, <1>8, <1>9, <1>10, <1>11 DEF QueueInv

LEMMA TakeKeeps == ASSUME QueueInv, TypeInv', TakeDue PROVE QueueInv'
<1>1. /\ pc[Loop] = "scan" /\ queue # << >> /\ queue' = Tail(queue)
      /\ marked' = [marked EXCEPT ![Head(queue)] = FALSE]
      /\ cur' \in {Head(queue), NoTimer}
      /\ UNCHANGED <<hand, left, owned, unborn>>
  BY DEF TakeDue
<1>2. PICK l \in {"fire", "scan"} : pc' = [pc EXCEPT ![Loop] = l]
  BY DEF TakeDue, Goto
<1>3. TypeInv /\ Born /\ Exclusive /\ OutOfQueue /\ InOrder(queue, left) /\ QueuedIsMarked
  BY DEF QueueInv
<1>4. queue \in Seq(Timers) /\ marked \in [Timers -> BOOLEAN] BY <1>3 DEF TypeInv, TypeOK
<1>5. /\ InOrder(queue', left) /\ Head(queue) \in Queued
      /\ \A x \in Queued' : x \in Queued /\ x # Head(queue)
  BY <1>1, <1>3, <1>4, TailInOrder DEF Queued
<1>6. /\ pc'[Loop] = l /\ \A s \in Threads : s # Loop => pc'[s] = pc[s]
      /\ \A s \in Threads : hand'[s] = hand[s]
  BY <1>1, <1>2, <1>3, ThreadsAre, OneGoes
<1>7. Born'
  <2>1. unborn \subseteq Timers BY <1>3 DEF TypeInv, TypeOK
  <2>2. cur' \notin unborn BY <1>1, <1>3, <1>5, <2>1 DEF Born
  <2>3. \A x \in unborn' : x \notin Queued' /\ x # cur' /\ ~owned'[x]
    BY <1>1, <1>3, <1>5, <2>2 DEF Born
  <2>4. \A s \in Threads : hand'[s] \notin unborn' BY <1>1, <1>3 DEF Born
  <2> QED BY <2>3, <2>4 DEF Born
<1>8. Exclusive' BY <1>1, <1>3, <1>6, ThreadsAre DEF Exclusive
<1>9. OutOfQueue'
  <2>1. ASSUME NEW s \in Others, pc'[s] \in {"setDate", "readd"}
        PROVE  hand'[s] \in Rescheduled /\ hand'[s] \notin Queued'
    <3>1. pc[s] \in {"setDate", "readd"} BY <1>6, <2>1, ThreadsAre
    <3> QED BY <1>1, <1>3, <1>5, <3>1 DEF OutOfQueue
  <2>2. pc'[Loop] \notin {"insert", "mark"} BY <1>6
  <2>3. cur' \in Repeating => cur' \notin Queued' BY <1>1, <1>5
  <2> QED BY <2>1, <2>2, <2>3 DEF OutOfQueue
<1>10. QueuedIsMarked'
  <2> SUFFICES ASSUME NEW x \in Queued'
               PROVE  marked'[x] \/ \E s \in Threads : hand'[s] = x /\ pc'[s] = "mark"
    BY DEF QueuedIsMarked
  <2>1. x \in Queued /\ x # Head(queue) BY <1>5
  <2>2. x \in Timers BY <1>4, <2>1, SetOfSeq, ElementOfSeq DEF Queued
  <2>3. marked'[x] = marked[x] BY <1>1, <1>4, <2>1, <2>2
  <2>4. CASE marked[x] BY <2>3, <2>4
  <2>5. CASE ~marked[x]
    <3>1. PICK s \in Threads : hand[s] = x /\ pc[s] = "mark"
      BY <1>3, <2>1, <2>5 DEF QueuedIsMarked
    <3>2. s # Loop BY <1>1, <3>1
    <3> QED BY <1>6, <3>1, <3>2
  <2> QED BY <2>4, <2>5
<1>11. InOrder(queue, left)' BY <1>1, <1>5
<1> QED BY <1>7, <1>8, <1>9, <1>10, <1>11 DEF QueueInv

LEMMA FireKeeps == ASSUME QueueInv, TypeInv', Fire PROVE QueueInv'
<1>1. pc[Loop] = "fire" /\ UNCHANGED <<cur, queue, marked, owned, unborn>> BY DEF Fire
<1>2. TypeInv /\ Born /\ Exclusive /\ OutOfQueue /\ InOrder(queue, left) /\ QueuedIsMarked
  BY DEF QueueInv
<1>3. Queued' = Queued BY <1>1 DEF Queued
<1>4. CASE cur \in Repeating
  <2>1. PICK d \in 1..MaxDelay : left' = [left EXCEPT ![cur] = d] BY <1>4 DEF Fire
  <2>2. hand' = [hand EXCEPT ![Loop] = cur] /\ pc' = [pc EXCEPT ![Loop] = "insert"]
    BY <1>4 DEF Fire, Goto
  <2>3. cur \in Timers /\ cur \notin Queued BY <1>1, <1>2, <1>4 DEF OutOfQueue
  <2>4. /\ pc'[Loop] = "insert" /\ hand'[Loop] = cur
        /\ \A s \in Threads : s # Loop => pc'[s] = pc[s] /\ hand'[s] = hand[s]
    BY <1>2, <2>2, ThreadsAre, OneMoves
  <2>5. InOrder(queue, left)' BY <1>1, <2>1, <2>3, DatesKeep
  <2>6. Born'
    <3>1. \A s \in Threads : hand'[s] \notin unborn' BY <1>1, <1>2, <2>4 DEF Born
    <3> QED BY <1>1, <1>2, <1>3, <3>1 DEF Born
  <2>7. Exclusive' BY <1>2, <2>4, ThreadsAre DEF Exclusive
  <2>8. OutOfQueue'
    <3>1. \A s \in Others : pc'[s] = pc[s] /\ hand'[s] = hand[s] BY <2>4, ThreadsAre
    <3> QED BY <1>1, <1>2, <1>3, <1>4, <2>3, <2>4, <3>1 DEF OutOfQueue
  <2>9. QueuedIsMarked'
    <3> SUFFICES ASSUME NEW x \in Queued
                 PROVE  marked'[x] \/ \E s \in Threads : hand'[s] = x /\ pc'[s] = "mark"
      BY <1>3 DEF QueuedIsMarked
    <3>1. CASE marked[x] BY <1>1, <3>1
    <3>2. CASE ~marked[x]
      <4>1. PICK s \in Threads : hand[s] = x /\ pc[s] = "mark"
        BY <1>2, <3>2 DEF QueuedIsMarked
      <4>2. s # Loop BY <1>1, <4>1
      <4> QED BY <2>4, <4>1, <4>2
    <3> QED BY <3>1, <3>2
  <2> QED BY <2>5, <2>6, <2>7, <2>8, <2>9 DEF QueueInv
<1>5. CASE cur \notin Repeating
  <2>1. pc' = [pc EXCEPT ![Loop] = "callback"] /\ hand' = hand /\ left' = left
    BY <1>5 DEF Fire, Goto
  <2>2. /\ pc'[Loop] = "callback" /\ hand'[Loop] = hand[Loop]
        /\ \A s \in Threads : s # Loop => pc'[s] = pc[s] /\ hand'[s] = hand[s]
    BY <1>2, <2>1, ThreadsAre, OneGoes
  <2>3. \A s \in Threads : Calm(s) BY <1>1, <2>2 DEF Calm
  <2> QED BY <1>1, <2>1, <2>3, CalmKeeps
<1> QED BY <1>4, <1>5

LEMMA InsertAgainKeeps ==
    ASSUME Disjoint, QueueInv, TypeInv', InsertAgain PROVE QueueInv'
<1>1. /\ pc[Loop] = "insert" /\ InsertUnderMutex(Loop, left) /\ Goto(Loop, "mark")
      /\ UNCHANGED <<hand, cur, left, marked, owned, unborn>>
  BY DEF InsertAgain
<1>2. OutOfQueue /\ Loop \in Threads BY ThreadsAre DEF QueueInv
<1>3. hand[Loop] \in Repeating /\ hand[Loop] \in Timers /\ hand[Loop] \notin Queued
  BY <1>1, <1>2 DEF OutOfQueue
<1>4. ASSUME NEW s \in Others, pc[s] \in {"setDate", "readd"} PROVE hand[s] # hand[Loop]
  BY <1>2, <1>3, <1>4 DEF OutOfQueue, Disjoint
<1> QED BY <1>1, <1>2, <1>3, <1>4, InsertKeeps

LEMMA TickKeeps == ASSUME QueueInv, TypeInv', Tick PROVE QueueInv'
<1>1. /\ left' = [n \in Timers |-> IF left[n] > 0 THEN left[n] - 1 ELSE 0]
      /\ UNCHANGED <<pc, hand, cur, queue, marked, owned, unborn>>
  BY DEF Tick
<1>2. TypeInv /\ Born /\ Exclusive /\ OutOfQueue /\ InOrder(queue, left) /\ QueuedIsMarked
  BY DEF QueueInv
<1>3. queue \in Seq(Timers) /\ left \in [Timers -> Nat] /\ Queued' = Queued
  BY <1>1, <1>2 DEF TypeInv, TypeOK, Queued
<1>4. InOrder(queue, left)'
  <2> SUFFICES ASSUME NEW m \in 1..Len(queue), NEW n \in 1..Len(queue), m < n
               PROVE  queue[m] # queue[n] /\ left'[queue[m]] <= left'[queue[n]]
    BY <1>1 DEF InOrder
  <2>1. queue[m] \in Timers /\ queue[n] \in Timers BY <1>3, ElementOfSeq
  <2>2. left[queue[m]] \in Nat /\ left[queue[n]] \in Nat BY <1>3, <2>1
  <2>3. queue[m] # queue[n] /\ left[queue[m]] <= left[queue[n]] BY <1>2 DEF InOrder
  <2> QED BY <1>1, <2>1, <2>2, <2>3
<1> QED BY <1>1, <1>2, <1>3, <1>4
        DEF QueueInv, Born, Exclusive, OutOfQueue, QueuedIsMarked

LEMMA QueueNext == ASSUME Disjoint, QueueInv, [Next]_vars PROVE QueueInv'
<1>1. TypeInv BY DEF QueueInv
<1>2. TypeInv' BY <1>1, TypeNext
<1>3. CASE LoopStep
  BY <1>2, <1>3, ThreadsAre, TakeKeeps, FireKeeps, InsertAgainKeeps, CalmOfThread, CalmOfLoop,
     FiredKeeps
  DEF LoopStep
<1>4. CASE Callback
  <2>1. CASE Add(Loop) BY <1>2, <2>1, ThreadsAre, AddKeeps
  <2>2. CASE Invalidate
    <3>1. UNCHANGED <<pc, hand, cur, queue, left, marked, owned, unborn>>
      BY <2>2 DEF Invalidate
    <3>2. \A s \in Threads : Calm(s) BY <3>1 DEF Calm
    <3> QED BY <1>2, <3>1, <3>2, CalmKeeps
  <2> QED BY <1>4, <2>1, <2>2 DEF Callback
<1>5. CASE Tick BY <1>2, <1>5, TickKeeps
<1>6. ASSUME NEW t \in Others, Call(t) \/ Continue(t) PROVE QueueInv'
  BY <1>2, <1>6, ThreadsAre, AddKeeps, RescheduleKeeps, SetDateKeeps, ReaddKeeps, WaitKeeps,
     CalmOfThread
  DEF Call, Continue
<1>7. ASSUME NEW n \in Timers, Release(n) PROVE QueueInv'
  <2>1. /\ UNCHANGED <<pc, hand, cur, queue, left, marked, unborn>>
        /\ owned' = [owned EXCEPT ![n] = FALSE]
    BY <1>7 DEF Release
  <2>2. \A x \in Timers : owned'[x] => owned[x] BY <1>1, <2>1 DEF TypeInv, TypeOK
  <2>3. \A s \in Threads : Calm(s) BY <2>1 DEF Calm
  <2> QED BY <1>2, <2>1, <2>2, <2>3, CalmKeeps
<1>8. CASE UNCHANGED vars
  <2>1. UNCHANGED <<pc, hand, cur, queue, left, marked, owned, unborn>> BY <1>8 DEF vars
  <2>2. \A s \in Threads : Calm(s) BY <2>1 DEF Calm
  <2> QED BY <1>2, <2>1, <2>2, CalmKeeps
<1> QED BY <1>3, <1>4, <1>5, <1>6, <1>7, <1>8 DEF Next

LEMMA QueueInit == ASSUME Init PROVE QueueInv
<1>1. TypeInv BY TypeInit
<1>2. /\ queue = << >> /\ cur = NoTimer /\ unborn = Timers
      /\ owned = [t \in Timers |-> FALSE]
      /\ \A t \in Threads : pc[t] = "idle" /\ hand[t] = NoTimer
  BY DEF Init
<1>3. Queued = {} /\ InOrder(queue, left)
  <2>1. queue \in Seq(Timers) /\ Len(queue) = 0 BY <1>2
  <2>2. 1..Len(queue) = {} BY <2>1
  <2>3. \A x : x \notin ToSet(queue) BY <2>1, <2>2, SetOfSeq
  <2> QED BY <2>2, <2>3 DEF Queued, InOrder
<1>4. Born BY <1>2, <1>3 DEF Born
<1>5. Exclusive BY <1>2, ThreadsAre DEF Exclusive
<1>6. OutOfQueue BY <1>2, ThreadsAre DEF OutOfQueue
<1>7. QueuedIsMarked BY <1>3 DEF QueuedIsMarked
<1> QED BY <1>1, <1>3, <1>4, <1>5, <1>6, <1>7 DEF QueueInv

LEMMA QueueAlways == ASSUME Disjoint PROVE Spec => []QueueInv
<1>1. Init => QueueInv BY QueueInit
<1>2. QueueInv /\ [Next]_vars => QueueInv' BY QueueNext
<1> QED BY <1>1, <1>2, PTL DEF Spec

(* Whatever the threads add, reschedule and fire and however they take     *)
(* turns, the queue of the loop is in the order of the fire dates and      *)
(* holds no timer twice, so that the loop, which looks at its first timer  *)
(* only (OFRunLoop.m runMode:beforeDate:), sleeps no longer than it may.   *)
THEOREM QueueInOrder == Disjoint => (Spec => []Sorted)
<1> SUFFICES ASSUME Disjoint PROVE Spec => []Sorted
  OBVIOUS
<1>1. QueueInv => Sorted BY DEF QueueInv, InOrder, Sorted
<1>2. Spec => []QueueInv BY QueueAlways
<1> QED BY <1>1, <1>2, PTL

(* A timer in the queue has the mark by which -[setFireDate:] finds it, or *)
(* the thread that queued it is about to set it.                           *)
THEOREM QueuedAreMarked == Disjoint => (Spec => []QueuedIsMarked)
<1> SUFFICES ASSUME Disjoint PROVE Spec => []QueuedIsMarked
  OBVIOUS
<1>1. QueueInv => QueuedIsMarked BY DEF QueueInv
<1>2. Spec => []QueueInv BY QueueAlways
<1> QED BY <1>1, <1>2, PTL
=============================================================================
