--------------------------- MODULE Foundation_proofs ---------------------------
(***************************************************************************)
(* Theorems about OFMapTable, for any keys, objects, hash functions and    *)
(* least capacity, about AutoreleasePools, for any number of objects,      *)
(* pools and pops under way, and about OFHTTPClientResponse, for any       *)
(* messages, reads and pieces.                                             *)
(***************************************************************************)
EXTENDS OFMapTable, AutoreleasePools, OFHTTPClientResponse, FiniteSetTheorems,
        SequenceTheorems, WellFoundedInduction, TLAPS

-----------------------------------------------------------------------------
(* The hash table.                                                         *)

Buckets == [kind : {"bucket"}, key : Keys, object : Values, hash : Nat]
Tables(c) == [capacity : {c}, count : Nat, buckets : [0..c - 1 -> Buckets \cup {Null, Deleted}]]

(* What a search relies on: a key has one bucket, and from the home of the *)
(* bucket on every place up to it was used.                                *)
OneBucket(t) == \A i, j \in Live(t) : t.buckets[i].key = t.buckets[j].key => i = j

Reached(t, i) ==
    \E d \in 0..t.capacity - 1 :
        /\ (t.buckets[i].hash + d) % t.capacity = i
        /\ \A e \in 0..d - 1 : (t.buckets[i].hash + e) % t.capacity \notin Unused(t)

Sound(t) == /\ t.capacity \in Nat \ {0}
            /\ t \in Tables(t.capacity)
            /\ OneBucket(t)
            /\ \A i \in Live(t) : Reached(t, i)

(* The count is that of the buckets, and less than three quarters of the   *)
(* places are taken.                                                       *)
Roomy(t) == /\ t.capacity >= MinCapacity
            /\ t.count = Cardinality(Live(t))
            /\ 8 * t.count < 6 * t.capacity

Entries(t) == {t.buckets[i] : i \in Live(t)}

(* The buckets are the dictionary's keys and objects, under their hashes.  *)
Represents(t, h, c) ==
    /\ \A b \in Entries(t) : b.hash = h[b.key] /\ b.object = c[b.key]
    /\ \A k \in Keys : c[k] # None => \E b \in Entries(t) : b.key = k

KeysOf(c) == {k \in Keys : c[k] # None}

(* An enumerator e has returned the keys of the places before its position.*)
Enumerated(e, t) ==
    /\ IsInjective(e.seen)
    /\ ToSet(e.seen) = {t.buckets[i].key : i \in {j \in Live(t) : j < e.position}}

Enumerators == [on : BOOLEAN, position : Nat, mutated : BOOLEAN, seen : Seq(Keys)]

MapInv ==
    /\ hash \in [Keys -> Nat]
    /\ contents \in [Keys -> Values \cup {None}]
    /\ failed = FALSE
    /\ Sound(table) /\ Roomy(table)
    /\ Represents(table, hash, contents)
    /\ IsFiniteSet(KeysOf(contents)) /\ table.count = Cardinality(KeysOf(contents))
    /\ enum \in Enumerators
    /\ enum.on /\ ~enum.mutated => Enumerated(enum, table)

-----------------------------------------------------------------------------
(* Induction over data rests on this: a set of numbers that is not empty   *)
(* has a least element.                                                    *)
LEMMA LeastElement ==
  ASSUME NEW T \in SUBSET Nat, T # {}
  PROVE  \E x \in T : \A y \in T : x <= y
<1>. DEFINE R == {ss \in Nat \X Nat : ss[1] < ss[2]}
<1>1. IsWellFoundedOn(R, Nat)
  BY NatLessThanWellFounded DEF OpToRel
<1>2. \A x, y \in Nat : x < y => <<x, y>> \in R
  OBVIOUS
<1>. HIDE DEF R
<1>3. PICK x \in T : \A y \in T : ~(<<y, x>> \in R)
  BY <1>1, WFMin
<1>4. ASSUME NEW y \in T
      PROVE  x <= y
  <2>1. /\ x \in Nat
        /\ y \in Nat
    OBVIOUS
  <2>2. ~(<<y, x>> \in R)
    BY <1>3
  <2>3. ~(y < x)
    BY <2>1, <2>2, <1>2
  <2>. QED
    BY <2>1, <2>3
<1>. QED
  BY <1>4

(* Quotient and remainder, and that they are the only ones.                *)
LEMMA DivMod ==
  ASSUME NEW h \in Nat, NEW c \in Nat \ {0}
  PROVE  /\ h % c \in 0..c-1
         /\ h \div c \in Nat
         /\ h = c * (h \div c) + (h % c)
  OBVIOUS

LEMMA ModUnique ==
  ASSUME NEW c \in Nat \ {0}, NEW q \in Nat, NEW r \in 0..c-1
  PROVE  (c * q + r) % c = r
  OBVIOUS

(* The place d steps around a table of c places from the home of h, and    *)
(* that every place is reached.                                            *)
LEMMA Around ==
  ASSUME NEW h \in Nat, NEW c \in Nat \ {0}, NEW d \in 0..c-1
  PROVE (h+d)%c = IF (h % c)+d < c THEN (h % c)+d ELSE (h % c)+d - c
<1>1. PICK q \in Nat, r \in 0..c-1 : /\ h = c * q + r
                                    /\ h % c = r
  BY DivMod
<1>2. CASE r + d < c
  <2>1. h + d = c * q + (r + d) /\ r + d \in 0..c-1
    BY <1>1, <1>2
  <2>2. (h + d) % c = r + d
    BY <2>1, ModUnique
  <2>. QED
    BY <1>1, <1>2, <2>2
<1>3. CASE ~(r + d < c)
  <2>1. c * (q + 1) = c * q + c
    OBVIOUS
  <2>2. h + d = c * (q + 1) + (r + d - c) /\ r + d - c \in 0..c-1
    <3>1. c * q \in Nat
      OBVIOUS
    <3>. QED
      BY <1>1, <1>3, <2>1, <3>1
  <2>3. (h + d) % c = r + d - c
    <3>1. q + 1 \in Nat
      OBVIOUS
    <3>. QED
      BY <2>2, <3>1, ModUnique
  <2>. QED
    BY <1>1, <1>3, <2>3
<1>. QED
  BY <1>2, <1>3

LEMMA Reaching ==
    ASSUME NEW h \in Nat, NEW c \in Nat \ {0}, NEW i \in 0..c - 1
    PROVE  \E d \in 0..c - 1 : (h + d) % c = i
<1>1. PICK r \in 0..c - 1 : h % c = r BY DivMod
<1>2. \A d \in 0..c - 1 : (h + d) % c = IF r + d < c THEN r + d ELSE r + d - c BY <1>1, Around
<1>3. CASE r <= i
  <2>1. PICK d \in 0..c - 1 : r + d = i
    <3>1. i - r \in 0..c - 1 /\ r + (i - r) = i BY <1>3
    <3>. QED BY <3>1
  <2>2. PICK p : p = (h + d) % c OBVIOUS
  <2>3. p = IF r + d < c THEN r + d ELSE r + d - c BY <1>2, <2>2
  <2>4. p = i BY <2>1, <2>3
  <2>. QED BY <2>2, <2>4
<1>4. CASE i < r
  <2>1. PICK d \in 0..c - 1 : r + d = i + c
    <3>1. i + c - r \in 0..c - 1 /\ r + (i + c - r) = i + c BY <1>4
    <3>. QED BY <3>1
  <2>2. PICK p : p = (h + d) % c OBVIOUS
  <2>3. p = IF r + d < c THEN r + d ELSE r + d - c BY <1>2, <2>2
  <2>4. p = i BY <2>1, <2>3
  <2>. QED BY <2>2, <2>4
<1>. QED BY <1>3, <1>4

(* A search comes to the first of the positions, if there is one.          *)
LEMMA SearchFirst ==
    ASSUME NEW t, t.capacity \in Nat \ {0}, NEW h \in Nat,
           NEW P \in SUBSET (0..t.capacity - 1), P # {}
    PROVE  \E d \in 0..t.capacity - 1 :
             /\ Search(t, h, P) = (h + d) % t.capacity
             /\ (h + d) % t.capacity \in P
             /\ \A e \in 0..d - 1 : (h + e) % t.capacity \notin P
<1>1. PICK c \in Nat \ {0} : c = t.capacity OBVIOUS
<1>. DEFINE found == {d \in 0..c - 1 : (h + d) % c \in P}
<1>2. PICK i \in P : i \in 0..c - 1 BY <1>1
<1>3. PICK d \in 0..c - 1 : (h + d) % c = i BY <1>2, Reaching
<1>4. found # {} BY <1>2, <1>3
<1>5. Search(t, h, P) = (h + Min(found)) % c BY <1>1, <1>4 DEF Search
<1>6. \A e \in 0..c - 1 : e \in found <=> (h + e) % c \in P OBVIOUS
<1>7. found \subseteq 0..c - 1 OBVIOUS
<1>. HIDE DEF found
<1>8. \E x \in found : \A y \in found : x <= y BY <1>4, <1>7, LeastElement
<1>9. Min(found) \in found /\ \A y \in found : Min(found) <= y BY <1>8 DEF Min
<1>10. ASSUME NEW e \in 0..Min(found) - 1
       PROVE  (h + e) % c \notin P
  <2>1. Min(found) \in 0..c - 1 BY <1>7, <1>9
  <2>2. e \in 0..c - 1 /\ ~(Min(found) <= e) BY <2>1
  <2>. QED BY <1>6, <1>9, <2>2
<1>11. Min(found) \in 0..c - 1 /\ (h + Min(found)) % c \in P BY <1>6, <1>7, <1>9
<1>. QED BY <1>1, <1>5, <1>10, <1>11

-----------------------------------------------------------------------------
(* What a place may hold.                                                  *)
LEMMA Kinds ==
    /\ Null.kind # "bucket" /\ Deleted.kind # "bucket" /\ Deleted # Null
    /\ \A b \in Buckets : /\ b.kind = "bucket" /\ b.key \in Keys /\ b.object \in Values
                          /\ b.hash \in Nat /\ b # Null
    /\ \A k \in Keys, v \in Values, h \in Nat : Bucket(k, v, h) \in Buckets
    /\ \A k, v, h : /\ Bucket(k, v, h).key = k /\ Bucket(k, v, h).object = v
                    /\ Bucket(k, v, h).hash = h
<1>1. Null.kind # "bucket" /\ Deleted.kind # "bucket" /\ Deleted # Null
  <2>1. Null.kind = "null" BY DEF Null
  <2>2. Deleted.kind = "deleted" BY DEF Deleted
  <2>. QED BY <2>1, <2>2
<1>2. ASSUME NEW b \in Buckets
      PROVE  /\ b.kind = "bucket" /\ b.key \in Keys /\ b.object \in Values
             /\ b.hash \in Nat /\ b # Null
  <2>1. b.kind = "bucket" /\ b.key \in Keys /\ b.object \in Values /\ b.hash \in Nat
    BY DEF Buckets
  <2>. QED BY <2>1, <1>1
<1>3. \A k \in Keys, v \in Values, h \in Nat : Bucket(k, v, h) \in Buckets
  BY DEF Bucket, Buckets
<1>4. \A k, v, h : /\ Bucket(k, v, h).key = k /\ Bucket(k, v, h).object = v
                   /\ Bucket(k, v, h).hash = h
  BY DEF Bucket
<1>. QED BY <1>1, <1>2, <1>3, <1>4

(* What a table is made of.                                                *)
LEMMA TableParts ==
    ASSUME NEW t, t \in Tables(t.capacity)
    PROVE  /\ t.count \in Nat
           /\ t.buckets \in [0..t.capacity - 1 -> Buckets \cup {Null, Deleted}]
           /\ DOMAIN t.buckets = 0..t.capacity - 1
           /\ Live(t) \subseteq 0..t.capacity - 1
           /\ \A i \in 0..t.capacity - 1 : i \in Live(t) <=> t.buckets[i] \in Buckets
<1>1. t.count \in Nat /\ t.buckets \in [0..t.capacity - 1 -> Buckets \cup {Null, Deleted}]
  BY DEF Tables
<1>2. DOMAIN t.buckets = 0..t.capacity - 1 BY <1>1
<1>3. Live(t) \subseteq 0..t.capacity - 1 BY <1>2 DEF Live
<1>4. ASSUME NEW i \in 0..t.capacity - 1
      PROVE  i \in Live(t) <=> t.buckets[i] \in Buckets
  <2>1. t.buckets[i] \in Buckets \cup {Null, Deleted} BY <1>1
  <2>2. i \in Live(t) <=> t.buckets[i].kind = "bucket" BY <1>2 DEF Live
  <2>. QED BY <2>1, <2>2, Kinds
<1>. QED BY <1>1, <1>2, <1>3, <1>4

LEMMA Entered ==
    ASSUME NEW t, t \in Tables(t.capacity)
    PROVE  /\ \A b \in Entries(t) : b \in Buckets /\ \E i \in Live(t) : t.buckets[i] = b
           /\ \A i \in Live(t) : t.buckets[i] \in Entries(t)
BY TableParts DEF Entries

(* A table with another count.                                             *)
LEMMA Recounted ==
    ASSUME NEW t, NEW n \in Nat, t \in Tables(t.capacity)
    PROVE  LET u == [t EXCEPT !.count = n]
           IN  /\ u.capacity = t.capacity /\ u.count = n
               /\ u \in Tables(t.capacity)
               /\ Live(u) = Live(t) /\ Unused(u) = Unused(t) /\ Entries(u) = Entries(t)
               /\ Sound(t) => Sound(u)
<1>. DEFINE u == [t EXCEPT !.count = n]
<1>1. /\ u.capacity = t.capacity /\ u.count = n /\ u.buckets = t.buckets
      /\ u \in Tables(t.capacity)
  BY DEF Tables
<1>. HIDE DEF u
<1>2. Live(u) = Live(t) /\ Unused(u) = Unused(t) BY <1>1 DEF Live, Unused
<1>3. Entries(u) = Entries(t) BY <1>1, <1>2 DEF Entries
<1>4. OneBucket(t) => OneBucket(u) BY <1>1, <1>2 DEF OneBucket
<1>5. \A i \in Live(t) : Reached(t, i) => Reached(u, i) BY <1>1, <1>2 DEF Reached
<1>6. Sound(t) => Sound(u) BY <1>1, <1>2, <1>4, <1>5 DEF Sound
<1>7. /\ u.capacity = t.capacity /\ u.count = n
      /\ u \in Tables(t.capacity)
      /\ Live(u) = Live(t) /\ Unused(u) = Unused(t) /\ Entries(u) = Entries(t)
      /\ Sound(t) => Sound(u)
  BY <1>1, <1>2, <1>3, <1>6
<1>. QED BY <1>7 DEF u

(* What is put in a place is there, and nothing else changes.              *)
LEMMA PutParts ==
    ASSUME NEW t, t \in Tables(t.capacity), NEW i \in 0..t.capacity - 1,
           NEW b \in Buckets \cup {Null, Deleted}
    PROVE  /\ Put(t, i, b).capacity = t.capacity
           /\ Put(t, i, b).count = t.count
           /\ Put(t, i, b) \in Tables(t.capacity)
           /\ \A j \in 0..t.capacity - 1 :
                Put(t, i, b).buckets[j] = IF j = i THEN b ELSE t.buckets[j]
<1>1. /\ Put(t, i, b).capacity = t.capacity
      /\ Put(t, i, b).count = t.count
      /\ Put(t, i, b).buckets = [t.buckets EXCEPT ![i] = b]
      /\ DOMAIN Put(t, i, b) = DOMAIN t
  BY DEF Put, Tables
<1>2. [t.buckets EXCEPT ![i] = b] \in [0..t.capacity - 1 -> Buckets \cup {Null, Deleted}]
  BY TableParts
<1>3. Put(t, i, b) \in Tables(t.capacity) BY <1>1, <1>2 DEF Tables, Put
<1>4. \A j \in 0..t.capacity - 1 :
        Put(t, i, b).buckets[j] = IF j = i THEN b ELSE t.buckets[j]
  BY <1>1, TableParts
<1>. QED BY <1>1, <1>3, <1>4

(* A bucket put in a place.                                                *)
LEMMA PutBucket ==
    ASSUME NEW t, t \in Tables(t.capacity), NEW i \in 0..t.capacity - 1, NEW b \in Buckets
    PROVE  /\ Live(Put(t, i, b)) = Live(t) \cup {i}
           /\ Unused(Put(t, i, b)) = Unused(t) \ {i}
           /\ \A j \in Live(t) \ {i} : Put(t, i, b).buckets[j] = t.buckets[j]
           /\ Put(t, i, b).buckets[i] = b
<1>0. PICK u : u = Put(t, i, b) OBVIOUS
<1>1. /\ u.capacity = t.capacity /\ u \in Tables(t.capacity)
      /\ \A j \in 0..t.capacity - 1 : u.buckets[j] = IF j = i THEN b ELSE t.buckets[j]
  <2>1. b \in Buckets \cup {Null, Deleted} OBVIOUS
  <2>. QED BY <1>0, <2>1, PutParts
<1>2. /\ Live(u) \subseteq 0..t.capacity - 1
      /\ \A j \in 0..t.capacity - 1 : j \in Live(u) <=> u.buckets[j] \in Buckets
  BY <1>1, TableParts
<1>3. /\ Live(t) \subseteq 0..t.capacity - 1
      /\ \A j \in 0..t.capacity - 1 : j \in Live(t) <=> t.buckets[j] \in Buckets
  BY TableParts
<1>4. Live(u) = Live(t) \cup {i} BY <1>1, <1>2, <1>3
<1>5. Unused(u) = Unused(t) \ {i}
  <2>1. DOMAIN u.buckets = 0..t.capacity - 1 /\ DOMAIN t.buckets = 0..t.capacity - 1
    BY <1>1, TableParts
  <2>. QED BY <1>1, <2>1, Kinds DEF Unused
<1>6. /\ \A j \in Live(t) \ {i} : u.buckets[j] = t.buckets[j]
      /\ u.buckets[i] = b
  BY <1>1, <1>3
<1>. QED BY <1>0, <1>4, <1>5, <1>6

(* The first place free, or vacated, takes the bucket of a new key.        *)
LEMMA Inserted ==
    ASSUME NEW t, Sound(t), NEW b \in Buckets, Free(t) # {},
           \A e \in Entries(t) : e.key # b.key
    PROVE  LET i == Search(t, b.hash, Free(t))
               u == Put(t, i, b)
           IN  /\ i \in 0..t.capacity - 1 /\ i \notin Live(t)
               /\ u.capacity = t.capacity /\ u.count = t.count
               /\ Sound(u)
               /\ Live(u) = Live(t) \cup {i}
               /\ Unused(u) = Unused(t) \ {i}
               /\ Entries(u) = Entries(t) \cup {b}
<1>1. /\ t.capacity \in Nat \ {0} /\ t \in Tables(t.capacity)
      /\ OneBucket(t) /\ \A j \in Live(t) : Reached(t, j)
  BY DEF Sound
<1>2. /\ Free(t) \subseteq 0..t.capacity - 1 /\ Free(t) \cap Live(t) = {}
      /\ Free(t) = 0..t.capacity - 1 \ Live(t)
  BY <1>1, TableParts DEF Free
<1>3. b.hash \in Nat /\ b.key \in Keys BY Kinds
<1>4. PICK d \in 0..t.capacity - 1 :
        /\ Search(t, b.hash, Free(t)) = (b.hash + d) % t.capacity
        /\ (b.hash + d) % t.capacity \in Free(t)
        /\ \A e \in 0..d - 1 : (b.hash + e) % t.capacity \notin Free(t)
  BY <1>1, <1>2, <1>3, SearchFirst
<1>5. PICK i \in Free(t) : i = Search(t, b.hash, Free(t)) BY <1>4
<1>6. i \in 0..t.capacity - 1 /\ i \notin Live(t) BY <1>2, <1>5
<1>. DEFINE u == Put(t, i, b)
<1>7. u.capacity = t.capacity /\ u.count = t.count /\ u \in Tables(t.capacity)
  <2>1. t \in Tables(t.capacity) /\ i \in 0..t.capacity - 1 BY <1>1, <1>6
  <2>2. b \in Buckets \cup {Null, Deleted} OBVIOUS
  <2>. QED BY <2>1, <2>2, PutParts
<1>8. /\ Live(u) = Live(t) \cup {i}
      /\ Unused(u) = Unused(t) \ {i}
      /\ \A j \in Live(t) : u.buckets[j] = t.buckets[j]
      /\ u.buckets[i] = b
  BY <1>1, <1>6, PutBucket
<1>. HIDE DEF u
<1>9. Entries(u) = Entries(t) \cup {b} BY <1>8 DEF Entries
<1>10. OneBucket(u)
  <2>1. ASSUME NEW j \in Live(u), NEW k \in Live(u), u.buckets[j].key = u.buckets[k].key
        PROVE  j = k
    <3>1. \A l \in Live(t) : t.buckets[l].key # b.key BY DEF Entries
    <3>2. CASE j = i BY <3>1, <3>2, <2>1, <1>8
    <3>3. CASE k = i BY <3>1, <3>3, <2>1, <1>8
    <3>4. CASE j \in Live(t) /\ k \in Live(t) BY <3>4, <2>1, <1>8, <1>1 DEF OneBucket
    <3>. QED BY <3>2, <3>3, <3>4, <1>8
  <2>. QED BY <2>1 DEF OneBucket
<1>11. ASSUME NEW j \in Live(u)
       PROVE  Reached(u, j)
  <2>1. CASE j = i
    <3>1. \A e \in 0..d - 1 : (b.hash + e) % t.capacity \notin Unused(t)
      <4>1. Unused(t) \subseteq Free(t) BY Kinds DEF Unused, Free, Live
      <4>. QED BY <4>1, <1>4
    <3>. QED BY <2>1, <3>1, <1>4, <1>5, <1>7, <1>8 DEF Reached
  <2>2. CASE j \in Live(t)
    <3>1. Reached(t, j) /\ u.buckets[j] = t.buckets[j] BY <2>2, <1>1, <1>8
    <3>. QED BY <3>1, <1>7, <1>8 DEF Reached
  <2>. QED BY <2>1, <2>2, <1>8
<1>12. Sound(u) BY <1>1, <1>7, <1>10, <1>11 DEF Sound
<1>. QED BY <1>5, <1>6, <1>7, <1>8, <1>9, <1>12 DEF u

(* The place of a key that goes is a tombstone.                            *)
LEMMA Vacated ==
    ASSUME NEW t, Sound(t), NEW i \in Live(t)
    PROVE  LET u == Put(t, i, Deleted)
           IN  /\ u.capacity = t.capacity /\ u.count = t.count
               /\ Sound(u)
               /\ Live(u) = Live(t) \ {i}
               /\ Entries(u) = {e \in Entries(t) : e.key # t.buckets[i].key}
<1>1. /\ t.capacity \in Nat \ {0} /\ t \in Tables(t.capacity)
      /\ OneBucket(t) /\ \A j \in Live(t) : Reached(t, j)
  BY DEF Sound
<1>0. PICK u : u = Put(t, i, Deleted) OBVIOUS
<1>2. i \in 0..t.capacity - 1 BY <1>1, TableParts
<1>3. /\ u.capacity = t.capacity /\ u.count = t.count /\ u \in Tables(t.capacity)
      /\ \A j \in 0..t.capacity - 1 : u.buckets[j] = IF j = i THEN Deleted ELSE t.buckets[j]
  <2>1. t \in Tables(t.capacity) /\ Deleted \in Buckets \cup {Null, Deleted} BY <1>1
  <2>. QED BY <1>0, <1>2, <2>1, PutParts
<1>4. /\ Live(u) \subseteq 0..t.capacity - 1
      /\ \A j \in 0..t.capacity - 1 : j \in Live(u) <=> u.buckets[j] \in Buckets
  BY <1>1, <1>3, TableParts
<1>5. /\ Live(t) \subseteq 0..t.capacity - 1
      /\ \A j \in 0..t.capacity - 1 : j \in Live(t) <=> t.buckets[j] \in Buckets
  BY <1>1, TableParts
<1>6. Live(u) = Live(t) \ {i}
  <2>1. Deleted \notin Buckets BY Kinds
  <2>. QED BY <2>1, <1>2, <1>3, <1>4, <1>5
<1>7. \A j \in Live(u) : u.buckets[j] = t.buckets[j] BY <1>3, <1>5, <1>6
<1>8. Unused(u) \subseteq Unused(t)
  <2>1. DOMAIN u.buckets = 0..t.capacity - 1 /\ DOMAIN t.buckets = 0..t.capacity - 1
    BY <1>1, <1>3, TableParts
  <2>. QED BY <1>3, <2>1, Kinds DEF Unused
<1>9. Entries(u) = {e \in Entries(t) : e.key # t.buckets[i].key}
  BY <1>1, <1>6, <1>7 DEF Entries, OneBucket
<1>10. OneBucket(u) BY <1>1, <1>6, <1>7 DEF OneBucket
<1>11. ASSUME NEW j \in Live(u)
       PROVE  Reached(u, j)
  <2>1. Reached(t, j) /\ u.buckets[j] = t.buckets[j] BY <1>1, <1>6, <1>7
  <2>. QED BY <2>1, <1>3, <1>8 DEF Reached
<1>12. Sound(u) BY <1>1, <1>3, <1>10, <1>11 DEF Sound
<1>. QED BY <1>0, <1>3, <1>6, <1>9, <1>12

(* Find comes to the bucket of a key that has one.                         *)
LEMMA Found ==
    ASSUME NEW t, Sound(t), NEW k \in Keys, NEW h \in Nat,
           \A e \in Entries(t) : e.key = k => e.hash = h
    PROVE  /\ Find(t, k, h) # None => Find(t, k, h) \in Holding(t, k)
           /\ Find(t, k, h) = None => \A e \in Entries(t) : e.key # k
<1>1. Find(t, k, h) # None => Find(t, k, h) \in Holding(t, k) BY DEF Find
<1>2. ASSUME NEW i \in Holding(t, k)
      PROVE  Find(t, k, h) # None
  <2>1. /\ t.capacity \in Nat \ {0} /\ t \in Tables(t.capacity)
        /\ i \in Live(t) /\ t.buckets[i].key = k /\ Reached(t, i)
    BY DEF Sound, Holding
  <2>2. t.buckets[i].hash = h BY <2>1, Entered
  <2>3. PICK d \in 0..t.capacity - 1 :
          /\ (h + d) % t.capacity = i
          /\ \A e \in 0..d - 1 : (h + e) % t.capacity \notin Unused(t)
    BY <2>1, <2>2 DEF Reached
  <2>. DEFINE P == Unused(t) \cup Holding(t, k)
  <2>4. P \in SUBSET (0..t.capacity - 1) /\ P # {}
    <3>1. Unused(t) \subseteq 0..t.capacity - 1 BY <2>1, TableParts DEF Unused
    <3>2. Holding(t, k) \subseteq 0..t.capacity - 1 BY <2>1, TableParts DEF Holding
    <3>. QED BY <3>1, <3>2
  <2>. HIDE DEF P
  <2>5. PICK m \in 0..t.capacity - 1 :
          /\ Search(t, h, P) = (h + m) % t.capacity
          /\ (h + m) % t.capacity \in P
          /\ \A e \in 0..m - 1 : (h + e) % t.capacity \notin P
    BY <2>1, <2>4, SearchFirst
  <2>6. i \in P BY DEF P
  <2>7. ~(d < m) BY <2>3, <2>5, <2>6
  <2>8. Search(t, h, P) \in Holding(t, k)
    <3>1. CASE m = d BY <3>1, <2>3, <2>5
    <3>2. CASE m < d
      <4>1. m \in 0..d - 1 BY <3>2
      <4>. QED BY <4>1, <2>3, <2>5 DEF P
    <3>. QED BY <3>1, <3>2, <2>7
  <2>9. Find(t, k, h) = Search(t, h, P) BY <2>8 DEF Find, P
  <2>10. Search(t, h, P) \in Nat
    <3>1. Search(t, h, P) \in P BY <2>5
    <3>2. P \subseteq 0..t.capacity - 1 BY <2>4
    <3>3. 0..t.capacity - 1 \subseteq Nat BY <2>1
    <3>. QED BY <3>1, <3>2, <3>3
  <2>. QED BY <2>9, <2>10, MapAssumption DEF MapAssumption
<1>3. (\E e \in Entries(t) : e.key = k) => Holding(t, k) # {} BY DEF Entries, Holding
<1>. QED BY <1>1, <1>2, <1>3

-----------------------------------------------------------------------------
(* The places in use are finitely many, and if they are fewer than all,    *)
(* one is free.                                                            *)
LEMMA Counted ==
    ASSUME NEW t, t.capacity \in Nat, t \in Tables(t.capacity)
    PROVE  /\ IsFiniteSet(Live(t)) /\ Cardinality(Live(t)) \in Nat
           /\ Cardinality(Live(t)) < t.capacity => Free(t) # {}
<1>1. IsFiniteSet(0..t.capacity - 1) /\ Cardinality(0..t.capacity - 1) = t.capacity
  <2>1. PICK c \in Nat : c = t.capacity OBVIOUS
  <2>2. c - 1 \in Int /\ 0 \in Int OBVIOUS
  <2>3. /\ IsFiniteSet(0..c - 1)
        /\ Cardinality(0..c - 1) = IF 0 > c - 1 THEN 0 ELSE c - 1 - 0 + 1
    BY <2>2, FS_Interval
  <2>. QED BY <2>1, <2>3
<1>2. Live(t) \subseteq 0..t.capacity - 1 BY TableParts
<1>3. IsFiniteSet(Live(t)) /\ Cardinality(Live(t)) \in Nat BY <1>1, <1>2, FS_Subset, FS_CardinalityType
<1>4. Live(t) = 0..t.capacity - 1 => Cardinality(Live(t)) = t.capacity BY <1>1
<1>5. Free(t) = {} => Live(t) = 0..t.capacity - 1 BY <1>2, TableParts DEF Free
<1>. QED BY <1>3, <1>4, <1>5

(* A new table.                                                            *)
LEMMA EmptyTable ==
    ASSUME NEW c \in Nat \ {0}
    PROVE  /\ Empty(c).capacity = c /\ Empty(c).count = 0
           /\ Sound(Empty(c))
           /\ Live(Empty(c)) = {} /\ Entries(Empty(c)) = {}
           /\ Free(Empty(c)) = Unused(Empty(c))
<1>1. PICK e : e = Empty(c) OBVIOUS
<1>2. /\ e.capacity = c /\ e.count = 0 /\ e.buckets = [i \in 0..c - 1 |-> Null]
      /\ e \in Tables(c)
  BY <1>1 DEF Empty, Tables
<1>3. Live(e) = {} BY <1>2, Kinds DEF Live
<1>4. Entries(e) = {} BY <1>3 DEF Entries
<1>5. Free(e) = Unused(e) BY <1>2, <1>3 DEF Free, Unused
<1>6. Sound(e) BY <1>2, <1>3 DEF Sound, OneBucket
<1>. QED BY <1>1, <1>2, <1>3, <1>4, <1>5, <1>6

(* The buckets, moved in the order they lie in into a table with room for  *)
(* them.                                                                   *)
LEMMA MovedAll ==
    ASSUME NEW t, Sound(t), NEW c \in Nat \ {0}, Cardinality(Live(t)) <= c
    PROVE  LET r == Moved(t, c)
           IN  /\ r.capacity = c /\ r.count = t.count
               /\ Sound(r)
               /\ Entries(r) = Entries(t)
               /\ Cardinality(Live(r)) = Cardinality(Live(t))
<1>. DEFINE start == [Empty(c) EXCEPT !.count = t.count]
            Step(n, x) == IF n - 1 \in Live(t) THEN Move(x, t.buckets[n - 1]) ELSE x
            Solves(f, N) == f = [n \in 0..N |-> IF n = 0 THEN start ELSE Step(n, f[n - 1])]
<1>1. InOrder(Move, start, t) = (CHOOSE f : Solves(f, t.capacity))[t.capacity]
  BY DEF InOrder
<1>. HIDE DEF Step, start
<1>2. ASSUME NEW N \in Nat
      PROVE  \E f : Solves(f, N)
  <2>. DEFINE Chain(f, M) == /\ f = [n \in 0..M |-> f[n]]
                             /\ f[0] = start
                             /\ \A n \in 1..M : f[n] = Step(n, f[n - 1])
              Bad == {M \in Nat : ~\E f : Chain(f, M)}
  <2>1. Bad = {}
    <3>. SUFFICES ASSUME Bad # {} PROVE FALSE OBVIOUS
    <3>1. PICK M \in Bad : \A K \in Bad : M <= K BY LeastElement
    <3>2. CASE M = 0
      <4>1. Chain([n \in 0..0 |-> start], 0) OBVIOUS
      <4>. QED BY <4>1, <3>1, <3>2
    <3>3. CASE M # 0
      <4>1. M \in Nat /\ M - 1 \in Nat /\ ~(M <= M - 1) BY <3>1, <3>3
      <4>2. PICK f : Chain(f, M - 1)
        <5>. HIDE DEF Chain
        <5>1. M - 1 \notin Bad BY <3>1, <4>1
        <5>. QED BY <4>1, <5>1
      <4>. DEFINE g == [n \in 0..M |-> IF n = M THEN Step(M, f[M - 1]) ELSE f[n]]
      <4>3. g = [n \in 0..M |-> g[n]] OBVIOUS
      <4>4. g[0] = start BY <4>1, <4>2
      <4>5. ASSUME NEW n \in 1..M PROVE g[n] = Step(n, g[n - 1])
        <5>1. g[n - 1] = f[n - 1] BY <4>1
        <5>2. CASE n = M BY <5>1, <5>2
        <5>3. CASE n # M
          <6>1. n \in 1..M - 1 /\ g[n] = f[n] BY <5>3
          <6>. QED BY <6>1, <5>1, <4>2
        <5>. QED BY <5>2, <5>3
      <4>6. Chain(g, M) BY <4>3, <4>4, <4>5
      <4>. QED BY <4>6, <3>1
    <3>. QED BY <3>2, <3>3
  <2>2. PICK f : Chain(f, N) BY <2>1
  <2>3. \A n \in 0..N : f[n] = IF n = 0 THEN start ELSE Step(n, f[n - 1])
    <3>1. \A n \in 0..N : n = 0 \/ n \in 1..N OBVIOUS
    <3>. HIDE DEF Step
    <3>. QED BY <2>2, <3>1
  <2>4. Solves(f, N) BY <2>2, <2>3
  <2>. QED BY <2>4
<1>3. PICK f : /\ Solves(f, t.capacity)
               /\ InOrder(Move, start, t) = f[t.capacity]
  <2>1. t.capacity \in Nat BY DEF Sound
  <2>2. \E f : Solves(f, t.capacity) BY <1>2, <2>1
  <2>. HIDE DEF Solves
  <2>3. Solves(CHOOSE f : Solves(f, t.capacity), t.capacity) BY <2>2
  <2>. QED BY <1>1, <2>3
<1>4. /\ t.capacity \in Nat \ {0} /\ t \in Tables(t.capacity) /\ OneBucket(t)
      /\ Live(t) \subseteq 0..t.capacity - 1
      /\ t.count \in Nat
  BY TableParts DEF Sound
<1>5. /\ f[0] = start
      /\ \A n \in 1..t.capacity : f[n] = Step(n, f[n - 1])
  <2>1. 0 \in 0..t.capacity /\ \A n \in 1..t.capacity : n \in 0..t.capacity /\ n # 0 BY <1>4
  <2>. QED BY <1>3, <2>1
<1>. DEFINE Below(n) == {i \in Live(t) : i < n}
            Right(u, n) == /\ u.capacity = c /\ u.count = t.count
                           /\ Sound(u)
                           /\ Entries(u) = {t.buckets[i] : i \in Below(n)}
                           /\ Cardinality(Live(u)) = Cardinality(Below(n))
                           /\ Unused(u) = Free(u)
            Bad == {n \in 0..t.capacity : ~Right(f[n], n)}
<1>6. Right(f[0], 0)
  <2>1. /\ Empty(c).capacity = c /\ Sound(Empty(c)) /\ Empty(c) \in Tables(Empty(c).capacity)
        /\ Live(Empty(c)) = {} /\ Entries(Empty(c)) = {} /\ Free(Empty(c)) = Unused(Empty(c))
    BY EmptyTable DEF Sound
  <2>2. PICK e : e = Empty(c) OBVIOUS
  <2>3. PICK s : s = [e EXCEPT !.count = t.count] OBVIOUS
  <2>4. /\ s.capacity = c /\ s.count = t.count /\ Sound(s)
        /\ Live(s) = {} /\ Entries(s) = {} /\ Unused(s) = Unused(e)
    BY <1>4, <2>1, <2>2, <2>3, Recounted
  <2>5. DOMAIN s.buckets = DOMAIN e.buckets BY <2>3, <2>1, <2>2 DEF Tables
  <2>6. Unused(s) = Free(s) BY <2>1, <2>2, <2>4, <2>5 DEF Free
  <2>7. Below(0) = {} BY <1>4
  <2>8. f[0] = s BY <1>5, <2>2, <2>3 DEF start
  <2>. QED BY <2>4, <2>6, <2>7, <2>8
<1>7. ASSUME NEW n \in 1..t.capacity, Right(f[n - 1], n - 1)
      PROVE  Right(f[n], n)
  <2>1. PICK u : u = f[n - 1] OBVIOUS
  <2>2. Right(u, n - 1) BY <1>7, <2>1
  <2>3. CASE n - 1 \in Live(t)
    <3>1. PICK b \in Buckets : b = t.buckets[n - 1]
      <4>1. t.buckets[n - 1] \in Buckets BY <1>4, <2>3, TableParts
      <4>. QED BY <4>1
    <3>2. Below(n) = Below(n - 1) \cup {n - 1} /\ n - 1 \notin Below(n - 1) BY <1>4, <2>3
    <3>3. /\ IsFiniteSet(Below(n - 1)) /\ IsFiniteSet(Below(n))
          /\ Cardinality(Below(n)) = Cardinality(Below(n - 1)) + 1
          /\ Cardinality(Below(n - 1)) \in Nat
          /\ Cardinality(Below(n)) <= Cardinality(Live(t))
      <4>1. IsFiniteSet(Live(t)) /\ Cardinality(Live(t)) \in Nat BY <1>4, Counted
      <4>2. Below(n) \subseteq Live(t) /\ Below(n - 1) \subseteq Live(t) OBVIOUS
      <4>. HIDE DEF Below
      <4>. QED BY <4>1, <4>2, <3>2, FS_Subset, FS_AddElement, FS_CardinalityType
    <3>4. /\ u.capacity = c /\ u \in Tables(u.capacity) /\ u.capacity \in Nat /\ Sound(u)
          /\ Unused(u) = Free(u) /\ Cardinality(Live(u)) = Cardinality(Below(n - 1))
          /\ Entries(u) = {t.buckets[i] : i \in Below(n - 1)} /\ u.count = t.count
      BY <2>2 DEF Sound
    <3>5. Cardinality(Live(u)) < u.capacity
      <4>1. PICK x \in Nat : x = Cardinality(Below(n - 1)) BY <3>3
      <4>2. IsFiniteSet(Live(t)) /\ Cardinality(Live(t)) \in Nat BY <1>4, Counted
      <4>3. x + 1 <= Cardinality(Live(t)) BY <3>3, <4>1
      <4>. QED BY <3>4, <4>1, <4>2, <4>3
    <3>6. Free(u) # {} /\ IsFiniteSet(Live(u)) BY <3>4, <3>5, Counted
    <3>7. \A e \in Entries(u) : e.key # b.key
      <4>1. \A i \in Below(n - 1) : t.buckets[i].key # t.buckets[n - 1].key
        BY <1>4, <2>3, <3>2 DEF OneBucket
      <4>. QED BY <3>1, <3>4, <4>1
    <3>8. PICK i : i = Search(u, b.hash, Free(u)) OBVIOUS
    <3>9. PICK w : w = Put(u, i, b) OBVIOUS
    <3>10. /\ i \in 0..u.capacity - 1 /\ i \notin Live(u)
           /\ w.capacity = u.capacity /\ w.count = u.count
           /\ Sound(w)
           /\ Live(w) = Live(u) \cup {i}
           /\ Unused(w) = Unused(u) \ {i}
           /\ Entries(w) = Entries(u) \cup {b}
      BY <3>1, <3>4, <3>6, <3>7, <3>8, <3>9, Inserted
    <3>11. f[n] = w BY <1>5, <2>1, <2>3, <3>1, <3>4, <3>8, <3>9 DEF Step, Move
    <3>12. Cardinality(Live(w)) = Cardinality(Below(n))
      <4>1. Cardinality(Live(u) \cup {i}) = Cardinality(Live(u)) + 1 BY <3>6, <3>10, FS_AddElement
      <4>. QED BY <4>1, <3>3, <3>4, <3>10
    <3>13. Unused(w) = Free(w)
      <4>1. w \in Tables(w.capacity) BY <3>10 DEF Sound
      <4>2. DOMAIN w.buckets = DOMAIN u.buckets BY <3>4, <3>10, <4>1, TableParts
      <4>. QED BY <3>4, <3>10, <4>2 DEF Free
    <3>14. Entries(w) = {t.buckets[j] : j \in Below(n)} BY <3>1, <3>2, <3>4, <3>10
    <3>. QED BY <3>4, <3>10, <3>11, <3>12, <3>13, <3>14
  <2>4. CASE n - 1 \notin Live(t)
    <3>1. f[n] = u BY <1>5, <2>1, <2>4 DEF Step
    <3>2. Below(n) = Below(n - 1) BY <1>4, <2>4
    <3>. QED BY <2>2, <3>1, <3>2
  <2>. QED BY <2>3, <2>4
<1>8. Bad = {}
  <2>. SUFFICES ASSUME Bad # {} PROVE FALSE OBVIOUS
  <2>1. Bad \in SUBSET Nat BY <1>4
  <2>. HIDE DEF Right
  <2>2. PICK n \in Bad : \A m \in Bad : n <= m
    <3>. HIDE DEF Bad
    <3>. QED BY <2>1, LeastElement
  <2>3. n # 0 BY <1>6, <2>2
  <2>4. n \in 1..t.capacity /\ n - 1 \in 0..t.capacity /\ ~(n <= n - 1) BY <1>4, <2>2, <2>3
  <2>5. Right(f[n - 1], n - 1) BY <2>2, <2>4
  <2>. QED BY <1>7, <2>2, <2>4, <2>5
<1>9. Right(f[t.capacity], t.capacity)
  <2>1. t.capacity \in 0..t.capacity BY <1>4
  <2>. HIDE DEF Right
  <2>. QED BY <1>8, <2>1
<1>10. Below(t.capacity) = Live(t) BY <1>4
<1>11. PICK r : r = InOrder(Move, start, t) OBVIOUS
<1>12. Right(r, t.capacity) BY <1>3, <1>9, <1>11
<1>13. /\ r.capacity = c /\ r.count = t.count
       /\ Sound(r)
       /\ Entries(r) = Entries(t)
       /\ Cardinality(Live(r)) = Cardinality(Live(t))
  BY <1>10, <1>12 DEF Entries
<1>. QED BY <1>11, <1>13 DEF start, Moved

(* How a quotient compares.                                                *)
LEMMA Quotient ==
    ASSUME NEW a \in Nat, NEW b \in Nat \ {0}, NEW q \in Nat
    PROVE  /\ a \div b \in Nat
           /\ a \div b >= q <=> a >= b * q
BY DivMod

(* A resized table holds the same buckets, and has room for n of them.     *)
LEMMA ResizedSound ==
    ASSUME NEW t, Sound(t), Roomy(t), NEW n \in {t.count, t.count + 1}
    PROVE  LET u == Resized(t, n)
           IN  /\ Sound(u)
               /\ u.capacity >= MinCapacity
               /\ u.count = t.count
               /\ u.count = Cardinality(Live(u))
               /\ 8 * n < 6 * u.capacity
               /\ Entries(u) = Entries(t)
<1>1. PICK c \in Nat \ {0}, k \in Nat :
        /\ c = t.capacity /\ k = t.count /\ k = Cardinality(Live(t))
        /\ c >= MinCapacity /\ 8 * k < 6 * c
  BY TableParts DEF Sound, Roomy
<1>2. MinCapacity \in Nat \ {0} BY MapAssumption DEF MapAssumption
<1>9. n \in {k, k + 1} /\ n \in Nat BY <1>1
<1>3. PICK f \in Nat : f = (n * 8) \div c /\ (f >= 6 <=> n * 8 >= c * 6) /\ (f >= 2 <=> n * 8 >= c * 2)
  <2>1. n * 8 \in Nat BY <1>9
  <2>. QED BY <2>1, Quotient
<1>4. PICK d \in Nat : d = c \div 2 /\ 2 * d <= c /\ c <= 2 * d + 1 OBVIOUS
<1>5. PICK e : e = IF f >= 6 THEN c * 2 ELSE IF f <= 1 THEN d ELSE c OBVIOUS
<1>6. Resized(t, n) = IF e = c \/ (e < c /\ n > k) \/ e < MinCapacity THEN t ELSE Moved(t, e)
  BY <1>1, <1>3, <1>4, <1>5 DEF Resized
<1>7. CASE e = c \/ (e < c /\ n > k) \/ e < MinCapacity
  <2>1. Resized(t, n) = t BY <1>6, <1>7
  <2>2. f < 6 BY <1>1, <1>2, <1>5, <1>7
  <2>3. 8 * n < 6 * c BY <1>1, <1>3, <1>9, <2>2
  <2>. QED BY <1>1, <2>1, <2>3
<1>8. CASE ~(e = c \/ (e < c /\ n > k) \/ e < MinCapacity)
  <2>1. Resized(t, n) = Moved(t, e) BY <1>6, <1>8
  <2>2. e \in Nat \ {0} /\ e >= MinCapacity /\ k <= e /\ 8 * n < 6 * e
    <3>1. CASE f >= 6 BY <1>1, <1>2, <1>5, <1>8, <1>9, <3>1
    <3>2. CASE ~(f >= 6)
      <4>1. f <= 1 /\ e = d BY <1>1, <1>5, <1>8, <3>2
      <4>2. e < c BY <1>1, <1>4, <4>1
      <4>3. n * 8 < c * 2 /\ n = k BY <1>3, <1>8, <1>9, <4>1, <4>2
      <4>. QED BY <1>1, <1>2, <1>4, <1>8, <4>1, <4>3
    <3>. QED BY <3>1, <3>2
  <2>3. PICK u : u = Moved(t, e) OBVIOUS
  <2>4. /\ u.capacity = e /\ u.count = k /\ Sound(u) /\ Entries(u) = Entries(t)
        /\ Cardinality(Live(u)) = k
    BY <1>1, <2>2, <2>3, MovedAll
  <2>. QED BY <1>1, <2>1, <2>2, <2>3, <2>4
<1>. QED BY <1>7, <1>8

(* A new key has a place, and is the only one added.                       *)
LEMMA AddedSound ==
    ASSUME NEW t, Sound(t), Roomy(t), NEW k \in Keys, NEW v \in Values, NEW h \in Nat,
           \A e \in Entries(t) : e.key # k
    PROVE  /\ Place(Resized(t, t.count + 1), h) # None
           /\ Sound(Added(t, k, v, h)) /\ Roomy(Added(t, k, v, h))
           /\ Added(t, k, v, h).count = t.count + 1
           /\ Entries(Added(t, k, v, h)) = Entries(t) \cup {Bucket(k, v, h)}
<1>1. PICK n \in Nat : n = t.count BY TableParts DEF Sound
<1>2. PICK u : u = Resized(t, n + 1) OBVIOUS
<1>3. /\ Sound(u) /\ u.capacity >= MinCapacity /\ u.count = n /\ n = Cardinality(Live(u))
      /\ 8 * (n + 1) < 6 * u.capacity /\ Entries(u) = Entries(t)
  <2>1. n + 1 \in {t.count, t.count + 1} BY <1>1
  <2>. QED BY <1>1, <1>2, <2>1, ResizedSound
<1>4. u.capacity \in Nat \ {0} /\ u \in Tables(u.capacity) BY <1>3 DEF Sound
<1>5. n < u.capacity BY <1>3, <1>4
<1>6. Free(u) # {} /\ IsFiniteSet(Live(u)) BY <1>3, <1>4, <1>5, Counted
<1>7. PICK b \in Buckets : b = Bucket(k, v, h) BY Kinds
<1>8. b.key = k /\ b.hash = h BY <1>7, Kinds
<1>9. PICK i : i = Place(u, h) OBVIOUS
<1>10. PICK w : w = Put(u, i, b) OBVIOUS
<1>11. i = Search(u, b.hash, Free(u)) BY <1>8, <1>9 DEF Place
<1>12. /\ i \in 0..u.capacity - 1 /\ i \notin Live(u)
       /\ w.capacity = u.capacity /\ w.count = u.count
       /\ Sound(w)
       /\ Live(w) = Live(u) \cup {i}
       /\ Entries(w) = Entries(u) \cup {b}
  BY <1>3, <1>6, <1>8, <1>10, <1>11, Inserted
<1>13. PICK x : x = [w EXCEPT !.count = n + 1] OBVIOUS
<1>14. /\ x.capacity = w.capacity /\ x.count = n + 1
       /\ Live(x) = Live(w) /\ Entries(x) = Entries(w)
       /\ Sound(x)
  <2>1. w \in Tables(w.capacity) /\ n + 1 \in Nat BY <1>12 DEF Sound
  <2>. QED BY <1>12, <1>13, <2>1, Recounted
<1>15. Added(t, k, v, h) = x
  <2>1. Added(t, k, v, h) = [w EXCEPT !.count = w.count + 1]
    BY <1>1, <1>2, <1>7, <1>9, <1>10 DEF Added
  <2>. QED BY <2>1, <1>3, <1>12, <1>13
<1>16. Cardinality(Live(x)) = n + 1
  <2>1. Cardinality(Live(u) \cup {i}) = Cardinality(Live(u)) + 1 BY <1>6, <1>12, FS_AddElement
  <2>. QED BY <2>1, <1>3, <1>12, <1>14
<1>17. Roomy(x) BY <1>3, <1>12, <1>14, <1>16 DEF Roomy
<1>18. i # None
  <2>1. i \in Nat BY <1>4, <1>12
  <2>. QED BY <2>1, MapAssumption DEF MapAssumption
<1>. QED BY <1>1, <1>2, <1>3, <1>7, <1>9, <1>12, <1>14, <1>15, <1>17, <1>18

(* A copy holds the keys and objects of the table, under other hashes.     *)
LEMMA CopiedAll ==
    ASSUME NEW t, Sound(t), Roomy(t), NEW hf \in [Keys -> Nat]
    PROVE  /\ Sound(Copied(t, hf)) /\ Roomy(Copied(t, hf))
           /\ Copied(t, hf).count = Cardinality(Live(t))
           /\ Entries(Copied(t, hf)) = {Bucket(e.key, e.object, hf[e.key]) : e \in Entries(t)}
<1>. DEFINE Set(u, b) == Added(u, b.key, b.object, hf[b.key])
            start == Empty(2 * t.capacity)
            Step(n, x) == IF n - 1 \in Live(t) THEN Set(x, t.buckets[n - 1]) ELSE x
            Solves(f, N) == f = [n \in 0..N |-> IF n = 0 THEN start ELSE Step(n, f[n - 1])]
<1>1. Copied(t, hf) = (CHOOSE f : Solves(f, t.capacity))[t.capacity]
  BY DEF Copied, InOrder
<1>. HIDE DEF Step, start, Set
<1>2. ASSUME NEW N \in Nat
      PROVE  \E f : Solves(f, N)
  <2>. DEFINE Chain(f, M) == /\ f = [n \in 0..M |-> f[n]]
                             /\ f[0] = start
                             /\ \A n \in 1..M : f[n] = Step(n, f[n - 1])
              Bad == {M \in Nat : ~\E f : Chain(f, M)}
  <2>1. Bad = {}
    <3>. SUFFICES ASSUME Bad # {} PROVE FALSE OBVIOUS
    <3>1. PICK M \in Bad : \A K \in Bad : M <= K BY LeastElement
    <3>2. CASE M = 0
      <4>1. Chain([n \in 0..0 |-> start], 0) OBVIOUS
      <4>. QED BY <4>1, <3>1, <3>2
    <3>3. CASE M # 0
      <4>1. M \in Nat /\ M - 1 \in Nat /\ ~(M <= M - 1) BY <3>1, <3>3
      <4>2. PICK f : Chain(f, M - 1)
        <5>. HIDE DEF Chain
        <5>1. M - 1 \notin Bad BY <3>1, <4>1
        <5>. QED BY <4>1, <5>1
      <4>. DEFINE g == [n \in 0..M |-> IF n = M THEN Step(M, f[M - 1]) ELSE f[n]]
      <4>3. g = [n \in 0..M |-> g[n]] OBVIOUS
      <4>4. g[0] = start BY <4>1, <4>2
      <4>5. ASSUME NEW n \in 1..M PROVE g[n] = Step(n, g[n - 1])
        <5>1. g[n - 1] = f[n - 1] BY <4>1
        <5>2. CASE n = M BY <5>1, <5>2
        <5>3. CASE n # M
          <6>1. n \in 1..M - 1 /\ g[n] = f[n] BY <5>3
          <6>. QED BY <6>1, <5>1, <4>2
        <5>. QED BY <5>2, <5>3
      <4>6. Chain(g, M) BY <4>3, <4>4, <4>5
      <4>. QED BY <4>6, <3>1
    <3>. QED BY <3>2, <3>3
  <2>2. PICK f : Chain(f, N) BY <2>1
  <2>3. \A n \in 0..N : f[n] = IF n = 0 THEN start ELSE Step(n, f[n - 1])
    <3>1. \A n \in 0..N : n = 0 \/ n \in 1..N OBVIOUS
    <3>. HIDE DEF Step
    <3>. QED BY <2>2, <3>1
  <2>4. Solves(f, N) BY <2>2, <2>3
  <2>. QED BY <2>4
<1>3. PICK f : /\ Solves(f, t.capacity)
               /\ Copied(t, hf) = f[t.capacity]
  <2>1. t.capacity \in Nat BY DEF Sound
  <2>2. \E f : Solves(f, t.capacity) BY <1>2, <2>1
  <2>. HIDE DEF Solves
  <2>3. Solves(CHOOSE f : Solves(f, t.capacity), t.capacity) BY <2>2
  <2>. QED BY <1>1, <2>3
<1>4. /\ t.capacity \in Nat \ {0} /\ t \in Tables(t.capacity) /\ OneBucket(t)
      /\ Live(t) \subseteq 0..t.capacity - 1
  BY TableParts DEF Sound
<1>5. /\ f[0] = start
      /\ \A n \in 1..t.capacity : f[n] = Step(n, f[n - 1])
  <2>1. 0 \in 0..t.capacity /\ \A n \in 1..t.capacity : n \in 0..t.capacity /\ n # 0 BY <1>4
  <2>. QED BY <1>3, <2>1
<1>. DEFINE Below(n) == {i \in Live(t) : i < n}
            As(b) == Bucket(b.key, b.object, hf[b.key])
            Right(u, n) == /\ Sound(u) /\ Roomy(u)
                           /\ Entries(u) = {As(t.buckets[i]) : i \in Below(n)}
                           /\ u.count = Cardinality(Below(n))
            Bad == {n \in 0..t.capacity : ~Right(f[n], n)}
<1>. HIDE DEF As
<1>6. Right(f[0], 0)
  <2>1. PICK c \in Nat \ {0} : c = 2 * t.capacity BY <1>4
  <2>2. PICK e : e = Empty(c) OBVIOUS
  <2>3. e.capacity = c /\ e.count = 0 /\ Sound(e) /\ Live(e) = {} /\ Entries(e) = {}
    BY <2>2, EmptyTable
  <2>4. Cardinality({}) = 0 BY FS_EmptySet
  <2>5. Roomy(e)
    <3>1. c >= MinCapacity
      <4>1. t.capacity >= MinCapacity BY DEF Roomy
      <4>. QED BY <4>1, <2>1, <1>4, MapAssumption DEF MapAssumption
    <3>. QED BY <2>3, <2>4, <3>1 DEF Roomy
  <2>6. Below(0) = {} BY <1>4
  <2>7. f[0] = e BY <1>5, <2>1, <2>2 DEF start
  <2>. QED BY <2>3, <2>4, <2>5, <2>6, <2>7
<1>7. ASSUME NEW n \in 1..t.capacity, Right(f[n - 1], n - 1)
      PROVE  Right(f[n], n)
  <2>1. PICK u : u = f[n - 1] OBVIOUS
  <2>2. Right(u, n - 1) BY <1>7, <2>1
  <2>3. CASE n - 1 \in Live(t)
    <3>1. PICK b \in Buckets : b = t.buckets[n - 1]
      <4>1. t.buckets[n - 1] \in Buckets BY <1>4, <2>3, TableParts
      <4>. QED BY <4>1
    <3>2. b.key \in Keys /\ b.object \in Values /\ hf[b.key] \in Nat BY Kinds
    <3>3. Below(n) = Below(n - 1) \cup {n - 1} /\ n - 1 \notin Below(n - 1) BY <1>4, <2>3
    <3>4. Cardinality(Below(n)) = Cardinality(Below(n - 1)) + 1
      <4>1. IsFiniteSet(Live(t)) BY <1>4, Counted
      <4>2. Below(n - 1) \subseteq Live(t) OBVIOUS
      <4>. HIDE DEF Below
      <4>. QED BY <4>1, <4>2, <3>3, FS_Subset, FS_AddElement
    <3>5. \A e \in Entries(u) : e.key # b.key
      <4>1. \A i \in Below(n - 1) : t.buckets[i].key # b.key
        BY <1>4, <2>3, <3>1, <3>3 DEF OneBucket
      <4>2. \A i \in Below(n - 1) : As(t.buckets[i]).key = t.buckets[i].key BY Kinds DEF As
      <4>. QED BY <2>2, <4>1, <4>2
    <3>6. PICK w : w = Added(u, b.key, b.object, hf[b.key]) OBVIOUS
    <3>7. /\ Sound(w) /\ Roomy(w) /\ w.count = u.count + 1
          /\ Entries(w) = Entries(u) \cup {As(b)}
      <4>1. Sound(u) /\ Roomy(u) BY <2>2
      <4>. QED BY <3>2, <3>5, <3>6, <4>1, AddedSound DEF As
    <3>8. f[n] = w BY <1>5, <2>1, <2>3, <3>1, <3>6 DEF Step, Set
    <3>9. Entries(w) = {As(t.buckets[j]) : j \in Below(n)} BY <2>2, <3>1, <3>3, <3>7
    <3>. QED BY <2>2, <3>4, <3>7, <3>8, <3>9
  <2>4. CASE n - 1 \notin Live(t)
    <3>1. f[n] = u BY <1>5, <2>1, <2>4 DEF Step
    <3>2. Below(n) = Below(n - 1) BY <1>4, <2>4
    <3>. QED BY <2>2, <3>1, <3>2
  <2>. QED BY <2>3, <2>4
<1>8. Bad = {}
  <2>. SUFFICES ASSUME Bad # {} PROVE FALSE OBVIOUS
  <2>1. Bad \in SUBSET Nat BY <1>4
  <2>. HIDE DEF Right
  <2>2. PICK n \in Bad : \A m \in Bad : n <= m
    <3>. HIDE DEF Bad
    <3>. QED BY <2>1, LeastElement
  <2>3. n # 0 BY <1>6, <2>2
  <2>4. n \in 1..t.capacity /\ n - 1 \in 0..t.capacity /\ ~(n <= n - 1) BY <1>4, <2>2, <2>3
  <2>5. Right(f[n - 1], n - 1) BY <2>2, <2>4
  <2>. QED BY <1>7, <2>2, <2>4, <2>5
<1>9. Right(f[t.capacity], t.capacity)
  <2>1. t.capacity \in 0..t.capacity BY <1>4
  <2>. HIDE DEF Right
  <2>. QED BY <1>8, <2>1
<1>10. Below(t.capacity) = Live(t) BY <1>4
<1>11. PICK r : r = Copied(t, hf) OBVIOUS
<1>12. Right(r, t.capacity) BY <1>3, <1>9, <1>11
<1>13. Entries(r) = {As(e) : e \in Entries(t)} BY <1>10, <1>12 DEF Entries
<1>. QED BY <1>10, <1>11, <1>12, <1>13 DEF As

-----------------------------------------------------------------------------
(* The keys of the dictionary are those of the buckets.                    *)
LEMMA Represented ==
    ASSUME NEW t, Sound(t), NEW h, NEW c \in [Keys -> Values \cup {None}], Represents(t, h, c)
    PROVE  \A k \in Keys : c[k] # None <=> \E e \in Entries(t) : e.key = k
<1>1. \A e \in Entries(t) : e.object \in Values /\ e.object = c[e.key]
  BY Entered, Kinds DEF Sound, Represents
<1>2. None \notin Values BY MapAssumption DEF MapAssumption
<1>. QED BY <1>1, <1>2 DEF Represents

(* A mutation puts every enumerator out of use.                            *)
LEMMA MutatedEnumerator ==
    ASSUME enum \in Enumerators, Mutated
    PROVE  enum' \in Enumerators /\ ~(enum'.on /\ ~enum'.mutated)
<1>1. /\ enum'.on = enum.on /\ enum'.mutated = (enum.mutated \/ enum.on)
      /\ enum' \in Enumerators
  BY DEF Mutated, Enumerators
<1>. QED BY <1>1 DEF Enumerators

(* A new dictionary is empty.                                              *)
LEMMA MapStart == ASSUME MapInit(Hashes) PROVE MapInv
<1>1. PICK c \in Nat \ {0} : table = Empty(c) /\ c >= MinCapacity
  BY MapAssumption DEF MapInit, MapAssumption
<1>2. /\ table.capacity = c /\ table.count = 0 /\ Sound(table)
      /\ Live(table) = {} /\ Entries(table) = {}
  BY <1>1, EmptyTable
<1>3. Cardinality({}) = 0 /\ IsFiniteSet({}) BY FS_EmptySet
<1>4. Roomy(table) BY <1>1, <1>2, <1>3 DEF Roomy
<1>5. contents \in [Keys -> Values \cup {None}] /\ KeysOf(contents) = {} BY DEF MapInit, KeysOf
<1>6. Represents(table, hash, contents) BY <1>2, <1>5 DEF Represents, KeysOf
<1>7. hash \in [Keys -> Nat] BY MapAssumption DEF MapInit, MapAssumption
<1>8. enum \in Enumerators /\ ~enum.on BY DEF MapInit, NoEnumerator, Enumerators
<1>9. failed = FALSE BY DEF MapInit
<1>. QED BY <1>2, <1>3, <1>4, <1>5, <1>6, <1>7, <1>8, <1>9 DEF MapInv

(* The same places with the same keys, and other objects.                  *)
LEMMA SameKeys ==
    ASSUME NEW t, Sound(t), NEW u, u.capacity = t.capacity, u \in Tables(t.capacity),
           Live(u) = Live(t), Unused(u) = Unused(t),
           \A i \in Live(t) : /\ u.buckets[i].key = t.buckets[i].key
                              /\ u.buckets[i].hash = t.buckets[i].hash
    PROVE  /\ Sound(u)
           /\ Roomy(t) /\ u.count = t.count => Roomy(u)
           /\ \A e : Enumerated(e, t) => Enumerated(e, u)
<1>1. OneBucket(u) BY DEF Sound, OneBucket
<1>2. \A i \in Live(u) : Reached(u, i) BY DEF Sound, Reached
<1>3. Sound(u) BY <1>1, <1>2 DEF Sound
<1>4. Roomy(t) /\ u.count = t.count => Roomy(u) BY DEF Roomy
<1>5. ASSUME NEW e, Enumerated(e, t)
      PROVE  Enumerated(e, u)
  <2>1. {u.buckets[i].key : i \in {j \in Live(u) : j < e.position}}
          = {t.buckets[i].key : i \in {j \in Live(t) : j < e.position}}
    OBVIOUS
  <2>. QED BY <1>5, <2>1 DEF Enumerated
<1>. QED BY <1>3, <1>4, <1>5

(* Every call keeps the invariant.                                         *)
LEMMA RemoveStep ==
    ASSUME MapInv, NEW k \in Keys, RemoveObject(k)
    PROVE  MapInv'
<1>1. /\ hash \in [Keys -> Nat] /\ contents \in [Keys -> Values \cup {None}] /\ failed = FALSE
      /\ Sound(table) /\ Roomy(table) /\ Represents(table, hash, contents)
      /\ IsFiniteSet(KeysOf(contents)) /\ table.count = Cardinality(KeysOf(contents))
      /\ enum \in Enumerators
  BY DEF MapInv
<1>2. PICK i : i = Find(table, k, hash[k]) OBVIOUS
<1>3. /\ contents' = [contents EXCEPT ![k] = None]
      /\ hash' = hash /\ failed' = failed
  BY DEF RemoveObject
<1>4. /\ i # None => i \in Holding(table, k)
      /\ i = None => \A e \in Entries(table) : e.key # k
  <2>1. hash[k] \in Nat /\ \A e \in Entries(table) : e.key = k => e.hash = hash[k]
    BY <1>1 DEF Represents
  <2>. QED BY <1>1, <1>2, <2>1, Found
<1>5. CASE i = None
  <2>1. table' = table /\ enum' = enum BY <1>2, <1>5 DEF RemoveObject
  <2>2. contents[k] = None BY <1>1, <1>4, <1>5 DEF Represents
  <2>3. contents' = contents BY <1>1, <1>3, <2>2
  <2>. QED BY <1>3, <2>1, <2>3 DEF MapInv
<1>6. CASE i # None
  <2>1. PICK v : v = Put(table, i, Deleted) OBVIOUS
  <2>2. i \in Live(table) /\ table.buckets[i].key = k BY <1>4, <1>6 DEF Holding
  <2>3. /\ v.capacity = table.capacity /\ v.count = table.count
        /\ Sound(v)
        /\ Live(v) = Live(table) \ {i}
        /\ Entries(v) = {e \in Entries(table) : e.key # k}
    BY <1>1, <2>1, <2>2, Vacated
  <2>4. table.capacity \in Nat \ {0} /\ table \in Tables(table.capacity) /\ v \in Tables(v.capacity)
    BY <1>1, <2>3 DEF Sound
  <2>5. /\ IsFiniteSet(Live(table)) /\ Cardinality(Live(v)) = Cardinality(Live(table)) - 1
        /\ Cardinality(Live(v)) \in Nat
    <3>1. IsFiniteSet(Live(table)) BY <2>4, Counted
    <3>2. IsFiniteSet(Live(table) \ {i}) /\ Cardinality(Live(table) \ {i}) = Cardinality(Live(table)) - 1
      BY <2>2, <3>1, FS_RemoveElement
    <3>. QED BY <2>3, <3>1, <3>2, FS_CardinalityType
  <2>6. PICK n \in Nat : n = Cardinality(Live(v)) BY <2>5
  <2>7. table.count = n + 1
    <3>1. table.count = Cardinality(Live(table)) BY <1>1 DEF Roomy
    <3>2. Cardinality(Live(table)) \in Nat BY <2>5, FS_CardinalityType
    <3>. QED BY <2>5, <2>6, <3>1, <3>2
  <2>8. PICK t : t = [v EXCEPT !.count = n] OBVIOUS
  <2>9. /\ t.capacity = v.capacity /\ t.count = n /\ Sound(t)
        /\ Live(t) = Live(v) /\ Entries(t) = Entries(v)
    BY <2>3, <2>4, <2>8, Recounted
  <2>10. Roomy(t)
    <3>1. table.capacity >= MinCapacity /\ 8 * table.count < 6 * table.capacity BY <1>1 DEF Roomy
    <3>2. 8 * n < 6 * table.capacity BY <2>4, <2>7, <3>1
    <3>. QED BY <2>3, <2>6, <2>9, <3>1, <3>2 DEF Roomy
  <2>11. table' = Resized(t, n) /\ Mutated
    <3>1. t = [v EXCEPT !.count = v.count - 1] BY <2>3, <2>7, <2>8
    <3>. QED BY <1>2, <1>6, <2>1, <2>9, <3>1 DEF RemoveObject
  <2>12. /\ Sound(table') /\ Roomy(table')
         /\ table'.count = n
         /\ Entries(table') = Entries(t)
    <3>1. n \in {t.count, t.count + 1} BY <2>9
    <3>. QED BY <2>9, <2>10, <2>11, <3>1, ResizedSound DEF Roomy
  <2>13. \A l \in Keys : contents'[l] = IF l = k THEN None ELSE contents[l] BY <1>1, <1>3
  <2>14. contents' \in [Keys -> Values \cup {None}] BY <1>1, <1>3
  <2>15. Represents(table', hash', contents')
    <3>1. \A e \in Entries(table) : e.key \in Keys
      BY <2>4, Entered, Kinds
    <3>2. Entries(table') = {e \in Entries(table) : e.key # k} BY <2>3, <2>9, <2>12
    <3>. QED BY <1>1, <1>3, <2>13, <3>1, <3>2 DEF Represents
  <2>16. contents[k] # None BY <1>1, <2>2, <2>4, Entered, Represented
  <2>17. KeysOf(contents') = KeysOf(contents) \ {k} /\ k \in KeysOf(contents)
    BY <2>13, <2>16 DEF KeysOf
  <2>18. IsFiniteSet(KeysOf(contents')) /\ Cardinality(KeysOf(contents')) = n
    <3>1. /\ IsFiniteSet(KeysOf(contents) \ {k})
          /\ Cardinality(KeysOf(contents) \ {k}) = Cardinality(KeysOf(contents)) - 1
      BY <1>1, <2>17, FS_RemoveElement
    <3>. QED BY <1>1, <2>7, <2>17, <3>1
  <2>19. enum' \in Enumerators /\ ~(enum'.on /\ ~enum'.mutated)
    BY <1>1, <2>11, MutatedEnumerator
  <2>. QED BY <1>1, <1>3, <2>12, <2>14, <2>15, <2>18, <2>19 DEF MapInv
<1>. QED BY <1>5, <1>6

LEMMA SetStep ==
    ASSUME MapInv, NEW k \in Keys, NEW v \in Values, SetObject(k, v)
    PROVE  MapInv'
<1>1. /\ hash \in [Keys -> Nat] /\ contents \in [Keys -> Values \cup {None}] /\ failed = FALSE
      /\ Sound(table) /\ Roomy(table) /\ Represents(table, hash, contents)
      /\ IsFiniteSet(KeysOf(contents)) /\ table.count = Cardinality(KeysOf(contents))
      /\ enum \in Enumerators /\ (enum.on /\ ~enum.mutated => Enumerated(enum, table))
  BY DEF MapInv
<1>2. PICK i : i = Find(table, k, hash[k]) OBVIOUS
<1>3. contents' = [contents EXCEPT ![k] = v] /\ hash' = hash BY DEF SetObject
<1>4. /\ i # None => i \in Holding(table, k)
      /\ i = None => \A e \in Entries(table) : e.key # k
  <2>1. hash[k] \in Nat /\ \A e \in Entries(table) : e.key = k => e.hash = hash[k]
    BY <1>1 DEF Represents
  <2>. QED BY <1>1, <1>2, <2>1, Found
<1>5. /\ \A l \in Keys : contents'[l] = IF l = k THEN v ELSE contents[l]
      /\ contents' \in [Keys -> Values \cup {None}]
  BY <1>1, <1>3
<1>6. /\ table.capacity \in Nat \ {0} /\ table \in Tables(table.capacity)
      /\ OneBucket(table)
  BY <1>1 DEF Sound
<1>7. v # None BY MapAssumption DEF MapAssumption
<1>8. KeysOf(contents') = KeysOf(contents) \cup {k} BY <1>5, <1>7 DEF KeysOf
<1>9. CASE i # None
  <2>1. i \in Live(table) /\ table.buckets[i].key = k BY <1>4, <1>9 DEF Holding
  <2>2. PICK b : b = table.buckets[i] OBVIOUS
  <2>3. b \in Buckets /\ b \in Entries(table) /\ i \in 0..table.capacity - 1
    BY <1>6, <2>1, <2>2, TableParts DEF Entries
  <2>4. PICK c : c = [b EXCEPT !.object = v] OBVIOUS
  <2>5. c \in Buckets /\ c.key = k /\ c.hash = b.hash /\ c.object = v
    BY <2>1, <2>2, <2>3, <2>4 DEF Buckets
  <2>6. PICK u : u = Put(table, i, c) OBVIOUS
  <2>7. table' = u /\ enum' = enum /\ failed' = failed
    BY <1>2, <1>9, <2>2, <2>4, <2>6 DEF SetObject
  <2>8. u.capacity = table.capacity /\ u.count = table.count /\ u \in Tables(table.capacity)
    <3>1. c \in Buckets \cup {Null, Deleted} BY <2>5
    <3>. QED BY <1>6, <2>3, <2>6, <3>1, PutParts
  <2>9. /\ Live(u) = Live(table) /\ Unused(u) = Unused(table)
        /\ \A j \in Live(table) \ {i} : u.buckets[j] = table.buckets[j]
        /\ u.buckets[i] = c
    <3>1. i \notin Unused(table) BY <2>2, <2>3, Kinds DEF Unused
    <3>2. /\ Live(u) = Live(table) \cup {i} /\ Unused(u) = Unused(table) \ {i}
          /\ \A j \in Live(table) \ {i} : u.buckets[j] = table.buckets[j]
          /\ u.buckets[i] = c
      BY <1>6, <2>3, <2>5, <2>6, PutBucket
    <3>. QED BY <2>1, <3>1, <3>2
  <2>10. \A j \in Live(table) : /\ u.buckets[j].key = table.buckets[j].key
                                /\ u.buckets[j].hash = table.buckets[j].hash
    BY <2>1, <2>2, <2>5, <2>9
  <2>11. /\ Sound(u) /\ Roomy(u)
         /\ \A e : Enumerated(e, table) => Enumerated(e, u)
    BY <1>1, <2>8, <2>9, <2>10, SameKeys
  <2>12. Entries(u) = {e \in Entries(table) : e.key # k} \cup {c}
    BY <1>6, <2>1, <2>9 DEF Entries, OneBucket
  <2>13. Represents(u, hash, contents')
    <3>1. b.hash = hash[k] /\ \A e \in Entries(table) : e.key \in Keys
      BY <1>1, <1>6, <2>1, <2>2, <2>3, Entered, Kinds DEF Represents
    <3>2. \A e \in Entries(u) : e.hash = hash[e.key] /\ e.object = contents'[e.key]
      BY <1>1, <1>5, <2>5, <2>12, <3>1 DEF Represents
    <3>3. ASSUME NEW l \in Keys, contents'[l] # None
          PROVE  \E e \in Entries(u) : e.key = l
      <4>1. CASE l = k BY <4>1, <2>5, <2>12
      <4>2. CASE l # k
        <5>1. contents[l] # None BY <1>5, <3>3, <4>2
        <5>2. PICK e \in Entries(table) : e.key = l BY <1>1, <5>1 DEF Represents
        <5>. QED BY <2>12, <4>2, <5>2
      <4>. QED BY <4>1, <4>2
    <3>. QED BY <3>2, <3>3 DEF Represents
  <2>14. KeysOf(contents') = KeysOf(contents)
    <3>1. contents[k] # None BY <1>1, <2>1, <2>2, <2>3, Represented
    <3>. QED BY <1>8, <3>1 DEF KeysOf
  <2>. QED BY <1>1, <1>3, <1>5, <2>7, <2>8, <2>11, <2>13, <2>14 DEF MapInv
<1>10. CASE i = None
  <2>1. \A e \in Entries(table) : e.key # k BY <1>4, <1>10
  <2>2. PICK h \in Nat : h = hash[k] BY <1>1
  <2>3. PICK u : u = Added(table, k, v, h) OBVIOUS
  <2>4. /\ Place(Resized(table, table.count + 1), h) # None
        /\ Sound(u) /\ Roomy(u)
        /\ u.count = table.count + 1
        /\ Entries(u) = Entries(table) \cup {Bucket(k, v, h)}
    BY <1>1, <2>1, <2>3, AddedSound
  <2>5. table' = u /\ failed' = failed /\ Mutated
    BY <1>2, <1>10, <2>2, <2>3, <2>4 DEF SetObject
  <2>6. Represents(u, hash, contents')
    <3>1. \A e \in Entries(table) : e.key \in Keys BY <1>6, Entered, Kinds
    <3>2. PICK b : b = Bucket(k, v, h) OBVIOUS
    <3>3. b.key = k /\ b.object = v /\ b.hash = h BY <3>2, Kinds
    <3>4. \A e \in Entries(u) : e.hash = hash[e.key] /\ e.object = contents'[e.key]
      BY <1>1, <1>5, <2>1, <2>2, <2>4, <3>1, <3>2, <3>3 DEF Represents
    <3>5. ASSUME NEW l \in Keys, contents'[l] # None
          PROVE  \E e \in Entries(u) : e.key = l
      <4>1. CASE l = k BY <4>1, <2>4, <3>2, <3>3
      <4>2. CASE l # k
        <5>1. contents[l] # None BY <1>5, <3>5, <4>2
        <5>2. PICK e \in Entries(table) : e.key = l BY <1>1, <5>1 DEF Represents
        <5>. QED BY <2>4, <5>2
      <4>. QED BY <4>1, <4>2
    <3>. QED BY <3>4, <3>5 DEF Represents
  <2>7. IsFiniteSet(KeysOf(contents')) /\ u.count = Cardinality(KeysOf(contents'))
    <3>1. k \notin KeysOf(contents) BY <1>1, <2>1, Represented DEF KeysOf
    <3>2. /\ IsFiniteSet(KeysOf(contents) \cup {k})
          /\ Cardinality(KeysOf(contents) \cup {k}) = Cardinality(KeysOf(contents)) + 1
      BY <1>1, <3>1, FS_AddElement
    <3>. QED BY <1>1, <1>8, <2>4, <3>2
  <2>8. enum' \in Enumerators /\ ~(enum'.on /\ ~enum'.mutated)
    BY <1>1, <2>5, MutatedEnumerator
  <2>. QED BY <1>1, <1>3, <1>5, <2>4, <2>5, <2>6, <2>7, <2>8 DEF MapInv
<1>. QED BY <1>9, <1>10

LEMMA ReplaceStep ==
    ASSUME MapInv, NEW v \in Values, ReplaceObjects(v)
    PROVE  MapInv'
<1>1. /\ hash \in [Keys -> Nat] /\ contents \in [Keys -> Values \cup {None}] /\ failed = FALSE
      /\ Sound(table) /\ Roomy(table) /\ Represents(table, hash, contents)
      /\ IsFiniteSet(KeysOf(contents)) /\ table.count = Cardinality(KeysOf(contents))
      /\ enum \in Enumerators /\ (enum.on /\ ~enum.mutated => Enumerated(enum, table))
  BY DEF MapInv
<1>2. hash' = hash /\ enum' = enum /\ failed' = failed BY DEF ReplaceObjects
<1>3. table.capacity \in Nat \ {0} /\ table \in Tables(table.capacity) BY <1>1 DEF Sound
<1>4. /\ DOMAIN table.buckets = 0..table.capacity - 1
      /\ Live(table) \subseteq 0..table.capacity - 1
      /\ \A i \in 0..table.capacity - 1 : /\ i \in Live(table) <=> table.buckets[i] \in Buckets
                                          /\ table.buckets[i] \in Buckets \cup {Null, Deleted}
  BY <1>3, TableParts
<1>. DEFINE bs == [i \in 0..table.capacity - 1 |->
                     IF i \in Live(table)
                       THEN Bucket(table.buckets[i].key, v, table.buckets[i].hash)
                       ELSE table.buckets[i]]
<1>5. bs \in [0..table.capacity - 1 -> Buckets \cup {Null, Deleted}]
  <2>1. ASSUME NEW i \in 0..table.capacity - 1
        PROVE  bs[i] \in Buckets \cup {Null, Deleted}
    <3>1. CASE i \in Live(table)
      <4>1. table.buckets[i].key \in Keys /\ table.buckets[i].hash \in Nat BY <1>4, <3>1, Kinds
      <4>. QED BY <3>1, <4>1, Kinds
    <3>2. CASE i \notin Live(table) BY <1>4, <3>2
    <3>. QED BY <3>1, <3>2
  <2>. QED BY <2>1
<1>6. table' = [table EXCEPT !.buckets = bs] BY <1>4 DEF ReplaceObjects
<1>7. PICK u : u = table' OBVIOUS
<1>8. \A i \in 0..table.capacity - 1 :
         bs[i] = IF i \in Live(table)
                   THEN Bucket(table.buckets[i].key, v, table.buckets[i].hash)
                   ELSE table.buckets[i]
  OBVIOUS
<1>. HIDE DEF bs
<1>9. /\ u.capacity = table.capacity /\ u.count = table.count /\ u.buckets = bs
      /\ u \in Tables(table.capacity)
  BY <1>3, <1>5, <1>6, <1>7 DEF Tables
<1>10. \A i \in Live(table) : /\ u.buckets[i].key = table.buckets[i].key
                              /\ u.buckets[i].hash = table.buckets[i].hash
                              /\ u.buckets[i].object = v
  BY <1>4, <1>8, <1>9, Kinds
<1>11. Live(u) = Live(table)
  <2>1. /\ Live(u) \subseteq 0..table.capacity - 1
        /\ \A i \in 0..table.capacity - 1 : i \in Live(u) <=> u.buckets[i] \in Buckets
    BY <1>9, TableParts
  <2>2. ASSUME NEW i \in 0..table.capacity - 1
        PROVE  i \in Live(u) <=> i \in Live(table)
    <3>1. CASE i \in Live(table)
      <4>1. table.buckets[i].key \in Keys /\ table.buckets[i].hash \in Nat BY <1>4, <3>1, Kinds
      <4>. QED BY <1>8, <1>9, <2>1, <3>1, <4>1, Kinds
    <3>2. CASE i \notin Live(table) BY <1>4, <1>8, <1>9, <2>1, <3>2
    <3>. QED BY <3>1, <3>2
  <2>. QED BY <1>4, <2>1, <2>2
<1>12. Unused(u) = Unused(table)
  <2>1. DOMAIN u.buckets = 0..table.capacity - 1 BY <1>9, TableParts
  <2>2. ASSUME NEW i \in 0..table.capacity - 1
        PROVE  u.buckets[i] = Null <=> table.buckets[i] = Null
    <3>1. CASE i \in Live(table) BY <1>4, <1>9, <1>11, <3>1, TableParts, Kinds
    <3>2. CASE i \notin Live(table) BY <1>8, <1>9, <3>2
    <3>. QED BY <3>1, <3>2
  <2>. QED BY <1>4, <2>1, <2>2 DEF Unused
<1>13. /\ Sound(u) /\ Roomy(u)
       /\ \A e : Enumerated(e, table) => Enumerated(e, u)
  BY <1>1, <1>9, <1>10, <1>11, <1>12, SameKeys
<1>14. contents' = [k \in Keys |-> IF contents[k] = None THEN None ELSE v] BY DEF ReplaceObjects
<1>15. v # None BY MapAssumption DEF MapAssumption
<1>16. /\ contents' \in [Keys -> Values \cup {None}]
       /\ KeysOf(contents') = KeysOf(contents)
       /\ \A k \in Keys : contents[k] # None => contents'[k] = v
  BY <1>14, <1>15 DEF KeysOf
<1>17. Represents(u, hash, contents')
  <2>1. \A i \in Live(table) : /\ table.buckets[i] \in Entries(table)
                               /\ table.buckets[i].key \in Keys
    BY <1>3, Entered, Kinds
  <2>2. \A i \in Live(table) : contents[table.buckets[i].key] # None
    BY <1>1, <2>1, Represented
  <2>3. ASSUME NEW e \in Entries(u)
        PROVE  e.hash = hash[e.key] /\ e.object = contents'[e.key]
    <3>1. PICK i \in Live(table) : e = u.buckets[i] BY <1>11 DEF Entries
    <3>2. table.buckets[i].hash = hash[table.buckets[i].key] BY <1>1, <2>1 DEF Represents
    <3>. QED BY <1>10, <1>16, <2>1, <2>2, <3>1, <3>2
  <2>4. ASSUME NEW k \in Keys, contents'[k] # None
        PROVE  \E e \in Entries(u) : e.key = k
    <3>1. contents[k] # None BY <1>14, <2>4
    <3>2. PICK i \in Live(table) : table.buckets[i].key = k
      BY <1>1, <3>1 DEF Represents, Entries
    <3>. QED BY <1>10, <1>11, <3>2 DEF Entries
  <2>. QED BY <2>3, <2>4 DEF Represents
<1>. QED BY <1>1, <1>2, <1>7, <1>9, <1>13, <1>16, <1>17 DEF MapInv

LEMMA RemoveAllStep == ASSUME MapInv, RemoveAllObjects PROVE MapInv'
<1>1. PICK c \in Nat \ {0} : table' = Empty(c) /\ c >= MinCapacity
  BY MapAssumption DEF RemoveAllObjects, MapAssumption
<1>2. /\ table'.capacity = c /\ table'.count = 0 /\ Sound(table')
      /\ Live(table') = {} /\ Entries(table') = {}
  BY <1>1, EmptyTable
<1>3. Cardinality({}) = 0 /\ IsFiniteSet({}) BY FS_EmptySet
<1>4. Roomy(table') BY <1>1, <1>2, <1>3 DEF Roomy
<1>5. contents' \in [Keys -> Values \cup {None}] /\ KeysOf(contents') = {}
  BY DEF RemoveAllObjects, KeysOf
<1>6. Represents(table', hash', contents') BY <1>2, <1>5 DEF Represents, KeysOf
<1>7. hash' \in [Keys -> Nat] BY MapAssumption DEF RemoveAllObjects, MapAssumption
<1>8. enum' \in Enumerators /\ ~enum'.on BY DEF RemoveAllObjects, NoEnumerator, Enumerators
<1>9. failed' = FALSE BY DEF RemoveAllObjects, MapInv
<1>. QED BY <1>2, <1>3, <1>4, <1>5, <1>6, <1>7, <1>8, <1>9 DEF MapInv

LEMMA CopyStep == ASSUME MapInv, Copy PROVE MapInv'
<1>1. /\ contents \in [Keys -> Values \cup {None}] /\ failed = FALSE
      /\ Sound(table) /\ Roomy(table) /\ Represents(table, hash, contents)
      /\ IsFiniteSet(KeysOf(contents)) /\ table.count = Cardinality(KeysOf(contents))
  BY DEF MapInv
<1>2. /\ hash' \in [Keys -> Nat] /\ table' = Copied(table, hash')
      /\ contents' = contents /\ failed' = failed
  BY MapAssumption DEF Copy, MapAssumption
<1>3. /\ Sound(table') /\ Roomy(table')
      /\ table'.count = Cardinality(Live(table))
      /\ Entries(table') = {Bucket(e.key, e.object, hash'[e.key]) : e \in Entries(table)}
  BY <1>1, <1>2, CopiedAll
<1>4. table'.count = table.count BY <1>1, <1>3 DEF Roomy
<1>5. Represents(table', hash', contents)
  <2>1. \A e \in Entries(table') : e.hash = hash'[e.key] /\ e.object = contents[e.key]
    BY <1>1, <1>3, Kinds DEF Represents
  <2>2. \A k \in Keys : contents[k] # None => \E e \in Entries(table') : e.key = k
    BY <1>1, <1>3, Kinds DEF Represents
  <2>. QED BY <2>1, <2>2 DEF Represents
<1>6. enum' \in Enumerators /\ ~enum'.on BY DEF Copy, NoEnumerator, Enumerators
<1>. QED BY <1>1, <1>2, <1>3, <1>4, <1>5, <1>6 DEF MapInv

LEMMA EnumeratorStep == ASSUME MapInv, KeyEnumerator PROVE MapInv'
<1>1. /\ enum' = [on |-> TRUE, position |-> 0, mutated |-> FALSE, seen |-> << >>]
      /\ table' = table /\ hash' = hash /\ contents' = contents /\ failed' = failed
  BY DEF KeyEnumerator, NoEnumerator
<1>2. enum' \in Enumerators BY <1>1 DEF Enumerators
<1>3. PICK e : e = enum' OBVIOUS
<1>4. Enumerated(e, table)
  <2>1. e.seen = << >> /\ e.position = 0 BY <1>1, <1>3
  <2>2. Live(table) \subseteq Nat
    <3>1. table.capacity \in Nat \ {0} /\ table \in Tables(table.capacity) BY DEF MapInv, Sound
    <3>. QED BY <3>1, TableParts
  <2>3. {j \in Live(table) : j < e.position} = {} BY <2>1, <2>2
  <2>4. DOMAIN << >> = {} OBVIOUS
  <2>. QED BY <2>1, <2>3, <2>4 DEF Enumerated, IsInjective, ToSet
<1>. QED BY <1>1, <1>2, <1>3, <1>4 DEF MapInv

LEMMA NextObjectStep == ASSUME MapInv, NextObject PROVE MapInv'
<1>1. /\ table' = table /\ hash' = hash /\ contents' = contents /\ failed' = failed
      /\ enum.on
  BY DEF NextObject
<1>. DEFINE left == {i \in Live(table) : i >= enum.position}
            i == Min(left)
<1>2. CASE enum.mutated \/ left = {}
  <2>1. enum' = NoEnumerator BY <1>2 DEF NextObject
  <2>2. enum' \in Enumerators /\ ~enum'.on BY <2>1 DEF NoEnumerator, Enumerators
  <2>. QED BY <1>1, <2>2 DEF MapInv
<1>3. CASE ~(enum.mutated \/ left = {})
  <2>1. enum' = [enum EXCEPT !.position = i + 1,
                             !.seen = Append(enum.seen, table.buckets[i].key)]
    BY <1>3 DEF NextObject
  <2>2. /\ table.capacity \in Nat \ {0} /\ table \in Tables(table.capacity) /\ OneBucket(table)
        /\ enum \in Enumerators /\ Enumerated(enum, table)
    BY <1>1, <1>3 DEF MapInv, Sound
  <2>3. Live(table) \in SUBSET Nat /\ \A j \in Live(table) : table.buckets[j].key \in Keys
    BY <2>2, TableParts, Kinds
  <2>4. left # {} /\ left \in SUBSET Nat BY <1>3, <2>3
  <2>5. PICK p : p = i OBVIOUS
  <2>6. p \in left /\ \A j \in left : p <= j
    <3>. HIDE DEF left
    <3>1. \E x \in left : \A y \in left : x <= y BY <2>4, LeastElement
    <3>. QED BY <2>5, <3>1 DEF Min
  <2>7. p \in Live(table) /\ p \in Nat /\ p >= enum.position BY <2>3, <2>6
  <2>8. PICK k \in Keys : k = table.buckets[p].key BY <2>3, <2>7
  <2>9. PICK s \in Seq(Keys) : s = enum.seen BY <2>2 DEF Enumerators
  <2>10. PICK e : e = enum' OBVIOUS
  <2>11. /\ e.on = enum.on /\ e.mutated = enum.mutated /\ e.position = p + 1
         /\ e.seen = Append(s, k) /\ e \in Enumerators
    <3>1. Append(s, k) \in Seq(Keys) BY AppendProperties
    <3>. HIDE DEF i
    <3>2. e = [enum EXCEPT !.position = p + 1, !.seen = Append(s, k)]
      BY <2>1, <2>5, <2>8, <2>9, <2>10
    <3>3. p + 1 \in Nat BY <2>7
    <3>. QED BY <2>2, <3>1, <3>2, <3>3 DEF Enumerators
  <2>12. /\ DOMAIN s = 1..Len(s) /\ Len(s) \in Nat
         /\ DOMAIN Append(s, k) = 1..Len(s) + 1
         /\ \A n \in 1..Len(s) : Append(s, k)[n] = s[n]
         /\ Append(s, k)[Len(s) + 1] = k
    BY AppendProperties, LenProperties
  <2>13. ToSet(Append(s, k)) = ToSet(s) \cup {k}
    <3>1. 1..Len(s) + 1 = (1..Len(s)) \cup {Len(s) + 1} BY <2>12
    <3>. QED BY <2>12, <3>1 DEF ToSet
  <2>14. \A j \in Live(table) : j < p + 1 <=> j = p \/ j < enum.position
    BY <2>2, <2>3, <2>6, <2>7 DEF Enumerators
  <2>15. ToSet(e.seen) = {table.buckets[j].key : j \in {l \in Live(table) : l < e.position}}
    <3>1. {l \in Live(table) : l < e.position} = {l \in Live(table) : l < enum.position} \cup {p}
      BY <2>7, <2>11, <2>14
    <3>2. ToSet(s) = {table.buckets[j].key : j \in {l \in Live(table) : l < enum.position}}
      BY <2>2, <2>9 DEF Enumerated
    <3>. QED BY <2>8, <2>11, <2>13, <3>1, <3>2
  <2>16. k \notin ToSet(s)
    <3>1. \A j \in Live(table) : j < enum.position => j # p BY <2>2, <2>3, <2>7 DEF Enumerators
    <3>. QED BY <2>2, <2>7, <2>8, <2>9, <3>1 DEF Enumerated, OneBucket
  <2>17. IsInjective(Append(s, k))
    <3>1. \A n \in 1..Len(s) : s[n] # k BY <2>12, <2>16 DEF ToSet
    <3>2. \A m, n \in 1..Len(s) : s[m] = s[n] => m = n
      BY <2>2, <2>9, <2>12 DEF Enumerated, IsInjective
    <3>3. \A n \in 1..Len(s) + 1 : n \in 1..Len(s) \/ n = Len(s) + 1 BY <2>12
    <3>. QED BY <2>12, <3>1, <3>2, <3>3 DEF IsInjective
  <2>18. Enumerated(e, table) BY <2>11, <2>15, <2>17 DEF Enumerated
  <2>. QED BY <1>1, <2>10, <2>11, <2>18 DEF MapInv
<1>. QED BY <1>2, <1>3

-----------------------------------------------------------------------------
LEMMA MapStep == ASSUME MapInv, [MapNext]_mapVars PROVE MapInv'
<1>1. CASE MapNext
  BY <1>1, RemoveStep, SetStep, ReplaceStep, RemoveAllStep, CopyStep, EnumeratorStep,
     NextObjectStep DEF MapNext
<1>2. CASE UNCHANGED mapVars BY <1>2 DEF mapVars, MapInv
<1>. QED BY <1>1, <1>2

(* The invariant implies the properties the runs check.                    *)
LEMMA MapDictionary == ASSUME MapInv PROVE IsDictionary
<1>1. /\ hash \in [Keys -> Nat] /\ contents \in [Keys -> Values \cup {None}] /\ failed = FALSE
      /\ Sound(table) /\ Roomy(table) /\ Represents(table, hash, contents)
      /\ table.count = Cardinality(KeysOf(contents))
  BY DEF MapInv
<1>2. ASSUME NEW k \in Keys
      PROVE  ObjectForKey(k) = contents[k]
  <2>1. PICK i : i = Find(table, k, hash[k]) OBVIOUS
  <2>2. hash[k] \in Nat /\ \A e \in Entries(table) : e.key = k => e.hash = hash[k]
    BY <1>1 DEF Represents
  <2>3. /\ i # None => i \in Holding(table, k)
        /\ i = None => \A e \in Entries(table) : e.key # k
    BY <1>1, <2>1, <2>2, Found
  <2>4. CASE i = None
    <3>1. contents[k] = None BY <1>1, <2>3, <2>4, Represented
    <3>. QED BY <2>1, <2>4, <3>1 DEF ObjectForKey
  <2>5. CASE i # None
    <3>1. table.buckets[i] \in Entries(table) /\ table.buckets[i].key = k
      BY <2>3, <2>5 DEF Holding, Entries
    <3>2. table.buckets[i].object = contents[k] BY <1>1, <3>1 DEF Represents
    <3>. QED BY <2>1, <2>5, <3>2 DEF ObjectForKey
  <2>. QED BY <2>4, <2>5
<1>. QED BY <1>1, <1>2 DEF IsDictionary, Roomy, KeysOf

LEMMA MapEnumeration == ASSUME MapInv PROVE EnumeratesOnce
<1>1. SUFFICES ASSUME enum.on, ~enum.mutated
      PROVE  LET rest == [i \in {j \in Live(table) : j >= enum.position} |-> table.buckets[i].key]
             IN  /\ ToSet(enum.seen) \cup Range(rest) = {k \in Keys : contents[k] # None}
                 /\ ToSet(enum.seen) \cap Range(rest) = {}
                 /\ IsInjective(enum.seen) /\ IsInjective(rest)
  BY DEF EnumeratesOnce
<1>2. /\ contents \in [Keys -> Values \cup {None}]
      /\ Sound(table) /\ Represents(table, hash, contents)
      /\ enum \in Enumerators /\ Enumerated(enum, table)
  BY <1>1 DEF MapInv
<1>3. /\ table.capacity \in Nat \ {0} /\ table \in Tables(table.capacity) /\ OneBucket(table)
      /\ Live(table) \subseteq Nat /\ enum.position \in Nat
      /\ \A i \in Live(table) : table.buckets[i].key \in Keys
  <2>1. /\ table.capacity \in Nat \ {0} /\ table \in Tables(table.capacity) /\ OneBucket(table)
    BY <1>2 DEF Sound
  <2>. QED BY <1>2, <2>1, TableParts, Kinds DEF Enumerators
<1>. DEFINE before == {j \in Live(table) : j < enum.position}
            after == {j \in Live(table) : j >= enum.position}
            rest == [i \in after |-> table.buckets[i].key]
<1>4. Live(table) = before \cup after /\ before \cap after = {} BY <1>3
<1>5. ToSet(enum.seen) = {table.buckets[i].key : i \in before} /\ IsInjective(enum.seen)
  BY <1>2 DEF Enumerated
<1>6. Range(rest) = {table.buckets[i].key : i \in after} BY DEF Range
<1>7. {k \in Keys : contents[k] # None} = {table.buckets[i].key : i \in Live(table)}
  <2>1. \A k \in Keys : contents[k] # None <=> \E i \in Live(table) : table.buckets[i].key = k
    BY <1>2, Represented DEF Entries
  <2>. QED BY <1>3, <2>1
<1>8. before \subseteq Live(table) /\ after \subseteq Live(table) OBVIOUS
<1>9. IsInjective(rest) BY <1>3, <1>8 DEF IsInjective, OneBucket
<1>. HIDE DEF before, after
<1>10. ToSet(enum.seen) \cup Range(rest) = {k \in Keys : contents[k] # None}
  BY <1>4, <1>5, <1>6, <1>7
<1>11. ToSet(enum.seen) \cap Range(rest) = {}
  BY <1>3, <1>4, <1>5, <1>6, <1>8 DEF OneBucket
<1>. QED BY <1>5, <1>9, <1>10, <1>11 DEF after

LEMMA MapInvariance == MapSpec => []MapInv
BY MapStart, MapStep, PTL DEF MapSpec

(* Through any history of calls, for any keys, objects, hash functions and *)
(* least capacity, the table finds for every key the object last set.      *)
THEOREM TableIsDictionary == MapSpec => []IsDictionary
BY MapInvariance, MapDictionary, PTL

(* An enumerator that has not noticed a mutation returns every key once.   *)
THEOREM EnumerationOnce == MapSpec => []EnumeratesOnce
BY MapInvariance, MapEnumeration, PTL

-----------------------------------------------------------------------------
(* The body of a response.                                                 *)

Bytes == message.wire
Content == message.body

(* The bytes of s after the first a and up to the first b.                 *)
Part(s, a, b) == SubSeq(s, a + 1, b)

(* The places in the body that its chunks begin at, and in the body and on *)
(* the wire where chunk i begins and ends.                                 *)
IsCuts(m, c) == /\ HasChunks(m.wire, m.body, c)
                /\ IsSent(m, Len(m.body) + 5 * Len(c))

CutsOf(m) ==
    CHOOSE c \in UNION {[1..n -> 0..Len(m.body)] : n \in 1..Len(m.body) + 1} : IsCuts(m, c)

Cuts == CutsOf(message)

EndOf(i) == IF i = Len(Cuts) THEN Len(Content) ELSE Cuts[i + 1]
Begins(i) == Cuts[i] + 5 * (i - 1)

(* A socket that has the wire from p on, some of it in its buffer.         *)
Sockets == [wire : Seq(Int), buffer : Seq(Int), waiting : BOOLEAN, atEnd : BOOLEAN]

SockAt(s, p) ==
    /\ s \in Sockets
    /\ p + Len(s.buffer) <= Len(Bytes)
    /\ s.buffer = Part(Bytes, p, p + Len(s.buffer))
    /\ s.wire = Part(Bytes, p + Len(s.buffer), Len(Bytes))
    /\ s.atEnd => p + Len(s.buffer) = Len(Bytes)

NoLF(s) == \A j \in DOMAIN s : s[j] # LF

(* A response that has q bytes of the body out of p of the wire: for each  *)
(* way the body is delimited, and each state of a chunk, where it is.      *)
InSized(p, q, s, r) ==
    /\ p = q /\ r.toRead = Len(Content) - q /\ ~r.setAtEnd
    /\ r.atEnd => r.toRead = 0
    /\ ~r.atEnd => r.toRead > 0 \/ ~s.atEnd

InOpen(p, q, r) == p = q /\ ~r.atEnd

AtSize(i, p, q, s, r) ==
    /\ r.toRead = 0 /\ ~r.setAtEnd /\ ~r.atEnd
    /\ q = Cuts[i] /\ p = Begins(i)
    /\ s.waiting => NoLF(s.buffer)

InChunk(i, p, q, r) ==
    /\ r.toRead = EndOf(i) - q /\ r.toRead > 0 /\ ~r.setAtEnd /\ ~r.atEnd
    /\ q >= Cuts[i] /\ p = Begins(i) + 3 + (q - Cuts[i])

AtLineEnd(i, p, q, r) ==
    /\ r.toRead \in {-2, -1} /\ r.setAtEnd = (i = Len(Cuts)) /\ ~r.atEnd
    /\ q = EndOf(i) /\ p = Begins(i) + 3 + (q - Cuts[i]) + (2 + r.toRead)

AfterLast(p, q, r) ==
    /\ r.toRead = 0 /\ r.setAtEnd /\ r.atEnd
    /\ q = Len(Content) /\ p = Len(Content) + 5 * Len(Cuts)

(* A size that was taken for one although its line end was missing.        *)
CutOff(p, s, r) ==
    ~message.complete /\ p = Len(Bytes) /\ s.atEnd /\ s.buffer = << >> /\ ~r.atEnd

InChunks(p, q, s, r) ==
    \/ \E i \in DOMAIN Cuts : \/ AtSize(i, p, q, s, r)
                              \/ ~s.waiting /\ InChunk(i, p, q, r)
                              \/ ~s.waiting /\ AtLineEnd(i, p, q, r)
    \/ ~s.waiting /\ AfterLast(p, q, r)
    \/ ~s.waiting /\ CutOff(p, s, r)

Responses == [toRead : Int, setAtEnd : BOOLEAN, atEnd : BOOLEAN]

Decoded(p, q, s, r) ==
    /\ SockAt(s, p) /\ r \in Responses
    /\ \/ message.delimited = "length" /\ ~s.waiting /\ InSized(p, q, s, r)
       \/ message.delimited = "close" /\ ~s.waiting /\ InOpen(p, q, r)
       \/ message.delimited = "chunked" /\ InChunks(p, q, s, r)

(* An exception is that of a message that was cut off.                     *)
Justified(x) == x = "no" \/ (x = "truncated" /\ ~message.complete)

ResponseInv ==
    LET d == Len(delivered)
        q == d + Len(readBuffer)
    IN  /\ message \in Messages
        /\ delivered \in Seq(Int) /\ readBuffer \in Seq(Int) /\ q <= Len(Content)
        /\ delivered = Part(Content, 0, d) /\ readBuffer = Part(Content, d, q)
        /\ \E p \in 0..Len(Bytes) : Decoded(p, q, sock, response)
        /\ Justified(thrown)

(* Parts of a sequence of bytes: their bytes, what is taken and dropped of *)
(* them, and what two of them make.                                        *)
LEMMA PartOf ==
    ASSUME NEW s \in Seq(Int), NEW a \in Nat, NEW b \in Nat, a <= b, b <= Len(s)
    PROVE  /\ Part(s, a, b) \in Seq(Int)
           /\ Len(Part(s, a, b)) = b - a
           /\ \A j \in 1..b - a : Part(s, a, b)[j] = s[a + j]
<1>1. /\ Len(SubSeq(s, a + 1, b)) = b - a
      /\ \A j \in 1..b - a : SubSeq(s, a + 1, b)[j] = s[a + 1 + j - 1]
  <2>1. a + 1 \in 1..Len(s) + 1 /\ b \in (a + 1) - 1..Len(s) /\ b - (a + 1) + 1 = b - a
    BY LenProperties
  <2>. QED BY <2>1, SubSeqProperties
<1>2. SubSeq(s, a + 1, b) \in Seq(Int)
  <2>1. a + 1 \in 1..Len(s) + 1 /\ b \in (a + 1) - 1..Len(s) BY LenProperties
  <2>. QED BY <2>1, SubSeqProperties
<1>3. \A j \in 1..b - a : a + 1 + j - 1 = a + j OBVIOUS
<1>. QED BY <1>1, <1>2, <1>3 DEF Part

LEMMA SameBytes ==
    ASSUME NEW s \in Seq(Int), NEW t \in Seq(Int), Len(s) = Len(t),
           \A j \in 1..Len(s) : s[j] = t[j]
    PROVE  s = t
BY SeqEqual

LEMMA NoPart ==
    ASSUME NEW s \in Seq(Int), NEW a \in Nat, NEW b \in Nat, a <= b, b <= Len(s)
    PROVE  Part(s, a, b) = << >> <=> a = b
<1>. DEFINE t == Part(s, a, b)
<1>1. t \in Seq(Int) /\ Len(t) = b - a BY PartOf
<1>2. t = << >> <=> Len(t) = 0 BY <1>1, EmptySeq
<1>. QED BY <1>1, <1>2

LEMMA WholePart == ASSUME NEW s \in Seq(Int) PROVE Part(s, 0, Len(s)) = s
<1>. DEFINE t == Part(s, 0, Len(s))
<1>1. Len(s) \in Nat BY LenProperties
<1>2. t \in Seq(Int) /\ Len(t) = Len(s) /\ \A j \in 1..Len(s) : t[j] = s[j]
  <2>1. \A j \in 1..Len(s) : 0 + j = j BY <1>1
  <2>2. Len(s) - 0 = Len(s) BY <1>1
  <2>3. 0 \in Nat /\ 0 <= Len(s) /\ Len(s) <= Len(s) BY <1>1
  <2>4. /\ t \in Seq(Int) /\ Len(t) = Len(s) - 0
        /\ \A j \in 1..Len(s) - 0 : t[j] = s[0 + j]
    BY <1>1, <2>3, PartOf
  <2>. HIDE DEF t
  <2>. QED BY <1>1, <2>1, <2>2, <2>4
<1>. QED BY <1>2, SameBytes

LEMMA PartOfPart ==
    ASSUME NEW s \in Seq(Int), NEW a \in Nat, NEW b \in Nat, a <= b, b <= Len(s),
           NEW e \in Nat, NEW f \in Nat, e <= f, f <= b - a
    PROVE  Part(Part(s, a, b), e, f) = Part(s, a + e, a + f)
<1>. DEFINE t == Part(s, a, b)
            u == Part(s, a + e, a + f)
            v == Part(t, e, f)
<1>1. t \in Seq(Int) /\ Len(t) = b - a /\ \A j \in 1..b - a : t[j] = s[a + j] BY PartOf
<1>2. /\ u \in Seq(Int) /\ Len(u) = f - e
      /\ \A j \in 1..f - e : u[j] = s[(a + e) + j]
  <2>1. PICK g \in Nat, h \in Nat : g = a + e /\ h = a + f OBVIOUS
  <2>2. g <= h /\ h <= Len(s) /\ h - g = f - e
    <3>1. Len(s) \in Nat BY LenProperties
    <3>. QED BY <2>1, <3>1
  <2>3. /\ Part(s, g, h) \in Seq(Int) /\ Len(Part(s, g, h)) = h - g
        /\ \A j \in 1..h - g : Part(s, g, h)[j] = s[g + j]
    BY <2>2, PartOf
  <2>. QED BY <2>1, <2>2, <2>3
<1>. HIDE DEF t, u
<1>3. v \in Seq(Int) /\ Len(v) = f - e /\ \A j \in 1..f - e : v[j] = t[e + j]
  BY <1>1, PartOf
<1>4. \A j \in 1..f - e : v[j] = u[j]
  <2>. TAKE j \in 1..f - e
  <2>1. e + j \in 1..b - a /\ a + (e + j) = (a + e) + j OBVIOUS
  <2>2. t[e + j] = s[a + (e + j)] BY <1>1, <2>1
  <2>. QED BY <1>2, <1>3, <2>1, <2>2
<1>5. v = u BY <1>2, <1>3, <1>4, SameBytes
<1>. QED BY <1>5 DEF t, u

LEMMA TakeDrop ==
    ASSUME NEW s \in Seq(Int), NEW k \in Nat
    PROVE  /\ k <= Len(s) => Take(s, k) = Part(s, 0, k) /\ Drop(s, k) = Part(s, k, Len(s))
           /\ k > Len(s) => Take(s, k) = s /\ Drop(s, k) = << >>
<1>1. Len(s) \in Nat BY LenProperties
<1>2. ASSUME k <= Len(s) PROVE Take(s, k) = Part(s, 0, k) /\ Drop(s, k) = Part(s, k, Len(s))
  BY <1>1, <1>2 DEF Take, Drop, Part
<1>3. ASSUME k > Len(s) PROVE Take(s, k) = s /\ Drop(s, k) = << >>
  <2>1. Take(s, k) = Part(s, 0, Len(s)) BY <1>1, <1>3 DEF Take, Part
  <2>2. Drop(s, k) = << >> BY <1>1, <1>3, SubSeqProperties DEF Drop
  <2>. QED BY <2>1, <2>2, WholePart
<1>. QED BY <1>2, <1>3

(* The first k bytes of a part, or all of it, and the rest.                *)
UpTo(a, b, k) == IF k <= b - a THEN a + k ELSE b

LEMMA TakeDropPart ==
    ASSUME NEW s \in Seq(Int), NEW a \in Nat, NEW b \in Nat, a <= b, b <= Len(s), NEW k \in Nat
    PROVE  /\ Take(Part(s, a, b), k) = Part(s, a, UpTo(a, b, k))
           /\ Drop(Part(s, a, b), k) = Part(s, UpTo(a, b, k), b)
<1>. DEFINE t == Part(s, a, b)
<1>1. t \in Seq(Int) /\ Len(t) = b - a BY PartOf
<1>2. CASE k <= b - a
  <2>1. Take(t, k) = Part(t, 0, k) /\ Drop(t, k) = Part(t, k, b - a) BY <1>1, <1>2, TakeDrop
  <2>2. Part(t, 0, k) = Part(s, a, a + k)
    <3>1. Part(t, 0, k) = Part(s, a + 0, a + k) BY <1>2, PartOfPart
    <3>. QED BY <3>1
  <2>3. Part(t, k, b - a) = Part(s, a + k, b)
    <3>1. b - a \in Nat /\ a + (b - a) = b OBVIOUS
    <3>2. Part(t, k, b - a) = Part(s, a + k, a + (b - a)) BY <1>2, <3>1, PartOfPart
    <3>. QED BY <3>1, <3>2
  <2>. QED BY <1>2, <2>1, <2>2, <2>3 DEF UpTo
<1>3. CASE k > b - a
  <2>1. Take(t, k) = t /\ Drop(t, k) = << >> BY <1>1, <1>3, TakeDrop
  <2>2. Part(s, b, b) = << >> BY NoPart
  <2>. QED BY <1>3, <2>1, <2>2 DEF UpTo
<1>. QED BY <1>2, <1>3

LEMMA TwoParts ==
    ASSUME NEW s \in Seq(Int), NEW a \in Nat, NEW b \in Nat, NEW c \in Nat,
           a <= b, b <= c, c <= Len(s)
    PROVE  Part(s, a, b) \o Part(s, b, c) = Part(s, a, c)
<1>. DEFINE t == Part(s, a, b)
            u == Part(s, b, c)
            v == Part(s, a, c)
            w == t \o u
<1>0. b <= Len(s) /\ a <= c
  <2>1. Len(s) \in Nat BY LenProperties
  <2>. QED BY <2>1
<1>1. t \in Seq(Int) /\ Len(t) = b - a /\ \A j \in 1..b - a : t[j] = s[a + j]
  BY <1>0, PartOf
<1>2. u \in Seq(Int) /\ Len(u) = c - b /\ \A j \in 1..c - b : u[j] = s[b + j]
  BY <1>0, PartOf
<1>3. v \in Seq(Int) /\ Len(v) = c - a /\ \A j \in 1..c - a : v[j] = s[a + j]
  BY <1>0, PartOf
<1>. HIDE DEF t, u, v
<1>4. /\ w \in Seq(Int) /\ Len(w) = Len(t) + Len(u)
      /\ \A j \in 1..Len(t) + Len(u) : w[j] = IF j <= Len(t) THEN t[j] ELSE u[j - Len(t)]
  <2>1. t \in Seq(Int) /\ u \in Seq(Int) BY <1>1, <1>2
  <2>. QED BY <2>1, ConcatProperties
<1>. HIDE DEF w
<1>5. Len(w) = c - a /\ \A j \in 1..c - a : w[j] = v[j]
  <2>1. Len(t) + Len(u) = c - a BY <1>1, <1>2
  <2>2. ASSUME NEW j \in 1..c - a PROVE w[j] = v[j]
    <3>0. w[j] = IF j <= b - a THEN t[j] ELSE u[j - (b - a)] BY <1>1, <1>4, <2>1
    <3>1. CASE j <= b - a
      <4>1. j \in 1..b - a BY <3>1
      <4>. QED BY <1>1, <1>3, <3>0, <3>1, <4>1
    <3>2. CASE ~(j <= b - a)
      <4>1. j - (b - a) \in 1..c - b /\ b + (j - (b - a)) = a + j BY <3>2
      <4>2. u[j - (b - a)] = s[b + (j - (b - a))] BY <1>2, <4>1
      <4>. QED BY <1>3, <3>0, <3>2, <4>1, <4>2
    <3>. QED BY <3>1, <3>2
  <2>. QED BY <1>4, <2>1, <2>2
<1>6. w = v
  <2>1. w \in Seq(Int) /\ v \in Seq(Int) /\ Len(w) = Len(v) /\ \A j \in 1..Len(w) : w[j] = v[j]
    BY <1>3, <1>4, <1>5
  <2>. QED BY <2>1, SameBytes
<1>. QED BY <1>6 DEF t, u, v, w

(* A message that a server sends.                                          *)
LEMMA Sent ==
    ASSUME message \in Messages
    PROVE  /\ Bytes \in Seq(Int) /\ Content \in Seq(Int)
           /\ Len(Bytes) \in Nat /\ Len(Content) \in Nat
           /\ message.complete \in BOOLEAN
<1>1. IsMessage(message) BY ResponseAssumption
<1>2. Bytes \in Seq(Int) /\ Content \in Seq(Int) /\ message.complete \in BOOLEAN
  BY <1>1 DEF IsMessage, Bytes, Content
<1>. QED BY <1>2, LenProperties

(* What is received is the next part of the wire, and nothing only at the  *)
(* end of it.                                                              *)
LEMMA Received ==
    ASSUME message \in Messages, NEW p \in Nat, SockAt(sock, p), NEW n \in Nat \ {0},
           NEW r \in Receive[n], NEW a \in Nat, a = p + Len(sock.buffer)
    PROVE  \E b \in a..Len(Bytes) :
             /\ b - a <= n
             /\ r.got = Part(Bytes, a, b)
             /\ r.after.wire = Part(Bytes, b, Len(Bytes))
             /\ r.after.buffer = sock.buffer /\ r.after.waiting = sock.waiting
             /\ r.after.atEnd \in BOOLEAN /\ (r.after.atEnd => b = Len(Bytes))
             /\ r.after \in Sockets
             /\ b = a => a = Len(Bytes)
<1>1. Bytes \in Seq(Int) /\ Len(Bytes) \in Nat BY Sent
<1>2. /\ sock \in Sockets
      /\ a <= Len(Bytes) /\ sock.wire = Part(Bytes, a, Len(Bytes))
      /\ sock.atEnd => a = Len(Bytes)
  BY DEF SockAt
<1>3. sock.wire = << >> <=> a = Len(Bytes) BY <1>1, <1>2, NoPart
<1>0. PICK l \in Nat : l = Len(Bytes) BY <1>1
<1>7. a <= l /\ l <= Len(Bytes) BY <1>0, <1>2
<1>4. Len(sock.wire) = l - a /\ Len(sock.wire) \in Nat
  <2>1. Len(Part(Bytes, a, l)) = l - a BY <1>1, <1>7, PartOf
  <2>2. sock.wire = Part(Bytes, a, l) BY <1>0, <1>2
  <2>3. l - a \in Nat BY <1>7, <1>1, <1>0
  <2>. QED BY <2>1, <2>2, <2>3
<1>5. CASE sock.wire = << >>
  <2>1. r = [got |-> << >>, after |-> [sock EXCEPT !.atEnd = TRUE]] BY <1>5 DEF Receive
  <2>2. PICK s : s = [sock EXCEPT !.atEnd = TRUE] OBVIOUS
  <2>3. /\ s \in Sockets
        /\ s.wire = sock.wire /\ s.buffer = sock.buffer /\ s.waiting = sock.waiting
        /\ s.atEnd = TRUE
    BY <1>2, <2>2 DEF Sockets
  <2>4. r.got = << >> /\ r.after = s BY <2>1, <2>2
  <2>5. Part(Bytes, a, a) = << >> BY <1>1, <1>2, NoPart
  <2>6. a \in a..Len(Bytes) /\ a - a <= n BY <1>1, <1>2
  <2>. QED BY <1>2, <1>3, <1>5, <2>3, <2>4, <2>5, <2>6
<1>6. CASE sock.wire # << >>
  <2>1. PICK k \in 1..IF n < Len(sock.wire) THEN n ELSE Len(sock.wire) :
          r = [got |-> Take(sock.wire, k), after |-> [sock EXCEPT !.wire = Drop(@, k)]]
    BY <1>6 DEF Receive
  <2>2. k \in Nat /\ k >= 1 /\ k <= n /\ k <= Len(Bytes) - a BY <1>0, <1>4, <2>1
  <2>3. PICK b \in a..Len(Bytes) :
          /\ b - a <= k
          /\ a < Len(Bytes) => b > a
          /\ Take(sock.wire, k) = Part(Bytes, a, b)
          /\ Drop(sock.wire, k) = Part(Bytes, b, Len(Bytes))
    <3>1. PICK b \in a..Len(Bytes) : b = UpTo(a, l, k) /\ b - a <= k /\ (a < l => b > a)
      BY <1>0, <1>7, <2>2 DEF UpTo
    <3>2. /\ Take(Part(Bytes, a, l), k) = Part(Bytes, a, b)
          /\ Drop(Part(Bytes, a, l), k) = Part(Bytes, b, l)
      BY <1>1, <1>7, <2>2, <3>1, TakeDropPart
    <3>. QED BY <1>0, <1>2, <3>1, <3>2
  <2>4. PICK s : s = [sock EXCEPT !.wire = Drop(@, k)] OBVIOUS
  <2>5. Part(Bytes, b, Len(Bytes)) \in Seq(Int)
    <3>1. b \in Nat /\ b <= l /\ l <= Len(Bytes) BY <1>0, <1>7
    <3>2. Part(Bytes, b, l) \in Seq(Int) BY <1>1, <3>1, PartOf
    <3>. QED BY <1>0, <3>2
  <2>6. /\ s \in Sockets
        /\ s.wire = Part(Bytes, b, Len(Bytes))
        /\ s.buffer = sock.buffer /\ s.waiting = sock.waiting /\ s.atEnd = sock.atEnd
    BY <1>2, <2>3, <2>4, <2>5 DEF Sockets
  <2>7. r.got = Part(Bytes, a, b) /\ r.after = s BY <2>1, <2>3, <2>4
  <2>8. a < Len(Bytes) /\ b > a BY <1>1, <1>2, <1>3, <1>6, <2>3
  <2>9. b - a <= n BY <2>2, <2>3
  <2>10. s.atEnd => b = Len(Bytes) BY <1>1, <1>2, <2>6, <2>8
  <2>11. b \in a..Len(Bytes) /\ s.atEnd \in BOOLEAN BY <2>6 DEF Sockets
  <2>12. b = a => a = Len(Bytes) BY <2>8
  <2>. QED
    <3>. WITNESS b \in a..Len(Bytes)
    <3>. QED BY <2>6, <2>7, <2>9, <2>10, <2>11, <2>12
<1>. QED BY <1>5, <1>6

(* A socket with a part of the wire in its buffer and the rest to come.    *)
LEMMA Buffered ==
    ASSUME message \in Messages, NEW s \in Sockets, NEW b \in Nat, NEW c \in Nat,
           b <= c, c <= Len(Bytes), s.buffer = Part(Bytes, b, c),
           s.wire = Part(Bytes, c, Len(Bytes)), s.atEnd => c = Len(Bytes)
    PROVE  SockAt(s, b)
<1>1. Bytes \in Seq(Int) BY Sent
<1>2. Len(s.buffer) = c - b BY <1>1, PartOf
<1>3. b + Len(s.buffer) = c BY <1>2
<1>. QED BY <1>3 DEF SockAt

LEMMA Buffering ==
    ASSUME message \in Messages, NEW s0 \in Sockets, NEW b \in Nat, NEW c \in Nat,
           b <= c, c <= Len(Bytes), NEW buffer, buffer = Part(Bytes, b, c),
           s0.wire = Part(Bytes, c, Len(Bytes)), s0.atEnd => c = Len(Bytes),
           NEW s, s = [s0 EXCEPT !.buffer = buffer]
    PROVE  SockAt(s, b) /\ s.waiting = s0.waiting /\ s.atEnd = s0.atEnd
<1>1. Bytes \in Seq(Int) BY Sent
<1>2. buffer \in Seq(Int) BY <1>1, PartOf
<1>3. /\ s \in Sockets /\ s.wire = s0.wire /\ s.buffer = buffer /\ s.waiting = s0.waiting
      /\ s.atEnd = s0.atEnd
  BY <1>2 DEF Sockets
<1>. QED BY <1>3, Buffered

(* Reading from the socket gives the next bytes of the wire.               *)
LEMMA SocketReads ==
    ASSUME message \in Messages, NEW p \in Nat, SockAt(sock, p), NEW n \in Nat,
           NEW r \in SocketRead(n)
    PROVE  \E b \in p..Len(Bytes) :
             /\ b - p <= n
             /\ r.got = Part(Bytes, p, b)
             /\ SockAt(r.sock, b)
             /\ r.sock.waiting = sock.waiting
             /\ n > 0 /\ b = p => p = Len(Bytes)
<1>1. Bytes \in Seq(Int) /\ Len(Bytes) \in Nat BY Sent
<1>2. sock \in Sockets /\ Len(sock.buffer) \in Nat
  <2>1. sock \in Sockets BY DEF SockAt
  <2>2. sock.buffer \in Seq(Int) BY <2>1 DEF Sockets
  <2>. QED BY <2>1, <2>2, LenProperties
<1>3. PICK r0 \in ReadIntoBuffer(sock.buffer, n, Receive, sock) :
        r = [got |-> r0.out, sock |-> [r0.after EXCEPT !.buffer = r0.buffer]]
  BY DEF SocketRead
<1>4. PICK s : s = [r0.after EXCEPT !.buffer = r0.buffer] OBVIOUS
<1>5. r.got = r0.out /\ r.sock = s BY <1>3, <1>4
<1>6. ASSUME NEW c \in p..Len(Bytes), r0.out = Take(Part(Bytes, p, c), n),
             r0.buffer = Drop(Part(Bytes, p, c), n), r0.after \in Sockets,
             r0.after.wire = Part(Bytes, c, Len(Bytes)), r0.after.atEnd => c = Len(Bytes),
             r0.after.waiting = sock.waiting, c = p => p = Len(Bytes)
      PROVE  \E b \in p..Len(Bytes) :
               /\ b - p <= n
               /\ r.got = Part(Bytes, p, b)
               /\ SockAt(r.sock, b)
               /\ r.sock.waiting = sock.waiting
               /\ n > 0 /\ b = p => p = Len(Bytes)
  <2>0. c \in Nat /\ p <= c /\ c <= Len(Bytes) BY <1>1, <1>6
  <2>1. PICK b \in p..c : b = UpTo(p, c, n) /\ b - p <= n /\ (n > 0 /\ b = p => c = p)
    BY <2>0 DEF UpTo
  <2>2. r0.out = Part(Bytes, p, b) /\ r0.buffer = Part(Bytes, b, c)
    BY <1>1, <1>6, <2>0, <2>1, TakeDropPart
  <2>3. b \in Nat /\ b <= c /\ b \in p..Len(Bytes) BY <1>1, <2>0, <2>1
  <2>4. SockAt(s, b) /\ s.waiting = r0.after.waiting
    BY <1>4, <1>6, <2>0, <2>2, <2>3, Buffering
  <2>5. n > 0 /\ b = p => p = Len(Bytes) BY <1>6, <2>1
  <2>. WITNESS b \in p..Len(Bytes)
  <2>. QED BY <1>5, <1>6, <2>1, <2>2, <2>4, <2>5
<1>7. CASE sock.buffer = << >>
  <2>1. PICK m \in Nat \ {0} : m = IF n < MinReadSize THEN MinReadSize ELSE n
    BY StreamAssumption
  <2>2. PICK r1 \in Receive[m] :
          r0 = [out |-> Take(r1.got, n), buffer |-> Drop(r1.got, n), after |-> r1.after]
    BY <1>7, <2>1 DEF ReadIntoBuffer
  <2>3. p = p + Len(sock.buffer) BY <1>7, EmptySeq
  <2>4. PICK c \in p..Len(Bytes) :
             /\ c - p <= m
             /\ r1.got = Part(Bytes, p, c)
             /\ r1.after.wire = Part(Bytes, c, Len(Bytes))
             /\ r1.after.buffer = sock.buffer /\ r1.after.waiting = sock.waiting
             /\ r1.after.atEnd \in BOOLEAN /\ (r1.after.atEnd => c = Len(Bytes))
             /\ r1.after \in Sockets
             /\ c = p => p = Len(Bytes)
    BY <2>3, Received
  <2>5. r0.out = Take(r1.got, n) /\ r0.buffer = Drop(r1.got, n) /\ r0.after = r1.after BY <2>2
  <2>. QED BY <1>6, <2>4, <2>5
<1>8. CASE sock.buffer # << >>
  <2>1. PICK c \in p..Len(Bytes) : c = p + Len(sock.buffer) BY <1>1, <1>2 DEF SockAt
  <2>2. /\ r0.out = Take(sock.buffer, n) /\ r0.buffer = Drop(sock.buffer, n) /\ r0.after = sock
    BY <1>8 DEF ReadIntoBuffer
  <2>3. /\ sock.buffer = Part(Bytes, p, c) /\ sock.wire = Part(Bytes, c, Len(Bytes))
        /\ sock.atEnd => c = Len(Bytes)
    BY <2>1 DEF SockAt
  <2>4. c = p => p = Len(Bytes) BY <1>1, <1>8, <2>1, <2>3, NoPart
  <2>. QED BY <1>2, <1>6, <2>2, <2>3, <2>4
<1>. QED BY <1>7, <1>8

(* The first line end of a sequence, if it has one.                        *)
LEMMA FirstLineEnd ==
    ASSUME NEW s \in Seq(Int)
    PROVE  /\ FirstLF(s) \in 0..Len(s)
           /\ FirstLF(s) = 0 <=> NoLF(s)
           /\ FirstLF(s) > 0 => /\ s[FirstLF(s)] = LF
                                /\ \A j \in 1..Len(s) : j < FirstLF(s) => s[j] # LF
<1>1. Len(s) \in Nat /\ DOMAIN s = 1..Len(s) BY LenProperties
<1>2. PICK I : I = {i \in 1..Len(s) : s[i] = LF} OBVIOUS
<1>3. FirstLF(s) = IF I # {} THEN Min(I) ELSE 0 BY <1>2 DEF FirstLF, SelectInSeq
<1>4. CASE I = {}
  BY <1>1, <1>2, <1>3, <1>4 DEF NoLF
<1>5. CASE I # {}
  <2>1. I \in SUBSET Nat BY <1>1, <1>2
  <2>2. PICK x \in I : \A y \in I : x <= y BY <1>5, <2>1, LeastElement
  <2>3. Min(I) \in I /\ \A y \in I : Min(I) <= y BY <2>2 DEF Min
  <2>4. PICK f \in I : f = FirstLF(s) /\ \A y \in I : f <= y BY <1>3, <1>5, <2>3
  <2>5. f \in 1..Len(s) /\ s[f] = LF BY <1>2, <2>4
  <2>6. \A j \in 1..Len(s) : j < f => s[j] # LF
    <3>. TAKE j \in 1..Len(s)
    <3>1. s[j] = LF => j \in I BY <1>2
    <3>. QED BY <1>1, <2>4, <2>5, <3>1
  <2>. QED BY <1>1, <2>4, <2>5, <2>6 DEF NoLF
<1>. QED BY <1>4, <1>5

(* There is no line end in two parts that have none.                       *)
LEMMA NoLFInPart ==
    ASSUME NEW s \in Seq(Int), NEW a \in Nat, NEW b \in Nat, a <= b, b <= Len(s),
           NoLF(Part(s, a, b)), NEW j \in Int, a < j, j <= b
    PROVE  s[j] # LF
<1>1. PICK t : t = Part(s, a, b) OBVIOUS
<1>2. t \in Seq(Int) /\ Len(t) = b - a /\ \A i \in 1..b - a : t[i] = s[a + i]
  BY <1>1, PartOf
<1>3. DOMAIN t = 1..b - a BY <1>2, LenProperties
<1>4. j - a \in 1..b - a /\ a + (j - a) = j OBVIOUS
<1>5. t[j - a] = s[a + (j - a)] BY <1>2, <1>4
<1>6. t[j - a] # LF BY <1>1, <1>3, <1>4 DEF NoLF
<1>. QED BY <1>4, <1>5, <1>6

LEMMA NoLFBefore ==
    ASSUME NEW s \in Seq(Int), NEW a \in Nat, NEW b \in Nat, a <= b, b <= Len(s),
           \A j \in Int : a < j /\ j <= b => s[j] # LF
    PROVE  NoLF(Part(s, a, b))
<1>1. PICK t : t = Part(s, a, b) OBVIOUS
<1>2. t \in Seq(Int) /\ Len(t) = b - a /\ \A i \in 1..b - a : t[i] = s[a + i]
  BY <1>1, PartOf
<1>3. DOMAIN t = 1..b - a BY <1>2, LenProperties
<1>4. ASSUME NEW i \in 1..b - a PROVE t[i] # LF
  <2>1. a + i \in Int /\ a < a + i /\ a + i <= b OBVIOUS
  <2>. QED BY <1>2, <2>1
<1>. QED BY <1>1, <1>3, <1>4 DEF NoLF

(* What -[tryReadLine] does at position p of the wire: no line yet, the    *)
(* line that ends with the next line end, or what is left of the wire.     *)
Plain(a, b) == \A j \in Int : a < j /\ j <= b => Bytes[j] # LF

Waiting(p, r) == /\ r.line = NoLine /\ SockAt(r.sock, p)
                 /\ r.sock.waiting => NoLF(r.sock.buffer)

Ending(p, e, r) == /\ Bytes[e] = LF /\ Plain(p, e - 1) /\ r.line = Line(Part(Bytes, p, e - 1))
                   /\ SockAt(r.sock, e) /\ ~r.sock.waiting

LeftOver(p, r) == /\ p < Len(Bytes) /\ Plain(p, Len(Bytes))
                  /\ r.line = Line(Part(Bytes, p, Len(Bytes)))
                  /\ SockAt(r.sock, Len(Bytes)) /\ r.sock.atEnd /\ r.sock.buffer = << >>
                  /\ ~r.sock.waiting

LEMMA SocketTriesLine ==
    ASSUME message \in Messages, NEW p \in Nat, SockAt(sock, p),
           sock.waiting => NoLF(sock.buffer), ~(sock.atEnd /\ sock.buffer = << >>),
           NEW r \in SocketTryReadLine
    PROVE  \/ Waiting(p, r)
           \/ \E e \in p + 1..Len(Bytes) : Ending(p, e, r)
           \/ LeftOver(p, r)
<1>1. Bytes \in Seq(Int) /\ Len(Bytes) \in Nat BY Sent
<1>2. sock \in Sockets /\ sock.buffer \in Seq(Int) /\ Len(sock.buffer) \in Nat
  <2>1. sock \in Sockets BY DEF SockAt
  <2>2. sock.buffer \in Seq(Int) BY <2>1 DEF Sockets
  <2>. QED BY <2>1, <2>2, LenProperties
<1>3. PICK r0 \in TryReadLine(sock.buffer, sock.waiting, sock.atEnd, Receive, sock) :
        r = [line |-> r0.line,
             sock |-> [r0.after EXCEPT !.buffer = r0.buffer, !.waiting = r0.waiting]]
  BY DEF SocketTryReadLine
<1>4. PICK s : s = [r0.after EXCEPT !.buffer = r0.buffer, !.waiting = r0.waiting] OBVIOUS
<1>5. r.line = r0.line /\ r.sock = s BY <1>3, <1>4
<1>6. PICK c \in Nat : c = p + Len(sock.buffer) BY <1>2
<1>7. /\ p <= c /\ c <= Len(Bytes)
      /\ sock.buffer = Part(Bytes, p, c) /\ sock.wire = Part(Bytes, c, Len(Bytes))
      /\ sock.atEnd => c = Len(Bytes)
  BY <1>2, <1>6 DEF SockAt
<1>8. PICK f \in 0..c - p :
        /\ f = FirstLF(sock.buffer)
        /\ f = 0 <=> NoLF(sock.buffer)
        /\ f > 0 => Bytes[p + f] = LF /\ Plain(p, p + f - 1)
  <2>1. PICK f : f = FirstLF(sock.buffer) OBVIOUS
  <2>2. f \in 0..c - p /\ (f = 0 <=> NoLF(sock.buffer)) BY <1>2, <1>6, <2>1, FirstLineEnd
  <2>3. ASSUME f > 0 PROVE Bytes[p + f] = LF /\ Plain(p, p + f - 1)
    <3>1. /\ sock.buffer[f] = LF
          /\ \A j \in 1..Len(sock.buffer) : j < f => sock.buffer[j] # LF
      BY <1>2, <2>1, <2>3, FirstLineEnd
    <3>2. \A j \in 1..c - p : sock.buffer[j] = Bytes[p + j] BY <1>1, <1>7, PartOf
    <3>3. Bytes[p + f] = LF BY <2>2, <2>3, <3>1, <3>2
    <3>4. ASSUME NEW j \in Int, p < j, j <= p + f - 1 PROVE Bytes[j] # LF
      <4>1. j - p \in 1..c - p /\ j - p < f /\ p + (j - p) = j BY <2>2, <3>4
      <4>2. sock.buffer[j - p] # LF BY <1>6, <3>1, <4>1
      <4>3. sock.buffer[j - p] = Bytes[p + (j - p)] BY <3>2, <4>1
      <4>. QED BY <4>1, <4>2, <4>3
    <3>. QED BY <3>3, <3>4 DEF Plain
  <2>. QED BY <2>1, <2>2, <2>3
<1>11. ASSUME NEW b \in Nat, NEW d \in Nat, b <= d, d <= Len(Bytes),
              r0.after \in Sockets, r0.buffer = Part(Bytes, b, d), r0.waiting \in BOOLEAN,
              r0.after.wire = Part(Bytes, d, Len(Bytes)), r0.after.atEnd => d = Len(Bytes)
       PROVE  /\ SockAt(s, b) /\ s.buffer = r0.buffer /\ s.waiting = r0.waiting
              /\ s.atEnd = r0.after.atEnd
  <2>1. PICK s0 \in Sockets : s0 = r0.after BY <1>11
  <2>2. PICK buffer : buffer = r0.buffer OBVIOUS
  <2>3. PICK w \in BOOLEAN : w = r0.waiting BY <1>11
  <2>4. s = [s0 EXCEPT !.buffer = buffer, !.waiting = w] BY <1>4, <2>1, <2>2, <2>3
  <2>5. /\ buffer = Part(Bytes, b, d) /\ s0.wire = Part(Bytes, d, Len(Bytes))
        /\ s0.atEnd => d = Len(Bytes)
    BY <1>11, <2>1, <2>2
  <2>6. b <= d /\ d <= Len(Bytes) BY <1>11
  <2>7. SockAt(s, b) /\ s.buffer = buffer /\ s.waiting = w /\ s.atEnd = s0.atEnd
    <3>1. buffer \in Seq(Int) BY <1>1, <2>5, <2>6, PartOf
    <3>2. /\ s \in Sockets /\ s.wire = s0.wire /\ s.buffer = buffer /\ s.waiting = w
          /\ s.atEnd = s0.atEnd
      BY <2>4, <3>1 DEF Sockets
    <3>. QED BY <2>5, <2>6, <3>2, Buffered
  <2>. QED BY <2>1, <2>2, <2>3, <2>7
<1>9. CASE ~sock.waiting /\ FirstLF(sock.buffer) > 0
  <2>1. f > 0 /\ f \in Nat /\ f - 1 \in Nat BY <1>8, <1>9
  <2>2. r0 = [line |-> Line(Take(sock.buffer, f - 1)), buffer |-> Drop(sock.buffer, f),
              waiting |-> FALSE, after |-> sock]
    BY <1>8, <1>9 DEF TryReadLine
  <2>3. PICK e \in p + 1..Len(Bytes) : e = p + f /\ e \in Nat /\ e <= c /\ e - 1 = p + (f - 1)
    BY <1>1, <1>7, <1>8, <2>1
  <2>4. UpTo(p, c, f - 1) = e - 1 /\ UpTo(p, c, f) = e BY <1>7, <1>8, <2>1, <2>3 DEF UpTo
  <2>5. Take(sock.buffer, f - 1) = Part(Bytes, p, e - 1) BY <1>1, <1>7, <2>1, <2>4, TakeDropPart
  <2>6. Drop(sock.buffer, f) = Part(Bytes, e, c) BY <1>1, <1>7, <2>1, <2>4, TakeDropPart
  <2>7. /\ r0.line = Line(Part(Bytes, p, e - 1)) /\ r0.buffer = Part(Bytes, e, c)
        /\ r0.waiting = FALSE /\ r0.after = sock
    BY <2>2, <2>5, <2>6
  <2>8. SockAt(s, e) /\ s.waiting = FALSE BY <1>2, <1>7, <1>11, <2>3, <2>7
  <2>9. Bytes[e] = LF /\ Plain(p, e - 1) BY <1>8, <2>1, <2>3
  <2>10. Ending(p, e, r) BY <1>5, <2>7, <2>8, <2>9 DEF Ending
  <2>. QED BY <2>10
<1>10. CASE ~(~sock.waiting /\ FirstLF(sock.buffer) > 0)
  <2>1. NoLF(sock.buffer) BY <1>8, <1>10
  <2>2. Plain(p, c) BY <1>1, <1>7, <2>1, NoLFInPart DEF Plain
  <2>3. CASE sock.atEnd
    <3>1. sock.buffer # << >> BY <2>3
    <3>2. r0 = [line |-> Line(sock.buffer), buffer |-> << >>, waiting |-> FALSE, after |-> sock]
      BY <1>10, <2>3, <3>1 DEF TryReadLine
    <3>3. c = Len(Bytes) BY <1>7, <2>3
    <3>4. p # c BY <1>1, <1>7, <3>1, NoPart
    <3>5. p < Len(Bytes) BY <1>7, <3>3, <3>4
    <3>6. Part(Bytes, c, c) = << >> BY <1>1, <1>7, NoPart
    <3>7. r0.buffer = Part(Bytes, c, c) /\ r0.waiting = FALSE /\ r0.after = sock
          /\ r0.line = Line(Part(Bytes, p, c))
      BY <1>7, <3>2, <3>6
    <3>8. SockAt(s, c) /\ s.waiting = FALSE /\ s.atEnd = sock.atEnd /\ s.buffer = r0.buffer
      <4>0. r0.waiting \in BOOLEAN BY <3>7
      <4>1. c <= c OBVIOUS
      <4>2. /\ r0.after \in Sockets /\ r0.after.wire = Part(Bytes, c, Len(Bytes))
            /\ r0.after.atEnd => c = Len(Bytes)
        BY <1>2, <1>7, <3>7
      <4>. QED BY <1>7, <1>11, <3>7, <4>0, <4>1, <4>2
    <3>9. LeftOver(p, r) BY <1>5, <2>2, <2>3, <3>3, <3>5, <3>6, <3>7, <3>8 DEF LeftOver
    <3>. QED BY <3>9
  <2>4. CASE ~sock.atEnd
    <3>0. PICK n \in Nat \ {0} : n = PageSize BY StreamAssumption
    <3>1. PICK r1 \in Receive[n] :
            r0 = LET i == FirstLF(r1.got)
                 IN  IF i > 0
                       THEN [line |-> Line(sock.buffer \o Take(r1.got, i - 1)),
                             buffer |-> Drop(r1.got, i), waiting |-> FALSE, after |-> r1.after]
                       ELSE [line |-> NoLine, buffer |-> sock.buffer \o r1.got, waiting |-> TRUE,
                             after |-> r1.after]
      BY <1>10, <2>4, <3>0 DEF TryReadLine
    <3>2. PICK b \in c..Len(Bytes) :
             /\ b - c <= n
             /\ r1.got = Part(Bytes, c, b)
             /\ r1.after.wire = Part(Bytes, b, Len(Bytes))
             /\ r1.after.buffer = sock.buffer /\ r1.after.waiting = sock.waiting
             /\ r1.after.atEnd \in BOOLEAN /\ (r1.after.atEnd => b = Len(Bytes))
             /\ r1.after \in Sockets
             /\ b = c => c = Len(Bytes)
      <4>1. c = p + Len(sock.buffer) /\ SockAt(sock, p) BY <1>6
      <4>. QED BY <4>1, Received, SMTT(15)
    <3>3. b \in Nat /\ c <= b /\ b <= Len(Bytes) /\ p <= b BY <1>1, <1>7, <3>2
    <3>4. /\ r1.got \in Seq(Int) /\ Len(r1.got) = b - c
          /\ \A j \in 1..b - c : r1.got[j] = Bytes[c + j]
      <4>1. /\ Part(Bytes, c, b) \in Seq(Int) /\ Len(Part(Bytes, c, b)) = b - c
            /\ \A j \in 1..b - c : Part(Bytes, c, b)[j] = Bytes[c + j]
        BY <1>1, <3>3, PartOf
      <4>. QED BY <3>2, <4>1
    <3>5. PICK i \in 0..b - c : /\ i = FirstLF(r1.got)
                                /\ i = 0 <=> NoLF(r1.got)
                                /\ i > 0 => /\ r1.got[i] = LF
                                            /\ \A j \in 1..b - c : j < i => r1.got[j] # LF
      BY <3>4, FirstLineEnd
    <3>6. CASE i > 0
      <4>1. i \in Nat /\ i - 1 \in Nat BY <3>5, <3>6
      <4>2. /\ r0.line = Line(sock.buffer \o Take(r1.got, i - 1))
            /\ r0.buffer = Drop(r1.got, i) /\ r0.waiting = FALSE /\ r0.after = r1.after
        BY <3>1, <3>5, <3>6
      <4>3. PICK e \in p + 1..Len(Bytes) :
              e = c + i /\ e \in Nat /\ e - 1 \in Nat /\ c <= e - 1 /\ e <= b /\ e - 1 <= Len(Bytes)
        <5>1. PICK l \in Nat : l = Len(Bytes) BY <1>1
        <5>2. PICK e \in Nat : e = c + i OBVIOUS
        <5>3. e \in p + 1..l /\ e - 1 \in Nat /\ c <= e - 1 /\ e <= b /\ e - 1 <= l
          BY <1>7, <3>3, <3>5, <3>6, <5>1, <5>2
        <5>. QED BY <5>1, <5>2, <5>3
      <4>4. UpTo(c, b, i - 1) = e - 1 /\ UpTo(c, b, i) = e
        BY <3>3, <3>5, <4>1, <4>3 DEF UpTo
      <4>5. Take(r1.got, i - 1) = Part(Bytes, c, e - 1)
        BY <1>1, <3>2, <3>3, <4>1, <4>4, TakeDropPart
      <4>6. Drop(r1.got, i) = Part(Bytes, e, b)
        BY <1>1, <3>2, <3>3, <4>1, <4>4, TakeDropPart
      <4>7. sock.buffer \o Take(r1.got, i - 1) = Part(Bytes, p, e - 1)
        <5>1. PICK x \in Nat : x = e - 1 BY <4>3
        <5>2. c \in Nat /\ p <= c /\ c <= x /\ x <= Len(Bytes) BY <1>7, <4>3, <5>1
        <5>3. Part(Bytes, p, c) \o Part(Bytes, c, x) = Part(Bytes, p, x)
          BY <1>1, <5>2, TwoParts
        <5>. QED BY <1>7, <4>5, <5>1, <5>3
      <4>8. SockAt(s, e) /\ s.waiting = FALSE
        BY <1>11, <3>2, <3>3, <4>2, <4>3, <4>6
      <4>9. Bytes[e] = LF
        <5>1. i \in 1..b - c BY <3>5, <3>6
        <5>2. r1.got[i] = Bytes[c + i] BY <3>4, <5>1
        <5>. QED BY <3>5, <3>6, <4>3, <5>2
      <4>10. Plain(p, e - 1)
        <5>1. ASSUME NEW j \in Int, p < j, j <= e - 1 PROVE Bytes[j] # LF
          <6>1. CASE j <= c BY <2>2, <5>1, <6>1 DEF Plain
          <6>2. CASE j > c
            <7>1. j - c \in 1..b - c /\ j - c < i /\ c + (j - c) = j BY <4>3, <5>1, <6>2
            <7>2. r1.got[j - c] # LF BY <3>5, <3>6, <7>1
            <7>3. r1.got[j - c] = Bytes[c + (j - c)] BY <3>4, <7>1
            <7>. QED BY <7>1, <7>2, <7>3
          <6>. QED BY <5>1, <6>1, <6>2
        <5>. QED BY <5>1 DEF Plain
      <4>11. Ending(p, e, r) BY <1>5, <4>2, <4>7, <4>8, <4>9, <4>10 DEF Ending
      <4>. QED BY <4>11
    <3>7. CASE i = 0
      <4>1. /\ r0.line = NoLine /\ r0.buffer = sock.buffer \o r1.got /\ r0.waiting = TRUE
            /\ r0.after = r1.after
        <5>1. ~(FirstLF(r1.got) > 0) BY <3>5, <3>7
        <5>. QED BY <3>1, <5>1
      <4>2. sock.buffer \o r1.got = Part(Bytes, p, b)
        <5>1. c \in Nat /\ p <= c /\ c <= b /\ b <= Len(Bytes) /\ b \in Nat BY <1>7, <3>3
        <5>2. Part(Bytes, p, c) \o Part(Bytes, c, b) = Part(Bytes, p, b)
          BY <1>1, <5>1, TwoParts
        <5>. QED BY <1>7, <3>2, <5>2
      <4>3. Plain(c, b)
        <5>1. NoLF(r1.got) BY <3>5, <3>7
        <5>. QED BY <1>1, <3>2, <3>3, <5>1, NoLFInPart DEF Plain
      <4>4. NoLF(Part(Bytes, p, b))
        <5>1. \A j \in Int : p < j /\ j <= b => Bytes[j] # LF BY <2>2, <3>3, <4>3 DEF Plain
        <5>. QED BY <1>1, <3>3, <5>1, NoLFBefore
      <4>5. SockAt(s, p) /\ s.buffer = r0.buffer
        BY <1>11, <3>2, <3>3, <4>1, <4>2
      <4>6. Waiting(p, r) BY <1>5, <4>1, <4>2, <4>4, <4>5 DEF Waiting
      <4>. QED BY <4>6
    <3>. QED BY <3>5, <3>6, <3>7
  <2>. QED BY <2>3, <2>4
<1>. QED BY <1>9, <1>10

(* The body on the wire.                                                   *)
LEMMA SamePart ==
    ASSUME NEW s \in Seq(Int), NEW t \in Seq(Int), NEW a \in Nat, NEW b \in Nat, a <= b,
           b <= Len(s), b <= Len(t), \A j \in 1..b - a : s[a + j] = t[a + j]
    PROVE  Part(s, a, b) = Part(t, a, b)
<1>1. PICK u : u = Part(s, a, b) OBVIOUS
<1>2. PICK v : v = Part(t, a, b) OBVIOUS
<1>3. u \in Seq(Int) /\ Len(u) = b - a /\ \A j \in 1..b - a : u[j] = s[a + j]
  BY <1>1, PartOf
<1>4. v \in Seq(Int) /\ Len(v) = b - a /\ \A j \in 1..b - a : v[j] = t[a + j]
  BY <1>2, PartOf
<1>5. u \in Seq(Int) /\ v \in Seq(Int) /\ Len(u) = Len(v) /\ \A j \in 1..Len(u) : u[j] = v[j]
  BY <1>3, <1>4
<1>6. u = v BY <1>5, SameBytes
<1>. QED BY <1>1, <1>2, <1>6

LEMMA PrefixIf ==
    ASSUME NEW s \in Seq(Int), NEW t \in Seq(Int), Len(s) <= Len(t),
           \A j \in 1..Len(s) : s[j] = t[j]
    PROVE  IsPrefix(s, t)
<1>1. PICK n \in Nat : n = Len(s) BY LenProperties
<1>2. n <= Len(s) /\ n <= Len(t) /\ 0 <= n BY <1>1
<1>3. \A j \in 1..n - 0 : s[0 + j] = t[0 + j] BY <1>1
<1>4. Part(s, 0, n) = Part(t, 0, n) BY <1>2, <1>3, SamePart
<1>. QED BY <1>1, <1>4 DEF IsPrefix, Part

LEMMA Unchunked ==
    ASSUME message \in Messages, message.delimited # "chunked"
    PROVE  /\ IsSent(message, Len(Content))
           /\ message.delimited \in {"length", "close"}
           /\ \A j \in 1..Len(Content) : j <= Len(Bytes) => Bytes[j] = Content[j]
           /\ message.delimited = "close" =>
                message.complete /\ message.next = << >> /\ Len(Bytes) = Len(Content)
<1>1. IsMessage(message) BY ResponseAssumption
<1>2. /\ IsSent(message, Len(Content)) /\ Has(Bytes, 0, Content)
      /\ message.delimited = "close" => message.complete /\ message.next = << >>
      /\ message.delimited \in {"length", "close"}
  BY <1>1 DEF IsMessage, Bytes, Content
<1>3. Bytes \in Seq(Int) /\ Content \in Seq(Int) /\ Len(Bytes) \in Nat /\ Len(Content) \in Nat
      /\ DOMAIN Content = 1..Len(Content)
  BY Sent, LenProperties
<1>4. \A j \in 1..Len(Content) : j <= Len(Bytes) => Bytes[j] = Content[j]
  <2>1. \A j \in 1..Len(Content) : 0 + j = j OBVIOUS
  <2>. QED BY <1>2, <1>3, <2>1 DEF Has
<1>5. ASSUME message.delimited = "close" PROVE Len(Bytes) = Len(Content)
  <2>1. Len(Content) <= Len(Bytes) /\ Drop(Bytes, Len(Content)) = << >>
    BY <1>2, <1>5 DEF IsSent, Bytes
  <2>2. PICK k \in Nat : k = Len(Content) BY <1>3
  <2>3. PICK l \in Nat : l = Len(Bytes) BY <1>3
  <2>4. k <= l /\ k <= Len(Bytes) /\ l <= Len(Bytes) BY <2>1, <2>2, <2>3
  <2>5. Drop(Bytes, k) = Part(Bytes, k, l) BY <1>3, <2>3, <2>4, TakeDrop
  <2>6. Part(Bytes, k, l) = << >> BY <2>1, <2>2, <2>5
  <2>7. k = l BY <1>3, <2>4, <2>6, NoPart
  <2>. QED BY <2>2, <2>3, <2>7
<1>. QED BY <1>2, <1>4, <1>5

(* The chunks are where the cuts are.                                      *)
LEMMA ChunksAre ==
    ASSUME message \in Messages, message.delimited = "chunked"
    PROVE  /\ Len(Cuts) \in Nat \ {0} /\ DOMAIN Cuts = 1..Len(Cuts)
           /\ IsSent(message, Len(Content) + 5 * Len(Cuts))
           /\ Cuts[1] = 0 /\ Cuts[Len(Cuts)] = Len(Content)
           /\ \A i \in 1..Len(Cuts) :
                /\ Cuts[i] \in Nat /\ EndOf(i) \in Nat /\ EndOf(i) <= Len(Content)
                /\ i < Len(Cuts) => Cuts[i] < EndOf(i) /\ EndOf(i) = Cuts[i + 1]
                /\ i = Len(Cuts) => Cuts[i] = EndOf(i) /\ EndOf(i) = Len(Content)
                /\ Has(Bytes, Begins(i), Chunk(Part(Content, Cuts[i], EndOf(i))))
<1>1. IsMessage(message) BY ResponseAssumption
<1>2. PICK n \in 1..Len(Content) + 1 :
        /\ \E cuts \in [1..n -> 0..Len(Content)] : HasChunks(Bytes, Content, cuts)
        /\ IsSent(message, Len(Content) + 5 * n)
  BY <1>1 DEF IsMessage, Bytes, Content
<1>3. PICK cuts \in [1..n -> 0..Len(Content)] : HasChunks(Bytes, Content, cuts) BY <1>2
<1>4. Len(Content) \in Nat /\ n \in Nat \ {0} BY Sent
<1>5. ASSUME NEW m \in Nat, NEW c \in [1..m -> 0..Len(Content)] PROVE Len(c) = m
  BY <1>5, SeqDef, LenProperties
<1>6. IsCuts(message, cuts) BY <1>2, <1>3, <1>4, <1>5 DEF IsCuts, Bytes, Content
<1>7. Cuts \in UNION {[1..k -> 0..Len(Content)] : k \in 1..Len(Content) + 1} /\ IsCuts(message, Cuts)
  <2>1. cuts \in UNION {[1..k -> 0..Len(Content)] : k \in 1..Len(Content) + 1} BY <1>2, <1>3
  <2>. QED BY <1>6, <2>1 DEF Cuts, CutsOf, Content
<1>8. PICK k \in 1..Len(Content) + 1 : Cuts \in [1..k -> 0..Len(Content)] BY <1>7
<1>9. Len(Cuts) = k /\ k \in Nat \ {0} BY <1>4, <1>5, <1>8
<1>10. /\ Cuts[1] = 0 /\ Cuts[k] = Len(Content)
       /\ \A i \in 1..k :
            LET end == IF i = k THEN Len(Content) ELSE Cuts[i + 1]
            IN  /\ i < k => Cuts[i] < end
                /\ Has(Bytes, Cuts[i] + 5 * (i - 1), Chunk(SubSeq(Content, Cuts[i] + 1, end)))
  BY <1>7, <1>8, <1>9 DEF IsCuts, HasChunks, Bytes, Content
<1>11. IsSent(message, Len(Content) + 5 * Len(Cuts)) BY <1>7 DEF IsCuts, Content
<1>12. ASSUME NEW i \in 1..k
       PROVE  /\ Cuts[i] \in Nat /\ EndOf(i) \in Nat /\ EndOf(i) <= Len(Content)
              /\ i < k => Cuts[i] < EndOf(i) /\ EndOf(i) = Cuts[i + 1]
              /\ i = k => Cuts[i] = EndOf(i) /\ EndOf(i) = Len(Content)
              /\ Has(Bytes, Begins(i), Chunk(Part(Content, Cuts[i], EndOf(i))))
  <2>1. EndOf(i) = IF i = k THEN Len(Content) ELSE Cuts[i + 1] BY <1>9 DEF EndOf
  <2>2. Cuts[i] \in 0..Len(Content) /\ (i < k => Cuts[i + 1] \in 0..Len(Content))
    <3>1. i < k => i + 1 \in 1..k BY <1>9
    <3>. QED BY <1>8, <3>1
  <2>3. EndOf(i) \in 0..Len(Content) /\ (i < k => Cuts[i] < EndOf(i) /\ EndOf(i) = Cuts[i + 1])
        /\ (i = k => Cuts[i] = EndOf(i) /\ EndOf(i) = Len(Content))
    BY <1>4, <1>9, <1>10, <2>1, <2>2
  <2>4. Has(Bytes, Begins(i), Chunk(Part(Content, Cuts[i], EndOf(i))))
    BY <1>10, <2>1 DEF Begins, Part
  <2>. QED BY <1>4, <2>2, <2>3, <2>4
<1>. QED BY <1>8, <1>9, <1>10, <1>11, <1>12

(* What a chunk looks like on the wire.                                    *)
LEMMA ChunkBytes ==
    ASSUME message \in Messages, message.delimited = "chunked", NEW i \in 1..Len(Cuts),
           NEW p \in Nat, p = Begins(i), NEW n \in Nat, n = EndOf(i) - Cuts[i]
    PROVE  /\ p + 1 <= Len(Bytes) => Bytes[p + 1] = Size(n)
           /\ p + 2 <= Len(Bytes) => Bytes[p + 2] = CR
           /\ p + 3 <= Len(Bytes) => Bytes[p + 3] = LF
           /\ \A j \in 1..n : p + 3 + j <= Len(Bytes) => Bytes[p + 3 + j] = Content[Cuts[i] + j]
           /\ p + 4 + n <= Len(Bytes) => Bytes[p + 4 + n] = CR
           /\ p + 5 + n <= Len(Bytes) => Bytes[p + 5 + n] = LF
<1>1. /\ Content \in Seq(Int) /\ Len(Content) \in Nat /\ Len(Bytes) \in Nat BY Sent
<1>2. /\ Cuts[i] \in Nat /\ EndOf(i) \in Nat /\ EndOf(i) <= Len(Content)
      /\ Has(Bytes, p, Chunk(Part(Content, Cuts[i], EndOf(i))))
  BY ChunksAre
<1>3. PICK c : c = Part(Content, Cuts[i], EndOf(i)) OBVIOUS
<1>4. c \in Seq(Int) /\ Len(c) = n /\ \A j \in 1..n : c[j] = Content[Cuts[i] + j]
  <2>1. PICK a \in Nat : a = Cuts[i] BY <1>2
  <2>2. PICK b \in Nat : b = EndOf(i) BY <1>2
  <2>3. a <= b /\ b <= Len(Content) /\ b - a = n BY <1>2, <2>1, <2>2
  <2>4. /\ Part(Content, a, b) \in Seq(Int) /\ Len(Part(Content, a, b)) = b - a
        /\ \A j \in 1..b - a : Part(Content, a, b)[j] = Content[a + j]
    BY <1>1, <2>3, PartOf
  <2>5. c = Part(Content, a, b) BY <1>3, <2>1, <2>2
  <2>. QED BY <2>1, <2>3, <2>4, <2>5
<1>5. PICK h : h = <<Size(Len(c)), CR, LF>> OBVIOUS
<1>6. h \in Seq(Int) /\ Len(h) = 3 /\ h[1] = Size(n) /\ h[2] = CR /\ h[3] = LF
  BY <1>4, <1>5 DEF Size, SizeBase, CR, LF
<1>7. PICK t : t = <<CR, LF>> OBVIOUS
<1>8. t \in Seq(Int) /\ Len(t) = 2 /\ t[1] = CR /\ t[2] = LF BY <1>7 DEF CR, LF
<1>9. PICK u : u = h \o c OBVIOUS
<1>10. /\ u \in Seq(Int) /\ Len(u) = Len(h) + Len(c)
       /\ \A j \in 1..Len(h) + Len(c) : u[j] = IF j <= Len(h) THEN h[j] ELSE c[j - Len(h)]
  BY <1>4, <1>6, <1>9, ConcatProperties
<1>11. PICK w : w = u \o t OBVIOUS
<1>12. /\ w \in Seq(Int) /\ Len(w) = Len(u) + Len(t)
       /\ \A j \in 1..Len(u) + Len(t) : w[j] = IF j <= Len(u) THEN u[j] ELSE t[j - Len(u)]
  <2>1. u \in Seq(Int) /\ t \in Seq(Int) BY <1>8, <1>10
  <2>. QED BY <1>11, <2>1, ConcatProperties
<1>13. Len(u) = n + 3 /\ Len(w) = n + 5
  <2>1. Len(u) = Len(h) + Len(c) BY <1>10
  <2>2. Len(w) = Len(u) + Len(t) BY <1>12
  <2>. QED BY <1>4, <1>6, <1>8, <2>1, <2>2
<1>14. /\ \A j \in 1..3 : w[j] = h[j]
       /\ \A j \in 1..n : w[3 + j] = c[j]
       /\ w[n + 4] = CR /\ w[n + 5] = LF
  <2>1. ASSUME NEW j \in 1..3 PROVE w[j] = h[j]
    <3>1. j \in 1..Len(h) + Len(c) /\ j \in 1..Len(u) + Len(t) /\ j <= Len(u) /\ j <= Len(h)
      BY <1>4, <1>6, <1>8, <1>13
    <3>. QED BY <1>10, <1>12, <3>1
  <2>2. ASSUME NEW j \in 1..n PROVE w[3 + j] = c[j]
    <3>1. PICK x \in Nat : x = 3 + j OBVIOUS
    <3>2. /\ x \in 1..Len(h) + Len(c) /\ x \in 1..Len(u) + Len(t) /\ x <= Len(u)
          /\ ~(x <= Len(h)) /\ x - Len(h) = j
      <4>1. Len(h) = 3 /\ Len(c) = n /\ Len(u) = n + 3 /\ Len(t) = 2 BY <1>4, <1>6, <1>8, <1>13
      <4>2. /\ x \in 1..3 + n /\ x \in 1..(n + 3) + 2 /\ x <= n + 3 /\ ~(x <= 3) /\ x - 3 = j
        BY <3>1
      <4>. QED BY <4>1, <4>2
    <3>. QED BY <1>10, <1>12, <3>1, <3>2
  <2>3. ASSUME NEW x \in Nat, x > n + 3, x <= n + 5 PROVE w[x] = t[x - (n + 3)]
    <3>1. Len(u) = n + 3 /\ Len(t) = 2 BY <1>8, <1>13
    <3>2. x \in 1..(n + 3) + 2 /\ ~(x <= n + 3) BY <2>3
    <3>3. x \in 1..Len(u) + Len(t) /\ ~(x <= Len(u)) BY <3>1, <3>2
    <3>4. w[x] = t[x - Len(u)] BY <1>12, <3>3
    <3>. QED BY <3>1, <3>4
  <2>4. w[n + 4] = CR /\ w[n + 5] = LF
    <3>1. PICK x \in Nat : x = n + 4 OBVIOUS
    <3>2. PICK y \in Nat : y = n + 5 OBVIOUS
    <3>3. x - (n + 3) = 1 /\ y - (n + 3) = 2 BY <3>1, <3>2
    <3>4. w[x] = t[x - (n + 3)]
      <4>1. x > n + 3 /\ x <= n + 5 BY <3>1
      <4>. QED BY <2>3, <4>1
    <3>5. w[y] = t[y - (n + 3)]
      <4>1. y > n + 3 /\ y <= n + 5 BY <3>2
      <4>. QED BY <2>3, <4>1
    <3>. QED BY <1>8, <3>1, <3>2, <3>3, <3>4, <3>5
  <2>. QED BY <2>1, <2>2, <2>4
<1>15. \A j \in 1..n + 5 : p + j <= Len(Bytes) => Bytes[p + j] = w[j]
  <2>1. w = Chunk(c) BY <1>5, <1>7, <1>9, <1>11 DEF Chunk
  <2>2. DOMAIN w = 1..n + 5 BY <1>12, <1>13, LenProperties
  <2>. QED BY <1>2, <1>3, <2>1, <2>2 DEF Has
<1>16. ASSUME NEW j \in 1..n, p + 3 + j <= Len(Bytes)
       PROVE  Bytes[p + 3 + j] = Content[Cuts[i] + j]
  <2>1. 3 + j \in 1..n + 5 /\ p + (3 + j) = p + 3 + j OBVIOUS
  <2>2. Bytes[p + (3 + j)] = w[3 + j] BY <1>15, <1>16, <2>1
  <2>. QED BY <1>4, <1>14, <2>1, <2>2
<1>17. /\ p + 1 <= Len(Bytes) => Bytes[p + 1] = Size(n)
       /\ p + 2 <= Len(Bytes) => Bytes[p + 2] = CR
       /\ p + 3 <= Len(Bytes) => Bytes[p + 3] = LF
  <2>1. 1 \in 1..n + 5 /\ 2 \in 1..n + 5 /\ 3 \in 1..n + 5 OBVIOUS
  <2>2. w[1] = Size(n) /\ w[2] = CR /\ w[3] = LF BY <1>6, <1>14
  <2>. QED BY <1>15, <2>1, <2>2
<1>18. /\ p + 4 + n <= Len(Bytes) => Bytes[p + 4 + n] = CR
       /\ p + 5 + n <= Len(Bytes) => Bytes[p + 5 + n] = LF
  <2>1. n + 4 \in 1..n + 5 /\ n + 5 \in 1..n + 5 /\ p + (n + 4) = p + 4 + n
        /\ p + (n + 5) = p + 5 + n
    OBVIOUS
  <2>. QED BY <1>14, <1>15, <2>1
<1>. QED BY <1>16, <1>17, <1>18

(* A read of the response: the next bytes of the body, and a place further *)
(* on the wire.                                                            *)
Progress(q, r) ==
    /\ \E x \in q..Len(Content), p \in 0..Len(Bytes) :
         /\ r.got = Part(Content, q, x)
         /\ Decoded(p, x, r.after.sock, r.after.response)
    /\ Justified(r.after.thrown)

(* There is an end too early only of a message that was cut off.           *)
LEMMA Truncated ==
    ASSUME message \in Messages, NEW p \in Nat, NEW q \in Nat, NEW s, NEW r,
           Decoded(p, q, s, r), s.atEnd, s.buffer = << >>, ~r.atEnd,
           message.delimited # "close"
    PROVE  ~message.complete
<1>1. Len(Bytes) \in Nat /\ Len(Content) \in Nat BY Sent
<1>2. p = Len(Bytes)
  <2>1. s.atEnd => p + Len(s.buffer) = Len(Bytes) BY DEF Decoded, SockAt
  <2>2. Len(s.buffer) = 0 BY EmptySeq
  <2>. QED BY <1>1, <2>1, <2>2
<1>3. CASE message.delimited = "length"
  <2>1. InSized(p, q, s, r) BY <1>3 DEF Decoded
  <2>2. p = q /\ r.toRead = Len(Content) - q /\ r.toRead > 0 BY <2>1 DEF InSized
  <2>3. Len(Bytes) < Len(Content) BY <1>1, <1>2, <2>2
  <2>4. message.complete => Len(Content) <= Len(Bytes) BY <1>3, Unchunked DEF IsSent, Bytes
  <2>. QED BY <1>1, <2>3, <2>4
<1>4. CASE message.delimited = "chunked"
  <2>1. InChunks(p, q, s, r) BY <1>4 DEF Decoded
  <2>2. PICK n \in Nat \ {0} : n = Len(Cuts) BY <1>4, ChunksAre
  <2>3. message.complete => Len(Content) + 5 * n <= Len(Bytes)
    BY <1>4, <2>2, ChunksAre DEF IsSent, Bytes
  <2>4. CASE ~s.waiting /\ CutOff(p, s, r) BY <2>4 DEF CutOff
  <2>5. CASE ~s.waiting /\ AfterLast(p, q, r) BY <2>5 DEF AfterLast
  <2>6. ASSUME NEW i \in DOMAIN Cuts,
               \/ AtSize(i, p, q, s, r)
               \/ InChunk(i, p, q, r)
               \/ AtLineEnd(i, p, q, r)
        PROVE  p < Len(Content) + 5 * n
    <3>1. i \in 1..n BY <1>4, <2>2, ChunksAre
    <3>2. PICK a \in Nat : a = Cuts[i] BY <1>4, <2>2, <3>1, ChunksAre
    <3>3. PICK e \in Nat : e = EndOf(i) BY <1>4, <2>2, <3>1, ChunksAre
    <3>4. a <= e /\ e <= Len(Content)
      <4>1. /\ EndOf(i) <= Len(Content)
            /\ i < n => Cuts[i] < EndOf(i)
            /\ i = n => Cuts[i] = EndOf(i)
        BY <1>4, <2>2, <3>1, ChunksAre
      <4>. QED BY <3>1, <3>2, <3>3, <4>1
    <3>5. Begins(i) = a + 5 * (i - 1) BY <3>2 DEF Begins
    <3>6. CASE AtSize(i, p, q, s, r)
      <4>1. p = a + 5 * (i - 1) BY <3>5, <3>6 DEF AtSize
      <4>. QED BY <1>1, <3>1, <3>4, <4>1
    <3>7. CASE InChunk(i, p, q, r)
      <4>1. r.toRead = e - q /\ r.toRead > 0 /\ p = a + 5 * (i - 1) + 3 + (q - a)
        BY <3>2, <3>3, <3>5, <3>7 DEF InChunk
      <4>. QED BY <1>1, <3>1, <3>4, <4>1
    <3>8. CASE AtLineEnd(i, p, q, r)
      <4>1. PICK m \in {-2, -1} : m = r.toRead BY <3>8 DEF AtLineEnd
      <4>2. q = e /\ p = a + 5 * (i - 1) + 3 + (e - a) + (2 + m)
        BY <3>2, <3>3, <3>5, <3>8, <4>1 DEF AtLineEnd
      <4>3. p = e + 5 * i + m
        <5>1. i \in Nat BY <3>1
        <5>2. PICK x \in Int : x = 5 * (i - 1) /\ x = 5 * i - 5 BY <5>1
        <5>3. PICK y \in Int : y = 5 * i BY <5>1
        <5>4. x = y - 5 BY <5>2, <5>3
        <5>5. p = a + x + 3 + (e - a) + (2 + m) BY <4>2, <5>2
        <5>6. p = e + y + m BY <4>1, <5>4, <5>5
        <5>. QED BY <5>3, <5>6
      <4>. QED BY <1>1, <3>1, <3>4, <4>3
    <3>. QED BY <2>6, <3>6, <3>7, <3>8
  <2>7. ASSUME NEW i \in DOMAIN Cuts,
               \/ AtSize(i, p, q, s, r)
               \/ InChunk(i, p, q, r)
               \/ AtLineEnd(i, p, q, r)
        PROVE  ~message.complete
    BY <1>1, <1>2, <2>2, <2>3, <2>6, <2>7
  <2>. QED BY <2>1, <2>4, <2>5, <2>7 DEF InChunks
<1>. QED BY <1>3, <1>4, Unchunked

(* A result that is the socket, the response and nothing.                  *)
LEMMA NothingRead ==
    ASSUME message \in Messages, NEW q \in 0..Len(Content), NEW p \in 0..Len(Bytes),
           NEW s, NEW rs, NEW x, Decoded(p, q, s, rs), Justified(x),
           NEW r, r = Results(<< >>, s, rs, x)
    PROVE  Progress(q, r)
<1>1. Content \in Seq(Int) /\ Len(Content) \in Nat BY Sent
<1>2. Part(Content, q, q) = << >>
  <2>1. q \in Nat /\ q <= q /\ q <= Len(Content) BY <1>1
  <2>. QED BY <1>1, <2>1, NoPart
<1>3. r.got = << >> /\ r.after.sock = s /\ r.after.response = rs /\ r.after.thrown = x
  BY DEF Results
<1>4. q \in q..Len(Content) BY <1>1
<1>. QED BY <1>2, <1>3, <1>4 DEF Progress

(* The body up to the end of the connection.                               *)
LEMMA OpenStep ==
    ASSUME message \in Messages, message.delimited = "close", NEW n \in Nat \ {0},
           NEW q \in 0..Len(Content), NEW p \in 0..Len(Bytes), Decoded(p, q, sock, response),
           NEW r0 \in SocketRead(n), NEW r, r = Results(r0.got, r0.sock, response, "no")
    PROVE  Progress(q, r)
<1>1. /\ Bytes \in Seq(Int) /\ Content \in Seq(Int) /\ Len(Bytes) \in Nat /\ Len(Content) \in Nat
  BY Sent
<1>2. /\ Len(Bytes) = Len(Content)
      /\ \A j \in 1..Len(Content) : j <= Len(Bytes) => Bytes[j] = Content[j]
  BY Unchunked
<1>3. /\ SockAt(sock, p) /\ ~sock.waiting /\ p = q /\ ~response.atEnd /\ response \in Responses
  BY DEF Decoded, InOpen
<1>4. PICK b \in p..Len(Bytes) : /\ r0.got = Part(Bytes, p, b) /\ SockAt(r0.sock, b)
                                 /\ r0.sock.waiting = sock.waiting
  BY <1>1, <1>3, SocketReads
<1>5. b \in Nat /\ p <= b /\ b <= Len(Bytes) /\ b <= Len(Content) /\ p \in Nat
  BY <1>1, <1>2, <1>4
<1>6. \A j \in 1..b - p : Bytes[p + j] = Content[p + j]
  <2>. TAKE j \in 1..b - p
  <2>1. p + j \in 1..Len(Content) /\ p + j <= Len(Bytes) BY <1>1, <1>2, <1>5
  <2>. QED BY <1>2, <2>1
<1>7. Part(Bytes, p, b) = Part(Content, p, b)
  <2>1. Bytes \in Seq(Int) /\ Content \in Seq(Int) BY <1>1
  <2>. QED BY <1>5, <1>6, <2>1, SamePart
<1>8. Decoded(b, b, r0.sock, response) BY <1>3, <1>4 DEF Decoded, InOpen
<1>9. r.got = r0.got /\ r.after.sock = r0.sock /\ r.after.response = response
      /\ r.after.thrown = "no"
  BY DEF Results
<1>10. b \in q..Len(Content) /\ b \in 0..Len(Bytes) BY <1>1, <1>3, <1>5
<1>11. r.got = Part(Content, q, b) BY <1>3, <1>4, <1>7, <1>9
<1>. QED BY <1>8, <1>9, <1>10, <1>11 DEF Progress, Justified

(* A body with a length.                                                   *)
LEMMA SizedStep ==
    ASSUME message \in Messages, message.delimited = "length", NEW n \in Nat \ {0},
           NEW q \in 0..Len(Content), NEW p \in 0..Len(Bytes), Decoded(p, q, sock, response),
           ~response.atEnd, NEW r \in ReadBytes(n, 0, TRUE)
    PROVE  Progress(q, r)
<1>1. /\ Bytes \in Seq(Int) /\ Content \in Seq(Int) /\ Len(Bytes) \in Nat /\ Len(Content) \in Nat
  BY Sent
<1>2. \A j \in 1..Len(Content) : j <= Len(Bytes) => Bytes[j] = Content[j] BY Unchunked
<1>3. /\ SockAt(sock, p) /\ ~sock.waiting /\ p = q /\ response \in Responses
      /\ response.toRead = Len(Content) - q /\ ~response.setAtEnd
  BY DEF Decoded, InSized
<1>4. PICK k \in Nat : /\ k = IF n > response.toRead THEN response.toRead ELSE n
                       /\ k <= Len(Content) - q
  <2>1. PICK m \in Nat : m = response.toRead /\ m = Len(Content) - q
    <3>1. Len(Content) - q \in Nat BY <1>1
    <3>. QED BY <1>3, <3>1
  <2>2. PICK k \in Nat : k = (IF n > m THEN m ELSE n) /\ k <= m OBVIOUS
  <2>. QED BY <2>1, <2>2
<1>5. PICK r0 \in SocketRead(k) :
        r = LET left == response.toRead - Len(r0.got)
            IN  Results(r0.got, r0.sock,
                        [response EXCEPT !.toRead = IF left = 0 THEN 0 ELSE left,
                                         !.atEnd = TRUE /\ left = 0], "no")
  BY <1>4 DEF ReadBytes
<1>6. PICK b \in p..Len(Bytes) : /\ b - p <= k
                                 /\ r0.got = Part(Bytes, p, b) /\ SockAt(r0.sock, b)
                                 /\ r0.sock.waiting = sock.waiting
  BY <1>1, <1>3, SocketReads
<1>7. b \in Nat /\ p <= b /\ b <= Len(Bytes) /\ b <= Len(Content) /\ p \in Nat
  BY <1>1, <1>3, <1>4, <1>6
<1>8. \A j \in 1..b - p : Bytes[p + j] = Content[p + j]
  <2>. TAKE j \in 1..b - p
  <2>1. p + j \in 1..Len(Content) /\ p + j <= Len(Bytes) BY <1>1, <1>7
  <2>. QED BY <1>2, <2>1
<1>9. Part(Bytes, p, b) = Part(Content, p, b)
  <2>1. Bytes \in Seq(Int) /\ Content \in Seq(Int) BY <1>1
  <2>. QED BY <1>7, <1>8, <2>1, SamePart
<1>10. Len(r0.got) = b - p
  <2>1. Len(Part(Bytes, p, b)) = b - p BY <1>1, <1>7, PartOf
  <2>. QED BY <1>6, <2>1
<1>11. PICK left \in Nat : left = Len(Content) - b
  <2>1. Len(Content) - b \in Nat BY <1>1, <1>7
  <2>. QED BY <2>1
<1>12. left = response.toRead - Len(r0.got) BY <1>1, <1>3, <1>7, <1>10, <1>11
<1>13. PICK rs : rs = [response EXCEPT !.toRead = IF left = 0 THEN 0 ELSE left,
                                       !.atEnd = TRUE /\ left = 0]
  OBVIOUS
<1>14. /\ rs \in Responses /\ rs.toRead = left /\ rs.setAtEnd = response.setAtEnd
       /\ rs.atEnd <=> left = 0
  <2>1. PICK done \in BOOLEAN : done = (TRUE /\ left = 0) OBVIOUS
  <2>2. PICK x \in Int : x = left OBVIOUS
  <2>3. x = IF left = 0 THEN 0 ELSE left BY <2>2
  <2>4. rs = [response EXCEPT !.toRead = x, !.atEnd = done] BY <1>13, <2>1, <2>3
  <2>5. response \in Responses BY <1>3
  <2>6. rs \in Responses /\ rs.toRead = x /\ rs.setAtEnd = response.setAtEnd /\ rs.atEnd = done
    BY <2>4, <2>5 DEF Responses
  <2>. QED BY <2>1, <2>2, <2>6
<1>15. r = Results(r0.got, r0.sock, rs, "no") BY <1>5, <1>12, <1>13
<1>16. InSized(b, b, r0.sock, rs) BY <1>3, <1>11, <1>14 DEF InSized
<1>17. Decoded(b, b, r0.sock, rs) BY <1>3, <1>6, <1>14, <1>16 DEF Decoded
<1>18. r.got = r0.got /\ r.after.sock = r0.sock /\ r.after.response = rs /\ r.after.thrown = "no"
  BY <1>15 DEF Results
<1>19. b \in q..Len(Content) /\ b \in 0..Len(Bytes) BY <1>1, <1>3, <1>7
<1>20. r.got = Part(Content, q, b) BY <1>3, <1>6, <1>9, <1>18
<1>. QED BY <1>17, <1>18, <1>19, <1>20 DEF Progress, Justified

(* A chunk of the body: its bytes, the line end after it, the size before. *)
LEMMA ChunkStep ==
    ASSUME message \in Messages, message.delimited = "chunked", NEW n \in Nat \ {0},
           NEW q \in 0..Len(Content), NEW p \in 0..Len(Bytes), SockAt(sock, p),
           response \in Responses, ~sock.waiting,
           NEW i \in DOMAIN Cuts, InChunk(i, p, q, response),
           NEW r \in ReadBytes(n, -2, FALSE)
    PROVE  Progress(q, r)
<1>1. /\ Bytes \in Seq(Int) /\ Content \in Seq(Int) /\ Len(Bytes) \in Nat /\ Len(Content) \in Nat
  BY Sent
<1>2. i \in 1..Len(Cuts) BY ChunksAre
<1>3. PICK a \in Nat : a = Cuts[i] BY <1>2, ChunksAre
<1>4. PICK e \in Nat : e = EndOf(i) /\ e <= Len(Content) BY <1>2, ChunksAre
<1>5. PICK h \in Nat : h = Begins(i)
  <2>0. Len(Cuts) \in Nat BY ChunksAre
  <2>1. i \in Nat /\ i >= 1 BY <1>2, <2>0
  <2>2. a + 5 * (i - 1) \in Nat BY <2>1
  <2>. QED BY <1>3, <2>2 DEF Begins
<1>6. /\ response.toRead = e - q /\ response.toRead > 0 /\ ~response.setAtEnd /\ ~response.atEnd
      /\ q >= a /\ p = h + 3 + (q - a)
  BY <1>3, <1>4, <1>5 DEF InChunk
<1>7. PICK k \in Nat : k = (IF n > response.toRead THEN response.toRead ELSE n) /\ k <= e - q
  <2>1. PICK m \in Nat : m = response.toRead /\ m = e - q
    <3>1. e - q \in Nat BY <1>1, <1>6
    <3>. QED BY <1>6, <3>1
  <2>2. PICK k \in Nat : k = (IF n > m THEN m ELSE n) /\ k <= m OBVIOUS
  <2>. QED BY <2>1, <2>2
<1>8. PICK r0 \in SocketRead(k) :
        r = LET left == response.toRead - Len(r0.got)
            IN  Results(r0.got, r0.sock,
                        [response EXCEPT !.toRead = IF left = 0 THEN -2 ELSE left,
                                         !.atEnd = FALSE /\ left = 0], "no")
  BY <1>7 DEF ReadBytes
<1>9. PICK b \in p..Len(Bytes) : /\ b - p <= k
                                 /\ r0.got = Part(Bytes, p, b) /\ SockAt(r0.sock, b)
                                 /\ r0.sock.waiting = sock.waiting
  <2>1. p \in Nat /\ k \in Nat BY <1>1
  <2>. QED BY <2>1, SocketReads
<1>10. b \in Nat /\ p <= b /\ b <= Len(Bytes) /\ p \in Nat /\ q \in Nat
  BY <1>1, <1>9
<1>11. PICK x \in Nat : x = q + (b - p) /\ q <= x /\ x <= e
  <2>1. PICK x \in Nat : x = q + (b - p) BY <1>10
  <2>2. b - p <= e - q BY <1>4, <1>7, <1>9, <1>10
  <2>. QED BY <1>4, <1>10, <2>1, <2>2
<1>12. PICK c \in Nat : c = e - a BY <1>6, <1>11
<1>13. \A j \in 1..c : h + 3 + j <= Len(Bytes) => Bytes[h + 3 + j] = Content[a + j]
  <2>1. c = EndOf(i) - Cuts[i] BY <1>3, <1>4, <1>12
  <2>2. \A j \in 1..c : h + 3 + j <= Len(Bytes) => Bytes[h + 3 + j] = Content[Cuts[i] + j]
    BY <1>2, <1>5, <2>1, ChunkBytes
  <2>. QED BY <1>3, <2>2
<1>14. \A j \in 1..b - p : Bytes[p + j] = Content[q + j]
  <2>. TAKE j \in 1..b - p
  <2>1. PICK y \in 1..c : y = q - a + j BY <1>6, <1>10, <1>11, <1>12
  <2>2. h + 3 + y = p + j /\ a + y = q + j /\ p + j <= Len(Bytes) BY <1>1, <1>6, <1>10, <2>1
  <2>3. Bytes[h + 3 + y] = Content[a + y] BY <1>13, <2>2
  <2>. QED BY <2>2, <2>3
<1>15. Part(Bytes, p, b) = Part(Content, q, x)
  <2>1. x - q = b - p /\ x <= Len(Content) BY <1>1, <1>4, <1>10, <1>11
  <2>2. PICK u : u = Part(Bytes, p, b) OBVIOUS
  <2>3. PICK v : v = Part(Content, q, x) OBVIOUS
  <2>4. u \in Seq(Int) /\ Len(u) = b - p /\ \A j \in 1..b - p : u[j] = Bytes[p + j]
    <3>1. /\ Part(Bytes, p, b) \in Seq(Int) /\ Len(Part(Bytes, p, b)) = b - p
          /\ \A j \in 1..b - p : Part(Bytes, p, b)[j] = Bytes[p + j]
      BY <1>1, <1>10, PartOf
    <3>. QED BY <2>2, <3>1
  <2>5. v \in Seq(Int) /\ Len(v) = x - q /\ \A j \in 1..x - q : v[j] = Content[q + j]
    <3>1. /\ Part(Content, q, x) \in Seq(Int) /\ Len(Part(Content, q, x)) = x - q
          /\ \A j \in 1..x - q : Part(Content, q, x)[j] = Content[q + j]
      <4>1. q \in Nat /\ q <= x /\ x <= Len(Content) BY <1>10, <1>11, <2>1
      <4>. QED BY <1>1, <4>1, PartOf
    <3>. QED BY <2>3, <3>1
  <2>6. /\ u \in Seq(Int) /\ v \in Seq(Int) /\ Len(u) = Len(v)
        /\ \A j \in 1..Len(u) : u[j] = v[j]
    BY <1>14, <2>1, <2>4, <2>5
  <2>7. u = v BY <2>6, SameBytes
  <2>. QED BY <2>2, <2>3, <2>7
<1>16. Len(r0.got) = b - p
  <2>1. Len(Part(Bytes, p, b)) = b - p BY <1>1, <1>10, PartOf
  <2>. QED BY <1>9, <2>1
<1>17. PICK left \in Nat : left = e - x
  <2>1. e - x \in Nat BY <1>11
  <2>. QED BY <2>1
<1>18. left = response.toRead - Len(r0.got) BY <1>6, <1>10, <1>11, <1>16, <1>17
<1>19. PICK rs : rs = [response EXCEPT !.toRead = IF left = 0 THEN -2 ELSE left,
                                       !.atEnd = FALSE /\ left = 0]
  OBVIOUS
<1>20. /\ rs \in Responses /\ rs.toRead = (IF left = 0 THEN -2 ELSE left)
       /\ rs.setAtEnd = response.setAtEnd /\ rs.atEnd = FALSE
  <2>1. PICK done \in BOOLEAN : done = (FALSE /\ left = 0) OBVIOUS
  <2>2. PICK z \in Int : z = IF left = 0 THEN -2 ELSE left OBVIOUS
  <2>3. rs = [response EXCEPT !.toRead = z, !.atEnd = done] BY <1>19, <2>1, <2>2
  <2>4. rs \in Responses /\ rs.toRead = z /\ rs.setAtEnd = response.setAtEnd /\ rs.atEnd = done
    BY <2>3 DEF Responses
  <2>5. done = FALSE BY <2>1
  <2>. QED BY <2>2, <2>4, <2>5
<1>21. r = Results(r0.got, r0.sock, rs, "no") BY <1>8, <1>18, <1>19
<1>22. r.got = r0.got /\ r.after.sock = r0.sock /\ r.after.response = rs /\ r.after.thrown = "no"
  BY <1>21 DEF Results
<1>23. ~rs.atEnd /\ ~rs.setAtEnd BY <1>6, <1>20
<1>24. ~r0.sock.waiting BY <1>9
<1>25. \/ InChunk(i, b, x, rs) \/ AtLineEnd(i, b, x, rs)
  <2>1. b = h + 3 + (x - a) /\ x >= a BY <1>6, <1>10, <1>11
  <2>2. CASE left = 0
    <3>1. x = e /\ rs.toRead = -2 BY <1>11, <1>17, <1>20, <2>2
    <3>2. i # Len(Cuts)
      <4>1. i = Len(Cuts) => Cuts[i] = EndOf(i) BY <1>2, ChunksAre
      <4>2. a < e BY <1>6, <1>10
      <4>. QED BY <1>3, <1>4, <4>1, <4>2
    <3>3. b = Begins(i) + 3 + (x - Cuts[i]) + (2 + rs.toRead) BY <1>3, <1>5, <1>11, <2>1, <3>1
    <3>4. rs.setAtEnd = (i = Len(Cuts))
      <4>1. rs.setAtEnd = FALSE
        <5>1. rs.setAtEnd \in BOOLEAN BY <1>20 DEF Responses
        <5>. QED BY <1>23, <5>1
      <4>. QED BY <3>2, <4>1
    <3>5. AtLineEnd(i, b, x, rs) BY <1>4, <1>23, <3>1, <3>3, <3>4 DEF AtLineEnd
    <3>. QED BY <3>5
  <2>3. CASE left # 0
    <3>1. rs.toRead = e - x /\ rs.toRead > 0 BY <1>11, <1>17, <1>20, <2>3
    <3>2. InChunk(i, b, x, rs) BY <1>3, <1>4, <1>5, <1>23, <2>1, <3>1 DEF InChunk
    <3>. QED BY <3>2
  <2>. QED BY <2>2, <2>3
<1>26. InChunks(b, x, r0.sock, rs) BY <1>24, <1>25 DEF InChunks
<1>27. Decoded(b, x, r0.sock, rs) BY <1>9, <1>20, <1>26 DEF Decoded
<1>28. x \in q..Len(Content) /\ b \in 0..Len(Bytes) BY <1>1, <1>4, <1>10, <1>11
<1>29. r.got = Part(Content, q, x) BY <1>9, <1>15, <1>22
<1>. QED BY <1>22, <1>27, <1>28, <1>29 DEF Progress, Justified

LEMMA LineEndStep ==
    ASSUME message \in Messages, message.delimited = "chunked",
           NEW q \in 0..Len(Content), NEW p \in 0..Len(Bytes), SockAt(sock, p),
           response \in Responses, ~sock.waiting,
           NEW i \in DOMAIN Cuts, AtLineEnd(i, p, q, response),
           NEW r \in ReadLineEnd
    PROVE  Progress(q, r)
<1>1. /\ Bytes \in Seq(Int) /\ Content \in Seq(Int) /\ Len(Bytes) \in Nat /\ Len(Content) \in Nat
  BY Sent
<1>2. i \in 1..Len(Cuts) /\ i \in Nat
  <2>1. i \in 1..Len(Cuts) /\ Len(Cuts) \in Nat BY ChunksAre
  <2>. QED BY <2>1
<1>3. PICK a \in Nat : a = Cuts[i] BY <1>2, ChunksAre
<1>4. PICK e \in Nat : e = EndOf(i) /\ e <= Len(Content) BY <1>2, ChunksAre
<1>5. PICK h \in Nat : h = Begins(i) /\ h = a + 5 * (i - 1)
  <2>1. a + 5 * (i - 1) \in Nat BY <1>2
  <2>. QED BY <1>3, <2>1 DEF Begins
<1>6. PICK c \in Nat : c = e - a
  <2>1. Cuts[i] <= EndOf(i)
    <3>1. (i < Len(Cuts) => Cuts[i] < EndOf(i)) /\ (i = Len(Cuts) => Cuts[i] = EndOf(i))
      BY <1>2, ChunksAre
    <3>2. Len(Cuts) \in Nat /\ Cuts[i] \in Nat /\ EndOf(i) \in Nat BY <1>2, ChunksAre
    <3>. QED BY <1>2, <3>1, <3>2
  <2>2. e - a \in Nat BY <1>3, <1>4, <2>1
  <2>. QED BY <2>2
<1>7. PICK k \in {1, 2} : k = -response.toRead BY DEF AtLineEnd
<1>8. /\ response.toRead = -k /\ response.toRead \in {-2, -1} /\ ~response.atEnd
      /\ response.setAtEnd = (i = Len(Cuts))
      /\ q = e /\ p = h + 5 + c - k
  <2>1. response.toRead \in {-2, -1} BY DEF AtLineEnd
  <2>2. response.toRead = -k BY <1>7, <2>1
  <2>3. q = e /\ p = h + 3 + (q - a) + (2 + response.toRead)
    BY <1>3, <1>4, <1>5 DEF AtLineEnd
  <2>4. p = h + 5 + c - k BY <1>6, <2>2, <2>3
  <2>. QED BY <2>1, <2>2, <2>3, <2>4 DEF AtLineEnd
<1>9. PICK r0 \in SocketRead(k) :
        r = LET toRead == response.toRead + Len(r0.got)
                done == response.setAtEnd /\ toRead = 0
                expected == IF response.toRead = -2 THEN <<CR, LF>> ELSE <<LF>>
            IN  Results(<< >>, r0.sock, [response EXCEPT !.toRead = toRead, !.atEnd = done],
                        IF IsPrefix(r0.got, expected) THEN "no" ELSE "invalid")
  BY <1>7 DEF ReadLineEnd
<1>10. PICK b \in p..Len(Bytes) : /\ b - p <= k
                                  /\ r0.got = Part(Bytes, p, b) /\ SockAt(r0.sock, b)
                                  /\ r0.sock.waiting = sock.waiting
  <2>1. p \in Nat /\ k \in Nat BY <1>1
  <2>. QED BY <2>1, SocketReads
<1>11. b \in Nat /\ p <= b /\ b <= Len(Bytes) /\ p \in Nat /\ q \in Nat BY <1>1, <1>10
<1>12. r0.got \in Seq(Int) /\ Len(r0.got) = b - p /\ \A j \in 1..b - p : r0.got[j] = Bytes[p + j]
  <2>1. /\ Part(Bytes, p, b) \in Seq(Int) /\ Len(Part(Bytes, p, b)) = b - p
        /\ \A j \in 1..b - p : Part(Bytes, p, b)[j] = Bytes[p + j]
    BY <1>1, <1>11, PartOf
  <2>. QED BY <1>10, <2>1
<1>13. /\ h + 4 + c <= Len(Bytes) => Bytes[h + 4 + c] = CR
       /\ h + 5 + c <= Len(Bytes) => Bytes[h + 5 + c] = LF
  <2>1. c = EndOf(i) - Cuts[i] BY <1>3, <1>4, <1>6
  <2>. QED BY <1>2, <1>5, <2>1, ChunkBytes
<1>14. PICK t : t = IF response.toRead = -2 THEN <<CR, LF>> ELSE <<LF>> OBVIOUS
<1>15. IsPrefix(r0.got, t)
  <2>1. t \in Seq(Int) /\ Len(t) = k /\ t[k] = LF /\ (k = 2 => t[1] = CR)
    <3>1. CASE k = 2
      <4>1. t = <<CR, LF>> BY <1>8, <1>14, <3>1
      <4>. QED BY <3>1, <4>1 DEF CR, LF
    <3>2. CASE k = 1
      <4>1. t = <<LF>> BY <1>8, <1>14, <3>2
      <4>. QED BY <3>2, <4>1 DEF LF
    <3>. QED BY <1>7, <3>1, <3>2
  <2>2. ASSUME NEW j \in 1..b - p PROVE r0.got[j] = t[j]
    <3>1. r0.got[j] = Bytes[p + j] /\ p + j <= Len(Bytes) BY <1>11, <1>12
    <3>2. CASE j = k
      <4>1. p + j = h + 5 + c BY <1>8, <3>2
      <4>. QED BY <1>13, <2>1, <3>1, <3>2, <4>1
    <3>3. CASE j # k
      <4>1. j = 1 /\ k = 2 BY <1>7, <1>10, <1>11, <3>3
      <4>2. p + j = h + 4 + c BY <1>8, <4>1
      <4>. QED BY <1>13, <2>1, <3>1, <4>1, <4>2
    <3>. QED BY <3>2, <3>3
  <2>3. Len(r0.got) <= Len(t) BY <1>10, <1>12, <2>1
  <2>. QED BY <1>12, <2>1, <2>2, <2>3, PrefixIf
<1>16. PICK x \in Int : x = -k + (b - p) /\ x = response.toRead + Len(r0.got)
  <2>1. -k \in Int BY <1>7
  <2>2. -k + (b - p) \in Int BY <1>11, <2>1
  <2>3. response.toRead + Len(r0.got) = -k + (b - p) BY <1>8, <1>12
  <2>. QED BY <2>2, <2>3
<1>17. PICK done \in BOOLEAN : done = (response.setAtEnd /\ x = 0) OBVIOUS
<1>18. PICK rs : rs = [response EXCEPT !.toRead = x, !.atEnd = done] OBVIOUS
<1>19. rs \in Responses /\ rs.toRead = x /\ rs.setAtEnd = response.setAtEnd /\ rs.atEnd = done
  BY <1>18 DEF Responses
<1>20. r = Results(<< >>, r0.sock, rs, "no") BY <1>9, <1>14, <1>15, <1>16, <1>17, <1>18
<1>21. ~r0.sock.waiting BY <1>10
<1>22. b = h + 5 + c + x /\ x <= 0 /\ x >= -k
  <2>1. p = h + 5 + c - k BY <1>8
  <2>2. x = -k + (b - p) BY <1>16
  <2>3. b - p <= k BY <1>10
  <2>4. k \in Int /\ b \in Int /\ p \in Int /\ p <= b BY <1>11
  <2>. QED BY <2>1, <2>2, <2>3, <2>4
<1>23. InChunks(b, q, r0.sock, rs)
  <2>1. CASE x # 0
    <3>1. x \in {-2, -1} BY <1>7, <1>22, <2>1
    <3>2. done = FALSE BY <1>17, <2>1
    <3>3. b = h + 3 + (q - a) + (2 + x) BY <1>6, <1>8, <1>22
    <3>4. AtLineEnd(i, b, q, rs)
      BY <1>3, <1>4, <1>5, <1>8, <1>19, <3>1, <3>2, <3>3 DEF AtLineEnd
    <3>. QED BY <1>21, <3>4 DEF InChunks
  <2>2. CASE x = 0 /\ i = Len(Cuts)
    <3>1. done = TRUE BY <1>8, <1>17, <2>2
    <3>2. e = Len(Content) /\ a = e BY <1>2, <1>3, <1>4, <2>2, ChunksAre
    <3>3. b = Len(Content) + 5 * Len(Cuts) /\ q = Len(Content)
      BY <1>2, <1>5, <1>6, <1>8, <1>22, <2>2, <3>2
    <3>4. AfterLast(b, q, rs) BY <1>8, <1>19, <2>2, <3>1, <3>3 DEF AfterLast
    <3>. QED BY <1>21, <3>4 DEF InChunks
  <2>3. CASE x = 0 /\ i # Len(Cuts)
    <3>1. done = FALSE BY <1>8, <1>17, <2>3
    <3>2. PICK d \in 1..Len(Cuts) : d = i + 1
      <4>1. Len(Cuts) \in Nat BY ChunksAre
      <4>2. i + 1 \in 1..Len(Cuts) BY <1>2, <2>3, <4>1
      <4>. QED BY <4>2
    <3>3. EndOf(i) = Cuts[d]
      <4>1. Len(Cuts) \in Nat BY ChunksAre
      <4>2. i < Len(Cuts) BY <1>2, <2>3, <4>1
      <4>3. i < Len(Cuts) => EndOf(i) = Cuts[i + 1] BY <1>2, ChunksAre
      <4>. QED BY <3>2, <4>2, <4>3
    <3>4. q = Cuts[d] BY <1>4, <1>8, <3>3
    <3>5. Begins(d) = e + 5 * i
      <4>1. Begins(d) = e + 5 * (d - 1) BY <1>4, <3>3 DEF Begins
      <4>. QED BY <1>2, <3>2, <4>1
    <3>6. b = Begins(d)
      <4>1. b = h + 5 + c BY <1>22, <2>3
      <4>2. h + 5 + c = e + 5 * i
        <5>1. h = a + 5 * (i - 1) BY <1>5
        <5>2. c = e - a BY <1>6
        <5>3. i \in Nat BY <1>2
        <5>4. PICK y \in Int : y = 5 * (i - 1) /\ y + 5 = 5 * i
          <6>1. 5 * (i - 1) \in Int /\ 5 * (i - 1) + 5 = 5 * i BY <5>3
          <6>. QED BY <6>1
        <5>5. a + y + 5 + (e - a) = e + (y + 5) OBVIOUS
        <5>. QED BY <5>1, <5>2, <5>4, <5>5
      <4>. QED BY <3>5, <4>1, <4>2
    <3>7. ~rs.setAtEnd /\ ~rs.atEnd /\ rs.toRead = 0 BY <1>8, <1>19, <2>3, <3>1
    <3>8. AtSize(d, b, q, r0.sock, rs) BY <1>21, <3>4, <3>6, <3>7 DEF AtSize
    <3>9. d \in DOMAIN Cuts BY ChunksAre
    <3>. QED BY <3>8, <3>9 DEF InChunks
  <2>. QED BY <2>1, <2>2, <2>3
<1>24. Decoded(b, q, r0.sock, rs) BY <1>10, <1>19, <1>23 DEF Decoded
<1>25. b \in 0..Len(Bytes) BY <1>1, <1>11
<1>26. Justified("no") BY DEF Justified
<1>. QED BY <1>20, <1>24, <1>25, <1>26, NothingRead

(* The line read for a size is the size, with or without its CR.           *)
LEMMA SizeLine ==
    ASSUME message \in Messages, message.delimited = "chunked", NEW i \in 1..Len(Cuts),
           NEW p \in Nat, p = Begins(i), NEW c \in Nat, c = EndOf(i) - Cuts[i],
           NEW x \in {p + 1, p + 2}, x <= Len(Bytes)
    PROVE  Line(Part(Bytes, p, x)).found /\ Line(Part(Bytes, p, x)).text = <<Size(c)>>
<1>1. Bytes \in Seq(Int) /\ Len(Bytes) \in Nat BY Sent
<1>2. /\ p + 1 <= Len(Bytes) => Bytes[p + 1] = Size(c)
      /\ p + 2 <= Len(Bytes) => Bytes[p + 2] = CR
  BY ChunkBytes
<1>3. Size(c) \in Int /\ Size(c) # CR BY DEF Size, SizeBase, CR
<1>4. PICK t : t = <<Size(c)>> OBVIOUS
<1>5. t \in Seq(Int) /\ Len(t) = 1 /\ t[1] = Size(c) BY <1>3, <1>4
<1>6. PICK y \in Nat : y = p + 1 /\ y <= Len(Bytes) /\ Bytes[y] = Size(c) BY <1>1, <1>2
<1>7. Part(Bytes, p, y) = t
  <2>1. PICK u : u = Part(Bytes, p, y) OBVIOUS
  <2>2. u \in Seq(Int) /\ Len(u) = 1 /\ u[1] = Bytes[y]
    <3>1. p <= y /\ y - p = 1 /\ p + 1 = y BY <1>6
    <3>2. /\ Part(Bytes, p, y) \in Seq(Int) /\ Len(Part(Bytes, p, y)) = y - p
          /\ \A j \in 1..y - p : Part(Bytes, p, y)[j] = Bytes[p + j]
      BY <1>1, <1>6, <3>1, PartOf
    <3>3. u[1] = Bytes[p + 1]
      <4>1. 1 \in 1..y - p BY <3>1
      <4>. QED BY <2>1, <3>2, <4>1
    <3>. QED BY <2>1, <3>1, <3>2, <3>3
  <2>3. Len(u) = Len(t) /\ \A j \in 1..Len(u) : u[j] = t[j] BY <1>5, <1>6, <2>2
  <2>4. u = t BY <1>5, <2>2, <2>3, SameBytes
  <2>. QED BY <2>1, <2>4
<1>8. WithoutCR(Part(Bytes, p, x)) = t
  <2>1. CASE x = p + 1
    <3>1. Part(Bytes, p, x) = t BY <1>6, <1>7, <2>1
    <3>2. Last(t) = Size(c) BY <1>5 DEF Last
    <3>. QED BY <1>3, <3>1, <3>2 DEF WithoutCR
  <2>2. CASE x = p + 2
    <3>1. PICK s : s = Part(Bytes, p, x) OBVIOUS
    <3>2. s \in Seq(Int) /\ Len(s) = 2 /\ s[2] = CR
      <4>1. x \in Nat /\ p <= x /\ x - p = 2 /\ Bytes[p + 2] = CR BY <1>2, <2>2
      <4>2. /\ Part(Bytes, p, x) \in Seq(Int) /\ Len(Part(Bytes, p, x)) = x - p
            /\ \A j \in 1..x - p : Part(Bytes, p, x)[j] = Bytes[p + j]
        BY <1>1, <4>1, PartOf
      <4>. QED BY <3>1, <4>1, <4>2
    <3>3. s # << >> /\ Last(s) = CR
      <4>1. s = << >> <=> p = x
        <5>1. x \in Nat /\ p <= x BY <2>2
        <5>. QED BY <1>1, <3>1, <5>1, NoPart
      <4>2. s # << >> BY <2>2, <4>1
      <4>3. Last(s) = s[2] BY <3>2 DEF Last
      <4>. QED BY <3>2, <4>2, <4>3
    <3>4. Front(s) = Part(s, 0, 1) BY <3>2 DEF Front, Part
    <3>5. Part(s, 0, 1) = t
      <4>1. x \in Nat /\ p <= x /\ 0 <= 1 /\ 1 <= x - p BY <2>2
      <4>2. Part(Part(Bytes, p, x), 0, 1) = Part(Bytes, p + 0, p + 1)
        BY <1>1, <4>1, PartOfPart
      <4>3. p + 0 = p OBVIOUS
      <4>. QED BY <1>6, <1>7, <3>1, <4>2, <4>3
    <3>. QED BY <3>1, <3>3, <3>4, <3>5 DEF WithoutCR
  <2>. QED BY <2>1, <2>2
<1>. QED BY <1>4, <1>8 DEF Line

LEMMA SizeStep ==
    ASSUME message \in Messages, message.delimited = "chunked",
           NEW q \in 0..Len(Content), NEW p \in 0..Len(Bytes), SockAt(sock, p),
           response \in Responses, ~(sock.atEnd /\ sock.buffer = << >>),
           NEW i \in DOMAIN Cuts, AtSize(i, p, q, sock, response),
           NEW r \in ReadSize
    PROVE  Progress(q, r)
<1>1. /\ Bytes \in Seq(Int) /\ Content \in Seq(Int) /\ Len(Bytes) \in Nat /\ Len(Content) \in Nat
  BY Sent
<1>2. i \in 1..Len(Cuts) /\ i \in Nat /\ Len(Cuts) \in Nat
  <2>1. i \in 1..Len(Cuts) /\ Len(Cuts) \in Nat BY ChunksAre
  <2>. QED BY <2>1
<1>3. PICK a \in Nat : a = Cuts[i] BY <1>2, ChunksAre
<1>4. PICK e \in Nat : e = EndOf(i) /\ e <= Len(Content) BY <1>2, ChunksAre
<1>5. PICK h \in Nat : h = Begins(i) /\ h = a + 5 * (i - 1)
  <2>1. a + 5 * (i - 1) \in Nat BY <1>2
  <2>. QED BY <1>3, <2>1 DEF Begins
<1>6. /\ i < Len(Cuts) => a < e
      /\ i = Len(Cuts) => a = e
  BY <1>2, <1>3, <1>4, ChunksAre
<1>7. PICK c \in Nat : c = e - a
  <2>1. e - a \in Nat BY <1>2, <1>6
  <2>. QED BY <2>1
<1>8. /\ response.toRead = 0 /\ ~response.setAtEnd /\ ~response.atEnd
      /\ q = a /\ p = h /\ p \in Nat
      /\ sock.waiting => NoLF(sock.buffer)
  BY <1>3, <1>5 DEF AtSize
<1>9. c = EndOf(i) - Cuts[i] /\ p = Begins(i) /\ p \in Nat BY <1>3, <1>4, <1>5, <1>7, <1>8
<1>10. /\ p + 1 <= Len(Bytes) => Bytes[p + 1] = Size(c)
       /\ p + 2 <= Len(Bytes) => Bytes[p + 2] = CR
       /\ p + 3 <= Len(Bytes) => Bytes[p + 3] = LF
  BY <1>2, <1>9, ChunkBytes
<1>11. ASSUME NEW x \in {p + 1, p + 2}, x <= Len(Bytes)
       PROVE  Line(Part(Bytes, p, x)).found /\ Line(Part(Bytes, p, x)).text = <<Size(c)>>
  BY <1>2, <1>9, <1>11, SizeLine
<1>12. PICK r0 \in SocketTryReadLine :
         r = IF ~r0.line.found THEN Results(<< >>, r0.sock, response, "no")
             ELSE IF r0.line.text = << >>
               THEN Results(<< >>, r0.sock, response,
                            IF r0.sock.atEnd /\ r0.sock.buffer = << >> THEN "truncated" ELSE "invalid")
             ELSE IF Len(r0.line.text) > 1 \/ r0.line.text[1] < SizeBase
               THEN Results(<< >>, r0.sock, response, "invalid")
             ELSE LET n == r0.line.text[1] - SizeBase
                  IN  Results(<< >>, r0.sock,
                              IF n > 0 THEN [response EXCEPT !.toRead = n]
                              ELSE [response EXCEPT !.toRead = -2, !.setAtEnd = TRUE], "no")
  BY DEF ReadSize
<1>13. \/ Waiting(p, r0)
       \/ \E x \in p + 1..Len(Bytes) : Ending(p, x, r0)
       \/ LeftOver(p, r0)
  BY <1>8, SocketTriesLine
<1>14. Justified("no") BY DEF Justified
<1>15. PICK rs : rs = IF c > 0 THEN [response EXCEPT !.toRead = c]
                      ELSE [response EXCEPT !.toRead = -2, !.setAtEnd = TRUE]
  OBVIOUS
<1>16. rs \in Responses /\ ~rs.atEnd /\ rs.toRead = (IF c > 0 THEN c ELSE -2)
       /\ (c > 0 => rs.setAtEnd = FALSE) /\ (c = 0 => rs.setAtEnd = TRUE)
  <2>1. CASE c > 0
    <3>1. rs = [response EXCEPT !.toRead = c] BY <1>15, <2>1
    <3>2. rs \in Responses /\ rs.toRead = c /\ rs.setAtEnd = response.setAtEnd
          /\ rs.atEnd = response.atEnd
      BY <3>1 DEF Responses
    <3>3. response.setAtEnd \in BOOLEAN BY DEF Responses
    <3>4. rs.setAtEnd = FALSE BY <1>8, <3>2, <3>3
    <3>5. ~rs.atEnd BY <1>8, <3>2
    <3>6. c # 0 BY <2>1
    <3>. QED BY <2>1, <3>2, <3>4, <3>5, <3>6
  <2>2. CASE c = 0
    <3>1. PICK m \in Int : m = -2 OBVIOUS
    <3>2. PICK y \in BOOLEAN : y = TRUE OBVIOUS
    <3>3. rs = [response EXCEPT !.toRead = m, !.setAtEnd = y] BY <1>15, <2>2, <3>1, <3>2
    <3>4. rs \in Responses /\ rs.toRead = m /\ rs.setAtEnd = y /\ rs.atEnd = response.atEnd
      BY <3>3 DEF Responses
    <3>5. ~rs.atEnd BY <1>8, <3>4
    <3>6. ~(c > 0) BY <2>2
    <3>7. rs.setAtEnd = TRUE BY <3>2, <3>4
    <3>8. rs.toRead = (IF c > 0 THEN c ELSE -2)
      <4>1. rs.toRead = -2 BY <3>1, <3>4
      <4>. QED BY <3>6, <4>1
    <3>9. c > 0 => rs.setAtEnd = FALSE BY <3>6
    <3>10. c = 0 => rs.setAtEnd = TRUE BY <3>7
    <3>11. rs \in Responses BY <3>4
    <3>. QED BY <3>5, <3>8, <3>9, <3>10, <3>11
  <2>3. c > 0 \/ c = 0 OBVIOUS
  <2>. QED BY <2>1, <2>2, <2>3, Zenon
<1>17. ASSUME r0.line.found, r0.line.text = <<Size(c)>>
       PROVE  r = Results(<< >>, r0.sock, rs, "no")
  <2>1. PICK t : t = <<Size(c)>> OBVIOUS
  <2>2. Size(c) = 100 + c BY DEF Size, SizeBase
  <2>3. t # << >> /\ Len(t) = 1 /\ t[1] = 100 + c BY <2>1, <2>2
  <2>4. ~(Len(t) > 1 \/ t[1] < SizeBase) /\ t[1] - SizeBase = c BY <2>3 DEF SizeBase
  <2>5. r0.line.text = t BY <1>17, <2>1
  <2>. QED BY <1>12, <1>15, <1>17, <2>3, <2>4, <2>5
<1>18. CASE Waiting(p, r0)
  <2>1. r = Results(<< >>, r0.sock, response, "no") BY <1>12, <1>18 DEF Waiting, NoLine
  <2>2. AtSize(i, p, q, r0.sock, response)
    BY <1>3, <1>5, <1>8, <1>18 DEF AtSize, Waiting
  <2>3. Decoded(p, q, r0.sock, response)
    BY <1>18, <2>2 DEF Decoded, InChunks, Waiting
  <2>. QED BY <1>14, <2>1, <2>3, NothingRead
<1>19. ASSUME NEW x \in p + 1..Len(Bytes), Ending(p, x, r0) PROVE Progress(q, r)
  <2>1. Bytes[x] = LF /\ Plain(p, x - 1) /\ r0.line = Line(Part(Bytes, p, x - 1))
        /\ SockAt(r0.sock, x) /\ ~r0.sock.waiting
    BY <1>19 DEF Ending
  <2>2. x = p + 3
    <3>1. x # p + 1 BY <1>1, <1>8, <1>10, <2>1 DEF Size, SizeBase, LF
    <3>2. x # p + 2 BY <1>1, <1>8, <1>10, <2>1 DEF CR, LF
    <3>3. ~(x > p + 3)
      <4>1. SUFFICES ASSUME x > p + 3 PROVE FALSE OBVIOUS
      <4>2. p + 3 \in Int /\ p < p + 3 /\ p + 3 <= x - 1 /\ p + 3 <= Len(Bytes)
        BY <1>1, <1>8, <4>1
      <4>3. Bytes[p + 3] # LF BY <2>1, <4>2 DEF Plain
      <4>. QED BY <1>10, <4>2, <4>3
    <3>4. x \in Int /\ x >= p + 1 BY <1>8
    <3>. QED BY <1>8, <3>1, <3>2, <3>3, <3>4
  <2>3. PICK y \in {p + 1, p + 2} : y = x - 1 /\ y <= Len(Bytes) BY <1>1, <1>8, <2>2
  <2>4. r0.line.found /\ r0.line.text = <<Size(c)>> BY <1>11, <2>1, <2>3
  <2>5. r = Results(<< >>, r0.sock, rs, "no") BY <1>17, <2>4
  <2>6. InChunks(x, q, r0.sock, rs)
    <3>1. CASE c > 0
      <4>1. rs.toRead = EndOf(i) - q /\ rs.toRead > 0 BY <1>4, <1>7, <1>8, <1>16, <3>1
      <4>2. q >= Cuts[i] /\ x = Begins(i) + 3 + (q - Cuts[i])
        BY <1>3, <1>5, <1>8, <2>2
      <4>3. InChunk(i, x, q, rs) BY <1>16, <3>1, <4>1, <4>2 DEF InChunk
      <4>. QED BY <2>1, <4>3 DEF InChunks
    <3>2. CASE c = 0
      <4>1. a = e BY <1>7, <3>2
      <4>2. i = Len(Cuts) BY <1>2, <1>6, <4>1
      <4>3. rs.toRead = -2 /\ rs.setAtEnd = TRUE BY <1>16, <3>2
      <4>4. q = EndOf(i) /\ x = Begins(i) + 3 + (q - Cuts[i]) + (2 + rs.toRead)
        BY <1>3, <1>4, <1>5, <1>8, <2>2, <4>1, <4>3
      <4>5. AtLineEnd(i, x, q, rs) BY <1>16, <4>2, <4>3, <4>4 DEF AtLineEnd
      <4>. QED BY <2>1, <4>5 DEF InChunks
    <3>. QED BY <3>1, <3>2
  <2>7. Decoded(x, q, r0.sock, rs) BY <1>16, <2>1, <2>6 DEF Decoded
  <2>8. x \in 0..Len(Bytes) BY <1>1, <1>8
  <2>. QED BY <1>14, <2>5, <2>7, <2>8, NothingRead
<1>20. CASE LeftOver(p, r0)
  <2>1. PICK l \in Nat : l = Len(Bytes) BY <1>1
  <2>2. /\ p < l /\ Plain(p, l) /\ r0.line = Line(Part(Bytes, p, l))
        /\ SockAt(r0.sock, l) /\ r0.sock.atEnd /\ r0.sock.buffer = << >> /\ ~r0.sock.waiting
    BY <1>20, <2>1 DEF LeftOver
  <2>3. l < p + 3
    <3>1. SUFFICES ASSUME p + 3 <= l PROVE FALSE BY <1>8, <2>1
    <3>2. p + 3 \in Int /\ p < p + 3 BY <1>8
    <3>3. Bytes[p + 3] # LF BY <2>2, <3>1, <3>2 DEF Plain
    <3>. QED BY <1>10, <2>1, <3>1, <3>3
  <2>4. PICK y \in {p + 1, p + 2} : y = l BY <1>8, <2>2, <2>3
  <2>5. y <= Len(Bytes) BY <2>1, <2>4
  <2>6. r0.line.found /\ r0.line.text = <<Size(c)>> BY <1>11, <2>2, <2>4, <2>5
  <2>7. r = Results(<< >>, r0.sock, rs, "no") BY <1>17, <2>6
  <2>8. ~message.complete
    <3>1. message.complete => Len(Content) + 5 * Len(Cuts) <= Len(Bytes)
      BY ChunksAre DEF IsSent, Bytes
    <3>2. l < Len(Content) + 5 * Len(Cuts)
      <4>1. a <= e BY <1>7
      <4>2. l < a + 5 * (i - 1) + 3 BY <1>5, <1>8, <2>3
      <4>3. i <= Len(Cuts) BY <1>2
      <4>4. PICK k \in Nat : k = Len(Cuts) BY <1>2
      <4>5. PICK o \in Nat : o = Len(Content) BY <1>1
      <4>6. PICK x \in Int : x = 5 * (i - 1) /\ x + 3 < 5 * k BY <1>2, <4>3, <4>4
      <4>7. PICK z \in Nat : z = 5 * k OBVIOUS
      <4>8. a <= o BY <1>4, <4>1, <4>5
      <4>9. l < a + x + 3 BY <4>2, <4>6
      <4>10. l < o + z BY <2>1, <4>6, <4>7, <4>8, <4>9
      <4>. QED BY <4>4, <4>5, <4>7, <4>10
    <3>3. Len(Content) + 5 * Len(Cuts) \in Nat BY <1>1, <1>2
    <3>. QED BY <2>1, <3>1, <3>2, <3>3
  <2>9. CutOff(l, r0.sock, rs) BY <1>16, <2>1, <2>2, <2>8 DEF CutOff
  <2>10. Decoded(l, q, r0.sock, rs) BY <1>16, <2>2, <2>9 DEF Decoded, InChunks
  <2>11. l \in 0..Len(Bytes) BY <2>1
  <2>. QED BY <1>14, <2>7, <2>10, <2>11, NothingRead
<1>. QED BY <1>13, <1>18, <1>19, <1>20

(* -[lowlevelReadIntoBuffer:length:].                                      *)
LEMMA LowlevelStep ==
    ASSUME message \in Messages, NEW n \in Nat \ {0},
           NEW q \in 0..Len(Content), NEW p \in 0..Len(Bytes), Decoded(p, q, sock, response),
           NEW r \in LowlevelRead[n]
    PROVE  Progress(q, r)
<1>1. /\ Bytes \in Seq(Int) /\ Content \in Seq(Int) /\ Len(Bytes) \in Nat /\ Len(Content) \in Nat
      /\ message.complete \in BOOLEAN
  BY Sent
<1>2. p \in Nat /\ q \in Nat BY <1>1
<1>3. SockAt(sock, p) /\ response \in Responses BY DEF Decoded
<1>4. r \in IF response.atEnd THEN {Throws("no")}
            ELSE IF message.delimited = "close"
              THEN {Results(r0.got, r0.sock, response, "no") : r0 \in SocketRead(n)}
            ELSE IF sock.atEnd /\ sock.buffer = << >> THEN {Throws("truncated")}
            ELSE IF message.delimited = "length" THEN ReadBytes(n, 0, TRUE)
            ELSE IF response.toRead < 0 THEN ReadLineEnd
            ELSE IF response.toRead > 0 THEN ReadBytes(n, -2, FALSE)
            ELSE ReadSize
  BY DEF LowlevelRead
<1>5. CASE response.atEnd
  <2>1. r = Results(<< >>, sock, response, "no") BY <1>4, <1>5 DEF Throws
  <2>2. Justified("no") BY DEF Justified
  <2>. QED BY <2>1, <2>2, NothingRead
<1>6. CASE ~response.atEnd /\ message.delimited = "close"
  <2>1. PICK r0 \in SocketRead(n) : r = Results(r0.got, r0.sock, response, "no") BY <1>4, <1>6
  <2>. QED BY <1>6, <2>1, OpenStep
<1>7. CASE ~response.atEnd /\ message.delimited # "close" /\ sock.atEnd /\ sock.buffer = << >>
  <2>1. r = Results(<< >>, sock, response, "truncated") BY <1>4, <1>7 DEF Throws
  <2>2. ~message.complete BY <1>2, <1>7, Truncated
  <2>3. Justified("truncated") BY <2>2 DEF Justified
  <2>. QED BY <2>1, <2>3, NothingRead
<1>8. CASE ~response.atEnd /\ message.delimited = "length" /\ ~(sock.atEnd /\ sock.buffer = << >>)
  <2>1. r \in ReadBytes(n, 0, TRUE) BY <1>4, <1>8
  <2>. QED BY <1>8, <2>1, SizedStep
<1>9. CASE /\ ~response.atEnd /\ message.delimited = "chunked"
           /\ ~(sock.atEnd /\ sock.buffer = << >>)
  <2>1. InChunks(p, q, sock, response) BY <1>9 DEF Decoded
  <2>2. ~AfterLast(p, q, response) /\ ~CutOff(p, sock, response)
    BY <1>9 DEF AfterLast, CutOff
  <2>3. PICK i \in DOMAIN Cuts : \/ AtSize(i, p, q, sock, response)
                                 \/ ~sock.waiting /\ InChunk(i, p, q, response)
                                 \/ ~sock.waiting /\ AtLineEnd(i, p, q, response)
    BY <2>1, <2>2 DEF InChunks
  <2>4. r \in IF response.toRead < 0 THEN ReadLineEnd
              ELSE IF response.toRead > 0 THEN ReadBytes(n, -2, FALSE)
              ELSE ReadSize
    BY <1>4, <1>9
  <2>5. CASE AtSize(i, p, q, sock, response)
    <3>1. response.toRead = 0 BY <2>5 DEF AtSize
    <3>2. r \in ReadSize BY <2>4, <3>1
    <3>. QED BY <1>3, <1>9, <2>5, <3>2, SizeStep
  <2>6. CASE ~sock.waiting /\ InChunk(i, p, q, response)
    <3>0. PICK t \in Int : t = response.toRead BY <1>3 DEF Responses
    <3>1. t > 0 BY <2>6, <3>0 DEF InChunk
    <3>2. ~(response.toRead < 0) /\ response.toRead > 0 BY <3>0, <3>1
    <3>3. r \in ReadBytes(n, -2, FALSE) BY <2>4, <3>2
    <3>. QED BY <1>3, <1>9, <2>6, <3>3, ChunkStep
  <2>7. CASE ~sock.waiting /\ AtLineEnd(i, p, q, response)
    <3>0. PICK t \in Int : t = response.toRead BY <1>3 DEF Responses
    <3>1. t < 0 BY <2>7, <3>0 DEF AtLineEnd
    <3>2. r \in ReadLineEnd BY <2>4, <3>0, <3>1
    <3>. QED BY <1>3, <1>9, <2>7, <3>2, LineEndStep
  <2>. QED BY <2>3, <2>5, <2>6, <2>7
<1>10. message.delimited \in {"length", "close", "chunked"} BY Unchunked
<1>. QED BY <1>5, <1>6, <1>7, <1>8, <1>9, <1>10

(* A response begins with the socket at the body.                          *)
LEMMA ResponseStart == ASSUME ResponseInit(Messages) PROVE ResponseInv
<1>1. message \in Messages BY DEF ResponseInit
<1>2. /\ Bytes \in Seq(Int) /\ Content \in Seq(Int) /\ Len(Bytes) \in Nat /\ Len(Content) \in Nat
  BY <1>1, Sent
<1>3. PICK k \in 0..PageSize :
        sock = [wire |-> Drop(Bytes, k), buffer |-> Take(Bytes, k), waiting |-> FALSE,
                atEnd |-> FALSE]
  BY DEF ResponseInit, Bytes
<1>4. k \in Nat BY StreamAssumption
<1>5. PICK l \in Nat : l = Len(Bytes) BY <1>2
<1>6. PICK b \in 0..l : b = UpTo(0, l, k) BY <1>4, <1>5 DEF UpTo
<1>7. Take(Bytes, k) = Part(Bytes, 0, b) /\ Drop(Bytes, k) = Part(Bytes, b, l)
  <2>1. 0 \in Nat /\ 0 <= l /\ l <= Len(Bytes) BY <1>5
  <2>2. /\ Take(Part(Bytes, 0, l), k) = Part(Bytes, 0, b)
        /\ Drop(Part(Bytes, 0, l), k) = Part(Bytes, b, l)
    BY <1>2, <1>4, <1>6, <2>1, TakeDropPart
  <2>3. Part(Bytes, 0, Len(Bytes)) = Bytes BY <1>2, WholePart
  <2>. QED BY <1>5, <2>2, <2>3
<1>8. SockAt(sock, 0) /\ sock.waiting = FALSE /\ sock.atEnd = FALSE
  <2>1. b \in Nat /\ 0 <= b /\ b <= Len(Bytes) BY <1>5, <1>6
  <2>2. /\ sock.wire = Part(Bytes, b, Len(Bytes)) /\ sock.buffer = Part(Bytes, 0, b)
        /\ sock.waiting = FALSE /\ sock.atEnd = FALSE
    BY <1>3, <1>5, <1>7
  <2>3. Part(Bytes, b, l) \in Seq(Int) /\ Part(Bytes, 0, b) \in Seq(Int)
    <3>1. 0 \in Nat /\ l \in Nat /\ b <= l /\ l <= Len(Bytes) BY <1>5, <1>6
    <3>. QED BY <1>2, <2>1, <3>1, PartOf
  <2>4. sock \in Sockets BY <1>3, <1>7, <2>3 DEF Sockets
  <2>5. 0 \in Nat OBVIOUS
  <2>. QED BY <1>1, <2>1, <2>2, <2>4, <2>5, Buffered
<1>9. /\ delivered = << >> /\ readBuffer = << >> /\ thrown = "no"
      /\ response = [toRead |-> IF message.delimited = "length" THEN Len(Content) ELSE 0,
                     setAtEnd |-> FALSE, atEnd |-> FALSE]
  BY DEF ResponseInit, Content
<1>10. /\ response \in Responses /\ ~response.setAtEnd /\ ~response.atEnd
       /\ response.toRead = IF message.delimited = "length" THEN Len(Content) ELSE 0
  BY <1>2, <1>9 DEF Responses
<1>11. Decoded(0, 0, sock, response)
  <2>1. CASE message.delimited = "length"
    <3>1. response.toRead = Len(Content) - 0 BY <1>2, <1>10, <2>1
    <3>2. InSized(0, 0, sock, response) BY <1>8, <1>10, <3>1 DEF InSized
    <3>. QED BY <1>8, <1>10, <2>1, <3>2 DEF Decoded
  <2>2. CASE message.delimited = "close"
    BY <1>8, <1>10, <2>2 DEF Decoded, InOpen
  <2>3. CASE message.delimited = "chunked"
    <3>1. Cuts[1] = 0 /\ 1 \in DOMAIN Cuts
      <4>1. Len(Cuts) \in Nat \ {0} /\ DOMAIN Cuts = 1..Len(Cuts) /\ Cuts[1] = 0
        BY <1>1, <2>3, ChunksAre
      <4>. QED BY <4>1
    <3>2. Begins(1) = 0 BY <3>1 DEF Begins
    <3>3. response.toRead = 0 BY <1>10, <2>3
    <3>4. AtSize(1, 0, 0, sock, response) BY <1>8, <1>10, <3>1, <3>2, <3>3 DEF AtSize
    <3>5. InChunks(0, 0, sock, response) BY <3>1, <3>4 DEF InChunks
    <3>. QED BY <1>8, <1>10, <2>3, <3>5 DEF Decoded
  <2>. QED BY <1>1, <2>1, <2>2, <2>3, Unchunked
<1>12. Part(Content, 0, 0) = << >> /\ << >> \in Seq(Int) /\ Len(<< >>) = 0
  <2>1. 0 \in Nat /\ 0 <= 0 /\ 0 <= Len(Content) BY <1>2
  <2>2. Part(Content, 0, 0) = << >> BY <1>2, <2>1, NoPart
  <2>. QED BY <2>2, EmptySeq
<1>13. 0 \in 0..Len(Bytes) /\ 0 + 0 = 0 /\ 0 <= Len(Content) BY <1>2
<1>14. Justified(thrown) BY <1>9 DEF Justified
<1>. QED BY <1>1, <1>9, <1>11, <1>12, <1>13, <1>14 DEF ResponseInv

LEMMA DecodedSame ==
    ASSUME message' = message, NEW p, NEW q, NEW s, NEW r, Decoded(p, q, s, r),
           sock' = s, response' = r
    PROVE  Decoded(p, q, sock, response)'
<1>1. Bytes' = Bytes /\ Content' = Content /\ Cuts' = Cuts BY DEF Bytes, Content, Cuts
<1>2. \A i : EndOf(i)' = EndOf(i) /\ Begins(i)' = Begins(i) BY <1>1 DEF EndOf, Begins
<1>3. SockAt(sock, p)' <=> SockAt(s, p) BY <1>1 DEF SockAt
<1>4. InSized(p, q, sock, response)' <=> InSized(p, q, s, r) BY <1>1 DEF InSized
<1>5. InOpen(p, q, response)' <=> InOpen(p, q, r) BY DEF InOpen
<1>6. \A i : AtSize(i, p, q, sock, response)' <=> AtSize(i, p, q, s, r) BY <1>1, <1>2 DEF AtSize
<1>7. \A i : InChunk(i, p, q, response)' <=> InChunk(i, p, q, r) BY <1>1, <1>2 DEF InChunk
<1>8. \A i : AtLineEnd(i, p, q, response)' <=> AtLineEnd(i, p, q, r) BY <1>1, <1>2 DEF AtLineEnd
<1>9. AfterLast(p, q, response)' <=> AfterLast(p, q, r) BY <1>1 DEF AfterLast
<1>10. CutOff(p, sock, response)' <=> CutOff(p, s, r) BY <1>1 DEF CutOff
<1>11. InChunks(p, q, sock, response)' <=> InChunks(p, q, s, r)
  BY <1>1, <1>6, <1>7, <1>8, <1>9, <1>10 DEF InChunks
<1>. QED BY <1>3, <1>4, <1>5, <1>11 DEF Decoded

(* Reading passes on what is in the buffer or what a read has got.         *)
LEMMA ResponseStep == ASSUME ResponseInv, NEW n \in 1..MaxRead, Read(n) PROVE ResponseInv'
<1>1. message \in Messages /\ message' = message BY DEF ResponseInv, Read
<1>2. /\ Bytes \in Seq(Int) /\ Content \in Seq(Int) /\ Len(Bytes) \in Nat /\ Len(Content) \in Nat
  BY <1>1, Sent
<1>3. n \in Nat \ {0} BY ResponseAssumption
<1>4. delivered \in Seq(Int) /\ readBuffer \in Seq(Int) BY DEF ResponseInv
<1>5. PICK d \in Nat : d = Len(delivered) BY <1>4, LenProperties
<1>6. PICK q \in Nat : q = d + Len(readBuffer)
  <2>1. Len(readBuffer) \in Nat BY <1>4, LenProperties
  <2>. QED BY <2>1
<1>7. /\ q <= Len(Content) /\ d <= q /\ delivered = Part(Content, 0, d)
      /\ readBuffer = Part(Content, d, q)
      /\ \E p \in 0..Len(Bytes) : Decoded(p, q, sock, response)
  <2>1. Len(readBuffer) \in Nat BY <1>4, LenProperties
  <2>. QED BY <1>5, <1>6, <2>1 DEF ResponseInv
<1>8. PICK p \in 0..Len(Bytes) : Decoded(p, q, sock, response) BY <1>7
<1>9. PICK r \in ReadIntoBuffer(readBuffer, n, LowlevelRead, Same) :
        /\ sock' = r.after.sock /\ response' = r.after.response /\ thrown' = r.after.thrown
        /\ readBuffer' = r.buffer /\ delivered' = delivered \o r.out
  BY DEF Read
<1>10. ASSUME NEW x \in q..Len(Content), NEW y \in 0..Len(Bytes),
              r.out = Take(Part(Content, d, x), n), r.buffer = Drop(Part(Content, d, x), n),
              Decoded(y, x, r.after.sock, r.after.response), Justified(r.after.thrown)
       PROVE  ResponseInv'
  <2>1. x \in Nat /\ d <= x /\ x <= Len(Content) BY <1>2, <1>7, <1>10
  <2>2. PICK e \in Nat : e = UpTo(d, x, n) /\ d <= e /\ e <= x BY <1>3, <2>1 DEF UpTo
  <2>3. r.out = Part(Content, d, e) /\ r.buffer = Part(Content, e, x)
    <3>1. n \in Nat BY <1>3
    <3>2. /\ Take(Part(Content, d, x), n) = Part(Content, d, UpTo(d, x, n))
          /\ Drop(Part(Content, d, x), n) = Part(Content, UpTo(d, x, n), x)
      BY <1>2, <2>1, <3>1, TakeDropPart
    <3>. QED BY <1>10, <2>2, <3>2
  <2>4. delivered' = Part(Content, 0, e)
    <3>1. 0 \in Nat /\ 0 <= d /\ e <= Len(Content) BY <1>2, <2>1, <2>2
    <3>2. Part(Content, 0, d) \o Part(Content, d, e) = Part(Content, 0, e)
      BY <1>2, <2>2, <3>1, TwoParts
    <3>. QED BY <1>7, <1>9, <2>3, <3>2
  <2>5. readBuffer' = Part(Content, e, x) BY <1>9, <2>3
  <2>6. delivered' \in Seq(Int) /\ Len(delivered') = e
    <3>1. 0 \in Nat /\ 0 <= e /\ e <= Len(Content) /\ e - 0 = e BY <1>2, <2>1, <2>2
    <3>2. Part(Content, 0, e) \in Seq(Int) /\ Len(Part(Content, 0, e)) = e - 0
      BY <1>2, <2>2, <3>1, PartOf
    <3>. QED BY <2>4, <3>1, <3>2
  <2>7. readBuffer' \in Seq(Int) /\ Len(readBuffer') = x - e
    <3>1. Part(Content, e, x) \in Seq(Int) /\ Len(Part(Content, e, x)) = x - e
      BY <1>2, <2>1, <2>2, PartOf
    <3>. QED BY <2>5, <3>1
  <2>8. Len(delivered') + Len(readBuffer') = x BY <2>1, <2>2, <2>6, <2>7
  <2>9. Bytes' = Bytes /\ Content' = Content BY <1>1 DEF Bytes, Content
  <2>10. Decoded(y, x, sock, response)'
    <3>1. sock' = r.after.sock /\ response' = r.after.response BY <1>9
    <3>. QED BY <1>1, <1>10, <3>1, DecodedSame
  <2>11. Justified(thrown)' BY <1>1, <1>9, <1>10 DEF Justified
  <2>. QED
    BY <1>1, <2>1, <2>4, <2>5, <2>6, <2>7, <2>8, <2>9, <2>10, <2>11 DEF ResponseInv
<1>11. CASE readBuffer = << >>
  <2>1. PICK m \in Nat \ {0} : m = IF n < MinReadSize THEN MinReadSize ELSE n
    BY <1>3, StreamAssumption
  <2>2. PICK r0 \in LowlevelRead[m] :
          r = [out |-> Take(r0.got, n), buffer |-> Drop(r0.got, n), after |-> r0.after]
    BY <1>9, <1>11, <2>1 DEF ReadIntoBuffer
  <2>3. q = d
    <3>1. Part(Content, d, q) = << >> BY <1>7, <1>11
    <3>2. d \in Nat /\ q \in Nat /\ d <= q /\ q <= Len(Content) BY <1>7
    <3>. QED BY <1>2, <3>1, <3>2, NoPart
  <2>4. q \in 0..Len(Content) BY <1>2, <1>7
  <2>5. Progress(q, r0) BY <1>1, <1>8, <2>4, LowlevelStep
  <2>6. PICK x \in q..Len(Content), y \in 0..Len(Bytes) :
          r0.got = Part(Content, q, x) /\ Decoded(y, x, r0.after.sock, r0.after.response)
    BY <2>5 DEF Progress
  <2>7. Justified(r0.after.thrown) BY <2>5 DEF Progress
  <2>8. r.out = Take(r0.got, n) /\ r.buffer = Drop(r0.got, n) /\ r.after = r0.after BY <2>2
  <2>. QED BY <1>10, <2>3, <2>6, <2>7, <2>8
<1>12. CASE readBuffer # << >>
  <2>1. r.out = Take(readBuffer, n) /\ r.buffer = Drop(readBuffer, n) /\ r.after = Same
    BY <1>9, <1>12 DEF ReadIntoBuffer
  <2>2. r.after.sock = sock /\ r.after.response = response /\ r.after.thrown = "no"
    BY <2>1 DEF Same
  <2>3. q \in q..Len(Content) BY <1>2, <1>7
  <2>4. Justified("no") BY DEF Justified
  <2>. QED BY <1>7, <1>8, <1>10, <2>1, <2>2, <2>3, <2>4
<1>. QED BY <1>11, <1>12

(* What is claimed.                                                        *)
LEMMA ResponseInOrder == ASSUME ResponseInv PROVE BodyInOrder
<1>1. message \in Messages BY DEF ResponseInv
<1>2. /\ Bytes \in Seq(Int) /\ Content \in Seq(Int) /\ Len(Bytes) \in Nat /\ Len(Content) \in Nat
      /\ message.complete \in BOOLEAN
  BY <1>1, Sent
<1>4. delivered \in Seq(Int) /\ readBuffer \in Seq(Int) BY DEF ResponseInv
<1>5. PICK d \in Nat : d = Len(delivered) BY <1>4, LenProperties
<1>6. PICK q \in Nat : q = d + Len(readBuffer)
  <2>1. Len(readBuffer) \in Nat BY <1>4, LenProperties
  <2>. QED BY <2>1
<1>7. /\ q <= Len(Content) /\ d <= q /\ delivered = Part(Content, 0, d)
      /\ readBuffer = Part(Content, d, q)
      /\ \E p \in 0..Len(Bytes) : Decoded(p, q, sock, response)
  <2>1. Len(readBuffer) \in Nat BY <1>4, LenProperties
  <2>. QED BY <1>5, <1>6, <2>1 DEF ResponseInv
<1>8. PICK p \in 0..Len(Bytes) : Decoded(p, q, sock, response) BY <1>7
<1>9. p \in Nat /\ p <= Len(Bytes) BY <1>2
<1>10. delivered \o readBuffer = Part(Content, 0, q)
  <2>1. 0 \in Nat /\ 0 <= d BY <1>5
  <2>2. Part(Content, 0, d) \o Part(Content, d, q) = Part(Content, 0, q)
    BY <1>2, <1>7, <2>1, TwoParts
  <2>. QED BY <1>7, <2>2
<1>11. IsPrefix(delivered \o readBuffer, message.body)
  <2>1. PICK t : t = Part(Content, 0, q) OBVIOUS
  <2>2. 0 \in Nat /\ 0 <= q BY <1>6
  <2>3. /\ Part(Content, 0, q) \in Seq(Int) /\ Len(Part(Content, 0, q)) = q - 0
        /\ \A j \in 1..q - 0 : Part(Content, 0, q)[j] = Content[0 + j]
    BY <1>2, <1>7, <2>2, PartOf
  <2>4. \A j \in 1..q : 0 + j = j OBVIOUS
  <2>5. t \in Seq(Int) /\ Len(t) = q /\ \A j \in 1..q : t[j] = Content[j]
    BY <2>1, <2>3, <2>4
  <2>6. IsPrefix(t, Content) BY <1>2, <1>7, <2>5, PrefixIf
  <2>. QED BY <1>10, <2>1, <2>6 DEF Content
(* The end of the response, and of a body that the connection ends.        *)
<1>12. ASSUME response.atEnd
       PROVE  /\ message.complete /\ q = Len(Content)
              /\ sock.buffer \o sock.wire = message.next
  <2>1. PICK n \in Nat : IsSent(message, n) /\ p = n /\ q = Len(Content)
    <3>1. CASE message.delimited = "length"
      <4>1. InSized(p, q, sock, response) BY <1>8, <3>1 DEF Decoded
      <4>2. p = q /\ Len(Content) - q = 0 BY <1>12, <4>1 DEF InSized
      <4>3. q = Len(Content) BY <1>2, <4>2
      <4>4. IsSent(message, Len(Content)) BY <1>1, <3>1, Unchunked
      <4>. QED BY <1>2, <4>2, <4>3, <4>4
    <3>2. CASE message.delimited = "close"
      BY <1>8, <1>12, <3>2 DEF Decoded, InOpen
    <3>3. CASE message.delimited = "chunked"
      <4>1. InChunks(p, q, sock, response) BY <1>8, <3>3 DEF Decoded
      <4>2. AfterLast(p, q, response)
        BY <1>12, <4>1 DEF InChunks, AtSize, InChunk, AtLineEnd, CutOff
      <4>3. IsSent(message, Len(Content) + 5 * Len(Cuts)) BY <1>1, <3>3, ChunksAre
      <4>. QED BY <1>9, <4>2, <4>3 DEF AfterLast
    <3>. QED BY <1>1, <3>1, <3>2, <3>3, Unchunked
  <2>2. message.complete
    <3>1. ~message.complete => Len(Bytes) < n BY <2>1 DEF IsSent, Bytes
    <3>. QED BY <1>2, <1>9, <2>1, <3>1
  <2>3. message.next = Drop(Bytes, p) BY <2>1, <2>2 DEF IsSent, Bytes
  <2>4. Drop(Bytes, p) = Part(Bytes, p, Len(Bytes)) BY <1>2, <1>9, TakeDrop
  <2>5. PICK l \in Nat : l = Len(Bytes) BY <1>2
  <2>6. PICK m \in Nat : /\ p <= m /\ m <= l
                         /\ sock.buffer = Part(Bytes, p, m) /\ sock.wire = Part(Bytes, m, l)
    <3>1. SockAt(sock, p) BY <1>8 DEF Decoded
    <3>2. sock.buffer \in Seq(Int) BY <3>1 DEF SockAt, Sockets
    <3>3. PICK k \in Nat : k = Len(sock.buffer) BY <3>2, LenProperties
    <3>4. PICK m \in Nat : m = p + k BY <1>9
    <3>5. /\ m <= l /\ sock.buffer = Part(Bytes, p, m) /\ sock.wire = Part(Bytes, m, l)
      BY <2>5, <3>1, <3>3, <3>4 DEF SockAt
    <3>6. p <= m BY <1>9, <3>4
    <3>. QED BY <3>5, <3>6
  <2>7. l <= Len(Bytes) BY <2>5
  <2>8. Part(Bytes, p, m) \o Part(Bytes, m, l) = Part(Bytes, p, l)
    BY <1>2, <1>9, <2>6, <2>7, TwoParts
  <2>. QED BY <2>1, <2>2, <2>3, <2>4, <2>5, <2>6, <2>8
<1>13. ASSUME AtEndOfStream PROVE delivered = message.body /\ message.complete
  <2>1. readBuffer = << >> BY <1>13 DEF AtEndOfStream
  <2>2. d = q
    <3>1. Part(Content, d, q) = << >> BY <1>7, <2>1
    <3>2. d \in Nat /\ q \in Nat /\ d <= q /\ q <= Len(Content) BY <1>7
    <3>. QED BY <1>2, <3>1, <3>2, NoPart
  <2>3. q = Len(Content) /\ message.complete
    <3>1. CASE response.atEnd BY <1>12, <3>1
    <3>2. CASE message.delimited = "close" /\ sock.atEnd /\ sock.buffer = << >>
      <4>1. SockAt(sock, p) /\ p = q BY <1>8, <3>2 DEF Decoded, InOpen
      <4>2. p + Len(sock.buffer) = Len(Bytes) BY <3>2, <4>1 DEF SockAt
      <4>3. Len(sock.buffer) = 0 BY <3>2, EmptySeq
      <4>4. Len(Bytes) = Len(Content) /\ message.complete BY <1>1, <3>2, Unchunked
      <4>. QED BY <1>2, <1>9, <4>1, <4>2, <4>3, <4>4
    <3>. QED BY <1>13, <3>1, <3>2 DEF AtEndOfStream
  <2>4. delivered = Content BY <1>2, <1>7, <2>2, <2>3, WholePart
  <2>. QED BY <2>3, <2>4 DEF Content
<1>14. thrown # "no" => thrown = "truncated" /\ ~message.complete
  BY DEF ResponseInv, Justified
<1>15. response.atEnd => sock.buffer \o sock.wire = message.next BY <1>12
<1>. QED BY <1>11, <1>13, <1>14, <1>15 DEF BodyInOrder

(* The body of a response comes out in order and whole.                    *)
THEOREM ResponseBody == ResponseSpec => []BodyInOrder
<1>1. ResponseInit(Messages) => ResponseInv BY ResponseStart
<1>2. ResponseInv /\ [ResponseNext]_responseVars => ResponseInv'
  <2>1. ASSUME ResponseInv, ResponseNext PROVE ResponseInv'
    <3>1. PICK n \in 1..MaxRead : Read(n) BY <2>1 DEF ResponseNext
    <3>. QED BY <2>1, <3>1, ResponseStep
  <2>2. ASSUME ResponseInv, UNCHANGED responseVars PROVE ResponseInv'
    <3>1. /\ message' = message /\ sock' = sock /\ response' = response
          /\ readBuffer' = readBuffer /\ delivered' = delivered /\ thrown' = thrown
      BY <2>2 DEF responseVars
    <3>2. PICK q : q = Len(delivered) + Len(readBuffer) OBVIOUS
    <3>3. PICK p \in 0..Len(Bytes) : Decoded(p, q, sock, response) BY <2>2, <3>2 DEF ResponseInv
    <3>4. Decoded(p, q, sock, response)' BY <3>1, <3>3, DecodedSame
    <3>5. Bytes' = Bytes /\ Content' = Content BY <3>1 DEF Bytes, Content
    <3>6. Justified(thrown)' BY <2>2, <3>1 DEF ResponseInv, Justified
    <3>. QED BY <2>2, <3>1, <3>2, <3>4, <3>5, <3>6 DEF ResponseInv
  <2>. QED BY <2>1, <2>2
<1>3. ResponseInv => BodyInOrder BY ResponseInOrder
<1>. QED BY <1>1, <1>2, <1>3, PTL DEF ResponseSpec

-----------------------------------------------------------------------------
(* The autorelease pools.                                                  *)

Frame == [from : Int, at : Int, free : BOOLEAN, pools : Seq(Nat)]

Typed == /\ objects \in Seq(1..MaxObjects)
         /\ count \in Nat /\ size \in Nat
         /\ frames \in Seq(Frame)
         /\ autoreleased \in 0..MaxObjects
         /\ releases \in [1..MaxObjects -> Nat]

(* The array holds references that were autoreleased, each in one place.   *)
Array ==
    /\ Len(objects) = count
    /\ \A p \in 1..count : objects[p] \in 1..autoreleased
    /\ \A p, q \in 1..count : objects[p] = objects[q] => p = q

NotYet == \A o \in autoreleased + 1..MaxObjects : releases[o] = 0

(* Code runs in a stack of pops, with c objects in the array: the loop of  *)
(* each is at an object that is there, and the pools of the code it runs,  *)
(* and the pops within it, are above that object.                          *)
LoopsInArray(s, c) ==
    \A i \in 2..Len(s) : /\ 0 <= s[i].from /\ s[i].from <= s[i].at /\ s[i].at < c
                         /\ s[i].free => s[i].from = 0

PopsWithin(s) ==
    \A i, j \in 1..Len(s) : i < j =>
          /\ s[i].at < s[j].from
          /\ \A k \in DOMAIN s[i].pools : s[i].pools[k] <= s[j].from

PoolsAbove(f, c) ==
    \A k \in DOMAIN f.pools :
          /\ f.at < f.pools[k] /\ f.pools[k] <= c
          /\ \A l \in DOMAIN f.pools : k <= l => f.pools[k] <= f.pools[l]

Nested(s, c) ==
    /\ Len(s) > 0 /\ s[1].from = -1 /\ s[1].at = -1
    /\ LoopsInArray(s, c)
    /\ PopsWithin(s)
    /\ \A i \in 1..Len(s) : PoolsAbove(s[i], c)

(* What the pops of the stack s have come to, as Passed says of frames.    *)
PassedIn(s, p) == \E i \in 2..Len(s) : s[i].from < p /\ p <= s[i].at + 1

IInv == Typed /\ Array /\ NotYet /\ Nested(frames, count) /\ ReleasedOnce

USE PoolsAssumption

-----------------------------------------------------------------------------
(* What a frame is made of.                                                *)
LEMMA FrameParts ==
    ASSUME NEW f \in Frame
    PROVE  /\ f.from \in Int /\ f.at \in Int
           /\ \A k \in DOMAIN f.pools : f.pools[k] \in Nat
<1>1. f.pools \in Seq(Nat) /\ f.from \in Int /\ f.at \in Int BY DEF Frame
<1>2. \A k \in 1..Len(f.pools) : f.pools[k] \in Nat BY <1>1, ElementOfSeq
<1>3. DOMAIN f.pools = 1..Len(f.pools) BY <1>1
<1> QED BY <1>1, <1>2, <1>3

(* The code that runs ends, or goes on as another frame.                   *)
LEMMA FrontOf ==
    ASSUME NEW s \in Seq(Frame), Len(s) > 0
    PROVE  /\ Front(s) \in Seq(Frame)
           /\ Len(Front(s)) = Len(s) - 1
           /\ \A i \in 1..Len(s) - 1 : Front(s)[i] = s[i]
<1>1. Len(s) \in Nat /\ \A i \in 1..Len(s) - 1 : s[i] \in Frame
  BY ElementOfSeq
<1>2. /\ SubSeq(s, 1, Len(s) - 1) \in Seq(Frame)
      /\ Len(SubSeq(s, 1, Len(s) - 1))
           = IF 1 <= Len(s) - 1 THEN (Len(s) - 1) - 1 + 1 ELSE 0
      /\ \A i \in 1..(Len(s) - 1) - 1 + 1 : SubSeq(s, 1, Len(s) - 1)[i] = s[1 + i - 1]
  BY <1>1, SubSeqProperties
<1>3. /\ (Len(s) - 1) - 1 + 1 = Len(s) - 1
      /\ \A i \in 1..Len(s) - 1 : 1 + i - 1 = i
      /\ ~(1 <= Len(s) - 1) => Len(s) - 1 = 0
  <2> DEFINE n == Len(s)
  <2>1. n \in Nat /\ n > 0 BY <1>1
  <2> HIDE DEF n
  <2>2. /\ (n - 1) - 1 + 1 = n - 1
        /\ \A i \in 1..n - 1 : 1 + i - 1 = i
        /\ ~(1 <= n - 1) => n - 1 = 0
    BY <2>1
  <2> QED BY <2>2 DEF n
<1>4. Len(SubSeq(s, 1, Len(s) - 1)) = Len(s) - 1 BY <1>2, <1>3
<1>5. \A i \in 1..Len(s) - 1 : SubSeq(s, 1, Len(s) - 1)[i] = s[i] BY <1>2, <1>3
<1> QED BY <1>2, <1>4, <1>5, Zenon DEF Front

LEMMA ResumeAt ==
    ASSUME NEW s \in Seq(Frame), Len(s) > 0, NEW f \in Frame
    PROVE  /\ Append(Front(s), f) \in Seq(Frame)
           /\ Len(Append(Front(s), f)) = Len(s)
           /\ Append(Front(s), f)[Len(s)] = f
           /\ \A i \in 1..Len(s) - 1 : Append(Front(s), f)[i] = s[i]
  BY FrontOf, AppendProperties

-----------------------------------------------------------------------------
(* More objects in the array.                                              *)
LEMMA NestedMore ==
    ASSUME NEW s \in Seq(Frame), NEW c \in Nat, NEW d \in Nat, c <= d, Nested(s, c)
    PROVE  Nested(s, d)
<1>1. \A i \in 1..Len(s) : s[i] \in Frame OBVIOUS
<1>2. LoopsInArray(s, d)
  <2> SUFFICES ASSUME NEW i \in 2..Len(s)
               PROVE  /\ 0 <= s[i].from /\ s[i].from <= s[i].at /\ s[i].at < d
                      /\ s[i].free => s[i].from = 0
    BY DEF LoopsInArray
  <2>1. /\ 0 <= s[i].from /\ s[i].from <= s[i].at /\ s[i].at < c
        /\ s[i].free => s[i].from = 0
    BY DEF Nested, LoopsInArray
  <2>2. s[i] \in Frame BY <1>1
  <2>3. s[i].at \in Int BY <2>2 DEF Frame
  <2>4. s[i].at < d BY <2>1, <2>3
  <2> QED BY <2>1, <2>4
<1>3. \A i \in 1..Len(s) : PoolsAbove(s[i], d)
  <2> SUFFICES ASSUME NEW i \in 1..Len(s), NEW k \in DOMAIN s[i].pools
               PROVE  s[i].pools[k] <= d
    BY DEF Nested, PoolsAbove
  <2>1. s[i].pools[k] \in Nat BY <1>1 DEF Frame
  <2> QED BY <2>1 DEF Nested, PoolsAbove
<1> QED BY <1>2, <1>3 DEF Nested

(* Other pools for the code that runs.                                     *)
LEMMA NestedPools ==
    ASSUME NEW s \in Seq(Frame), NEW c \in Nat, Nested(s, c), NEW f \in Frame,
           f.from = s[Len(s)].from, f.at = s[Len(s)].at, f.free = s[Len(s)].free,
           PoolsAbove(f, c)
    PROVE  Nested(Append(Front(s), f), c)
<1> DEFINE t == Append(Front(s), f)
<1>1. /\ Len(s) > 0 /\ Len(t) = Len(s) /\ t[Len(s)] = f
      /\ \A i \in 1..Len(s) - 1 : t[i] = s[i]
  BY ResumeAt DEF Nested
<1> HIDE DEF t
<1>2. t[1].from = -1 /\ t[1].at = -1 BY <1>1 DEF Nested
<1>3. LoopsInArray(t, c) BY <1>1 DEF Nested, LoopsInArray
<1>4. PopsWithin(t) BY <1>1 DEF Nested, PopsWithin
<1>5. \A i \in 1..Len(t) : PoolsAbove(t[i], c) BY <1>1 DEF Nested
<1> QED BY <1>1, <1>2, <1>3, <1>4, <1>5 DEF Nested, t

(* A pop of a pool that lies within what the code that runs has open.      *)
LEMMA NestedPop ==
    ASSUME NEW s \in Seq(Frame), NEW c \in Nat, Nested(s, c), NEW f \in Frame,
           f.at = f.from, 0 <= f.from, f.from < c, f.free => f.from = 0,
           f.pools = << >>,
           s[Len(s)].at < f.from,
           \A k \in DOMAIN s[Len(s)].pools : s[Len(s)].pools[k] <= f.from
    PROVE  Nested(Append(s, f), c)
<1> DEFINE t == Append(s, f)
           n == Len(s)
<1>1. /\ n \in Nat /\ n > 0 /\ Len(t) = n + 1 /\ t[n + 1] = f
      /\ \A i \in 1..n : t[i] = s[i]
  BY AppendProperties DEF Nested
<1>0. \A i \in 1..n : s[i] \in Frame OBVIOUS
<1> HIDE DEF t, n
<1>2. t[1].from = -1 /\ t[1].at = -1 BY <1>1 DEF Nested, n
<1>3. LoopsInArray(t, c)
  <2>1. /\ 0 <= f.from /\ f.from <= f.at /\ f.at < c
        /\ f.free => f.from = 0
    BY FrameParts
  <2> QED BY <1>1, <2>1 DEF Nested, LoopsInArray, n
<1>4. PopsWithin(t)
  <2> SUFFICES ASSUME NEW i \in 1..n + 1, NEW j \in 1..n + 1, i < j
               PROVE  /\ t[i].at < t[j].from
                      /\ \A k \in DOMAIN t[i].pools : t[i].pools[k] <= t[j].from
    BY <1>1 DEF PopsWithin
  <2>1. CASE j <= n
    BY <1>1, <2>1 DEF Nested, PopsWithin, n
  <2>2. CASE j = n + 1 /\ i = n
    BY <1>1, <2>2 DEF n
  <2>3. CASE j = n + 1 /\ i < n
    <3>1. /\ t[i] = s[i] /\ t[j] = f /\ i \in 1..n /\ n \in 2..n BY <1>1, <2>3
    <3>2. /\ s[i].at < s[n].from
          /\ \A k \in DOMAIN s[i].pools : s[i].pools[k] <= s[n].from
      BY <2>3, <3>1 DEF Nested, PopsWithin, n
    <3>3. s[n].from <= s[n].at BY <3>1 DEF Nested, LoopsInArray, n
    <3>4. s[n].at < f.from BY DEF n
    <3>5. /\ s[i].at \in Int /\ s[n].from \in Int /\ s[n].at \in Int /\ f.from \in Int
          /\ \A k \in DOMAIN s[i].pools : s[i].pools[k] \in Int
      BY <1>0, <1>1, <3>1, FrameParts
    <3>6. s[n].from < f.from BY <3>3, <3>4, <3>5
    <3>7. s[i].at < f.from BY <3>2, <3>5, <3>6
    <3>8. \A k \in DOMAIN s[i].pools : s[i].pools[k] <= f.from
      <4> SUFFICES ASSUME NEW k \in DOMAIN s[i].pools PROVE s[i].pools[k] <= f.from
        OBVIOUS
      <4>1. s[i].pools[k] \in Int /\ s[i].pools[k] <= s[n].from BY <3>2, <3>5
      <4> QED BY <3>5, <3>6, <4>1
    <3> QED BY <3>1, <3>7, <3>8
  <2> QED BY <1>1, <2>1, <2>2, <2>3
<1>5. \A i \in 1..Len(t) : PoolsAbove(t[i], c)
  <2>1. PoolsAbove(f, c) BY DEF PoolsAbove
  <2> QED BY <1>1, <2>1 DEF Nested, n
<1> QED BY <1>1, <1>2, <1>3, <1>4, <1>5 DEF Nested, t

(* The innermost pop is over, and the array is cut to where it began.      *)
LEMMA NestedEnd ==
    ASSUME NEW s \in Seq(Frame), NEW c \in Nat, Nested(s, c), Len(s) > 1
    PROVE  Nested(Front(s), s[Len(s)].from)
<1> DEFINE t == Front(s)
           n == Len(s)
           b == s[n].from
<1>1. /\ n \in Nat /\ n > 1 /\ Len(t) = n - 1
      /\ \A i \in 1..n - 1 : t[i] = s[i]
  BY FrontOf
<1>0. \A i \in 1..n : s[i] \in Frame OBVIOUS
<1> HIDE DEF t, n
<1>2. t[1].from = -1 /\ t[1].at = -1 BY <1>1 DEF Nested
<1>3. \A i \in 1..n - 1 : /\ s[i].at < b
                          /\ \A k \in DOMAIN s[i].pools : s[i].pools[k] <= b
  BY <1>1 DEF Nested, PopsWithin, n
<1>4. LoopsInArray(t, b) BY <1>1, <1>3 DEF Nested, LoopsInArray, n
<1>5. PopsWithin(t)
  <2> SUFFICES ASSUME NEW i \in 1..n - 1, NEW j \in 1..n - 1, i < j
               PROVE  /\ t[i].at < t[j].from
                      /\ \A k \in DOMAIN t[i].pools : t[i].pools[k] <= t[j].from
    BY <1>1 DEF PopsWithin
  <2>1. t[i] = s[i] /\ t[j] = s[j] /\ i \in 1..n /\ j \in 1..n BY <1>1
  <2>2. /\ s[i].at < s[j].from
        /\ \A k \in DOMAIN s[i].pools : s[i].pools[k] <= s[j].from
    BY <2>1 DEF Nested, PopsWithin, n
  <2> QED BY <2>1, <2>2
<1>6. \A i \in 1..Len(t) : PoolsAbove(t[i], b)
  <2>1. ASSUME NEW i \in 1..n - 1 PROVE PoolsAbove(t[i], b)
    <3>1. t[i] = s[i] /\ i \in 1..n BY <1>1
    <3>2. PoolsAbove(s[i], c) BY <3>1 DEF Nested, n
    <3> QED BY <1>3, <3>1, <3>2 DEF PoolsAbove
  <2> QED BY <1>1, <2>1
<1> QED BY <1>1, <1>2, <1>4, <1>5, <1>6 DEF Nested, t, n

(* The innermost pop goes on to the next object, with no pools open.       *)
LEMMA NestedTurn ==
    ASSUME NEW s \in Seq(Frame), NEW c \in Nat, Nested(s, c), Len(s) > 1,
           NEW f \in Frame, f.from = s[Len(s)].from, f.at = s[Len(s)].at + 1,
           f.free = s[Len(s)].free, f.pools = << >>, f.at < c
    PROVE  Nested(Append(Front(s), f), c)
<1> DEFINE t == Append(Front(s), f)
           n == Len(s)
<1>1. /\ n \in Nat /\ n > 1 /\ Len(t) = n /\ t[n] = f
      /\ \A i \in 1..n - 1 : t[i] = s[i]
  BY ResumeAt
<1>0. s[n] \in Frame BY <1>1
<1> HIDE DEF t, n
<1>2. t[1].from = -1 /\ t[1].at = -1 BY <1>1 DEF Nested
<1>3. LoopsInArray(t, c)
  <2>1. /\ 0 <= f.from /\ f.from <= f.at /\ f.at < c
        /\ f.free => f.from = 0
    BY <1>0, <1>1 DEF Nested, LoopsInArray, Frame, n
  <2> QED BY <1>1, <2>1 DEF Nested, LoopsInArray, n
<1>4. PopsWithin(t)
  <2> SUFFICES ASSUME NEW i \in 1..n, NEW j \in 1..n, i < j
               PROVE  /\ t[i].at < t[j].from
                      /\ \A k \in DOMAIN t[i].pools : t[i].pools[k] <= t[j].from
    BY <1>1 DEF PopsWithin
  <2>1. /\ s[i].at < s[j].from
        /\ \A k \in DOMAIN s[i].pools : s[i].pools[k] <= s[j].from
    BY DEF Nested, PopsWithin, n
  <2>2. t[i] = s[i] /\ t[j].from = s[j].from
    <3>1. f.from = s[n].from BY DEF n
    <3> QED BY <1>1, <3>1
  <2> QED BY <2>1, <2>2
<1>5. \A i \in 1..Len(t) : PoolsAbove(t[i], c)
  <2>1. PoolsAbove(f, c) BY DEF PoolsAbove
  <2> QED BY <1>1, <2>1 DEF Nested, n
<1> QED BY <1>1, <1>2, <1>3, <1>4, <1>5 DEF Nested, t

-----------------------------------------------------------------------------
(* Other pools leave the pops where they are.                              *)
LEMMA PassedPools ==
    ASSUME NEW s \in Seq(Frame), Len(s) > 0, NEW f \in Frame,
           f.from = s[Len(s)].from, f.at = s[Len(s)].at, NEW p \in Nat
    PROVE  PassedIn(Append(Front(s), f), p) <=> PassedIn(s, p)
<1> DEFINE t == Append(Front(s), f)
<1>1. /\ Len(t) = Len(s) /\ t[Len(s)] = f /\ \A i \in 1..Len(s) - 1 : t[i] = s[i]
  BY ResumeAt
<1> HIDE DEF t
<1>2. \A i \in 2..Len(s) : t[i].from = s[i].from /\ t[i].at = s[i].at BY <1>1
<1>3. PassedIn(t, p) <=> PassedIn(s, p) BY <1>1, <1>2 DEF PassedIn
<1> QED BY <1>3 DEF t

(* A pop comes first to the object above its pool.                         *)
LEMMA PassedPop ==
    ASSUME NEW s \in Seq(Frame), Len(s) > 0, NEW f \in Frame, f.at = f.from,
           NEW p \in Nat
    PROVE  PassedIn(Append(s, f), p) <=> PassedIn(s, p) \/ p = f.from + 1
<1> DEFINE t == Append(s, f)
<1>1. /\ Len(t) = Len(s) + 1 /\ t[Len(s) + 1] = f
      /\ \A i \in 1..Len(s) : t[i] = s[i]
  BY AppendProperties
<1> HIDE DEF t
<1>2. Len(s) \in Nat /\ f.from \in Int BY FrameParts
<1>3. p = f.from + 1 <=> f.from < p /\ p <= f.from + 1 BY <1>2
<1>4. ASSUME PassedIn(t, p) PROVE PassedIn(s, p) \/ p = f.from + 1
  <2>1. PICK i \in 2..Len(s) + 1 : t[i].from < p /\ p <= t[i].at + 1
    BY <1>1, <1>4 DEF PassedIn
  <2>2. CASE i = Len(s) + 1 BY <1>1, <1>3, <2>1, <2>2
  <2>3. CASE i # Len(s) + 1
    <3>1. i \in 2..Len(s) BY <1>2, <2>3
    <3> QED BY <1>1, <2>1, <3>1 DEF PassedIn
  <2> QED BY <2>2, <2>3
<1>5. ASSUME PassedIn(s, p) PROVE PassedIn(t, p)
  BY <1>1, <1>2, <1>5 DEF PassedIn
<1>6. ASSUME p = f.from + 1 PROVE PassedIn(t, p)
  <2>1. Len(s) + 1 \in 2..Len(t) BY <1>1, <1>2
  <2> QED BY <1>1, <1>3, <1>6, <2>1 DEF PassedIn
<1> QED BY <1>4, <1>5, <1>6 DEF t

(* The innermost pop that goes on comes to the next object.                *)
LEMMA PassedTurn ==
    ASSUME NEW s \in Seq(Frame), NEW c \in Nat, Nested(s, c), Len(s) > 1,
           NEW f \in Frame, f.from = s[Len(s)].from, f.at = s[Len(s)].at + 1,
           NEW p \in Nat
    PROVE  PassedIn(Append(Front(s), f), p) <=> PassedIn(s, p) \/ p = f.at + 1
<1> DEFINE t == Append(Front(s), f)
           n == Len(s)
<1>1. /\ n \in Nat /\ n > 1
      /\ Len(t) = n /\ t[n] = f /\ \A i \in 1..n - 1 : t[i] = s[i]
  BY ResumeAt
<1>2. /\ s[n] \in Frame /\ f.from = s[n].from /\ f.at = s[n].at + 1
      /\ Len(s) = n
  BY <1>1, ElementOfSeq
<1>3. s[n].from <= s[n].at BY <1>1 DEF Nested, LoopsInArray
<1> HIDE DEF t, n
<1>4. /\ s[n].from \in Int /\ s[n].at \in Int /\ f.at \in Int
  BY <1>2, FrameParts
<1>5. f.from < p /\ p <= f.at + 1 <=> (s[n].from < p /\ p <= s[n].at + 1) \/ p = f.at + 1
  BY <1>2, <1>3, <1>4
<1>6. ASSUME PassedIn(t, p) PROVE PassedIn(s, p) \/ p = f.at + 1
  <2>1. PICK i \in 2..n : t[i].from < p /\ p <= t[i].at + 1
    BY <1>1, <1>6 DEF PassedIn
  <2>2. CASE i = n BY <1>1, <1>2, <1>5, <2>1, <2>2 DEF PassedIn
  <2>3. CASE i # n BY <1>1, <1>2, <2>1, <2>3 DEF PassedIn
  <2> QED BY <2>2, <2>3
<1>7. ASSUME PassedIn(s, p) \/ p = f.at + 1 PROVE PassedIn(t, p)
  <2>1. CASE p = f.at + 1 BY <1>1, <1>5, <2>1 DEF PassedIn
  <2>2. CASE PassedIn(s, p)
    <3>1. PICK i \in 2..n : s[i].from < p /\ p <= s[i].at + 1
      BY <1>2, <2>2 DEF PassedIn
    <3>2. CASE i = n BY <1>1, <1>5, <3>1, <3>2 DEF PassedIn
    <3>3. CASE i # n BY <1>1, <3>1, <3>3 DEF PassedIn
    <3> QED BY <3>2, <3>3
  <2> QED BY <1>7, <2>1, <2>2
<1> QED BY <1>6, <1>7 DEF t

(* Below where the innermost pop began, only the others have come.         *)
LEMMA PassedEnd ==
    ASSUME NEW s \in Seq(Frame), Len(s) > 1, NEW p \in Nat
    PROVE  /\ p <= s[Len(s)].from => (PassedIn(Front(s), p) <=> PassedIn(s, p))
           /\ s[Len(s)].from < p /\ p <= s[Len(s)].at + 1 => PassedIn(s, p)
<1> DEFINE t == Front(s)
           n == Len(s)
<1>1. /\ n \in Nat /\ n > 1
      /\ Len(t) = n - 1 /\ \A i \in 1..n - 1 : t[i] = s[i]
  BY FrontOf
<1>2. s[n] \in Frame /\ Len(s) = n BY <1>1, ElementOfSeq
<1> HIDE DEF t, n
<1>3. s[n].from \in Int /\ s[n].at \in Int BY <1>2, FrameParts
<1>4. ASSUME PassedIn(t, p) PROVE PassedIn(s, p) BY <1>1, <1>2, <1>4 DEF PassedIn
<1>5. ASSUME p <= s[n].from, PassedIn(s, p) PROVE PassedIn(t, p)
  <2>1. PICK i \in 2..n : s[i].from < p /\ p <= s[i].at + 1
    BY <1>2, <1>5 DEF PassedIn
  <2>2. i # n BY <1>3, <1>5, <2>1
  <2> QED BY <1>1, <2>1, <2>2 DEF PassedIn
<1>6. ASSUME s[n].from < p, p <= s[n].at + 1 PROVE PassedIn(s, p)
  BY <1>1, <1>2, <1>6 DEF PassedIn
<1> QED BY <1>2, <1>4, <1>5, <1>6 DEF t

(* No pop has come further than the innermost one.                         *)
LEMMA NotPassed ==
    ASSUME NEW s \in Seq(Frame), NEW c \in Nat, Nested(s, c),
           NEW p \in Nat, s[Len(s)].at + 1 < p
    PROVE  ~PassedIn(s, p)
<1> DEFINE n == Len(s)
<1>1. n \in Nat /\ n > 0 BY DEF Nested
<1>2. \A i \in 1..n : s[i].from \in Int /\ s[i].at \in Int
  BY ElementOfSeq, FrameParts
<1> SUFFICES ASSUME NEW i \in 2..n, p <= s[i].at + 1 PROVE FALSE
  BY DEF PassedIn
<1>3. CASE i = n BY <1>1, <1>2, <1>3
<1>4. CASE i # n
  <2>1. s[i].at < s[n].from BY <1>1, <1>4 DEF Nested, PopsWithin
  <2>2. s[n].from <= s[n].at BY <1>1, <1>4 DEF Nested, LoopsInArray
  <2>3. i \in 1..n /\ n \in 1..n BY <1>1
  <2>4. s[n].at + 1 < p OBVIOUS
  <2> HIDE DEF n
  <2> QED BY <1>2, <2>1, <2>2, <2>3, <2>4
<1> QED BY <1>3, <1>4

-----------------------------------------------------------------------------
LEMMA PassedIs == \A p : Passed(p) = PassedIn(frames, p)
  BY DEF Passed, PassedIn

(* The pop that has come to another object releases it for the first time. *)
LEMMA ReleaseKeeps ==
    ASSUME IInv, NEW p \in 1..count, ~Passed(p),
           releases' = [releases EXCEPT ![objects[p]] = @ + 1],
           UNCHANGED <<objects, count, size, autoreleased>>,
           \A q \in 1..count : Passed(q)' <=> Passed(q) \/ q = p,
           frames' \in Seq(Frame), Nested(frames', count)
    PROVE  IInv'
<1>1. objects[p] \in 1..autoreleased BY DEF IInv, Array
<1>2. 1..autoreleased \subseteq 1..MaxObjects BY DEF IInv, Typed
<1>3. /\ releases' \in [1..MaxObjects -> Nat]
      /\ releases'[objects[p]] = releases[objects[p]] + 1
      /\ \A o \in 1..MaxObjects : o # objects[p] => releases'[o] = releases[o]
  <2>1. PICK r \in 1..MaxObjects : r = objects[p] BY <1>1, <1>2
  <2>2. releases \in [1..MaxObjects -> Nat] /\ releases' = [releases EXCEPT ![r] = @ + 1]
    BY <2>1 DEF IInv, Typed
  <2>3. releases[r] + 1 \in Nat BY <2>2
  <2> QED BY <2>1, <2>2, <2>3
<1>4. Typed' BY <1>3 DEF IInv, Typed
<1>5. Array' BY DEF IInv, Array
<1>6. NotYet'
  <2>1. \A o \in autoreleased + 1..MaxObjects : o \in 1..MaxObjects /\ o # objects[p]
    BY <1>1 DEF IInv, Typed
  <2> QED BY <1>3, <2>1 DEF IInv, NotYet
<1>7. releases[objects[p]] = 0 BY <1>1 DEF IInv, ReleasedOnce
<1>8. ReleasedOnce'
  <2>1. ASSUME NEW o \in 1..autoreleased
        PROVE  releases'[o] = IF \E q \in 1..count : objects[q] = o /\ ~Passed(q)' THEN 0 ELSE 1
    <3>1. releases[o] = IF \E q \in 1..count : objects[q] = o /\ ~Passed(q) THEN 0 ELSE 1
      BY DEF IInv, ReleasedOnce
    <3>2. CASE o = objects[p]
      <4>1. \A q \in 1..count : objects[q] = o => q = p BY <3>2 DEF IInv, Array
      <4>2. ~\E q \in 1..count : objects[q] = o /\ ~Passed(q)' BY <4>1
      <4>3. releases'[o] = 1 BY <1>3, <1>7, <3>2
      <4> QED BY <4>2, <4>3
    <3>3. CASE o # objects[p]
      <4>1. releases'[o] = releases[o] BY <1>2, <1>3, <3>3
      <4>2. (\E q \in 1..count : objects[q] = o /\ ~Passed(q)')
              <=> (\E q \in 1..count : objects[q] = o /\ ~Passed(q))
        BY <3>3
      <4> QED BY <3>1, <4>1, <4>2
    <3> QED BY <3>2, <3>3
  <2>2. count <= size BY DEF IInv, ReleasedOnce
  <2> QED BY <2>1, <2>2 DEF ReleasedOnce
<1> QED BY <1>4, <1>5, <1>6, <1>8 DEF IInv

(* Cutting the array to b objects forgets only objects that were released. *)
LEMMA CutKeeps ==
    ASSUME IInv, NEW b \in 0..count,
           count' = b, objects' = SubSeq(objects, 1, b),
           size' \in Nat, b <= size', UNCHANGED <<releases, autoreleased>>,
           \A q \in 1..count : b < q => Passed(q),
           \A q \in 1..b : Passed(q)' <=> Passed(q),
           frames' \in Seq(Frame), Nested(frames', b)
    PROVE  IInv'
<1>1. /\ b \in Nat /\ b <= count /\ count = Len(objects) /\ count \in Nat
      /\ \A p \in 1..b : p \in 1..count
  BY DEF IInv, Typed, Array
<1>2. \A p \in 1..b : objects[p] \in 1..MaxObjects
  BY <1>1, ElementOfSeq DEF IInv, Typed
<1>3. /\ objects' \in Seq(1..MaxObjects)
      /\ Len(objects') = IF 1 <= b THEN b - 1 + 1 ELSE 0
      /\ \A p \in 1..b - 1 + 1 : objects'[p] = objects[1 + p - 1]
  BY <1>1, <1>2, SubSeqProperties
<1>4. /\ b - 1 + 1 = b /\ (IF 1 <= b THEN b - 1 + 1 ELSE 0) = b
      /\ \A p \in 1..b : 1 + p - 1 = p
  BY <1>1
<1>5. Len(objects') = b /\ \A p \in 1..b : objects'[p] = objects[p]
  BY <1>3, <1>4
<1>6. Typed' BY <1>1, <1>3 DEF IInv, Typed
<1>7. Array' BY <1>1, <1>5 DEF IInv, Array
<1>8. NotYet' BY DEF IInv, NotYet
<1>9. ReleasedOnce'
  <2> SUFFICES ASSUME NEW o \in 1..autoreleased
               PROVE  (\E q \in 1..b : objects'[q] = o /\ ~Passed(q)')
                        <=> (\E q \in 1..count : objects[q] = o /\ ~Passed(q))
    BY DEF IInv, ReleasedOnce
  <2>1. ASSUME NEW q \in 1..b, objects'[q] = o, ~Passed(q)'
        PROVE  \E r \in 1..count : objects[r] = o /\ ~Passed(r)
    BY <1>1, <1>5, <2>1
  <2>2. ASSUME NEW q \in 1..count, objects[q] = o, ~Passed(q)
        PROVE  \E r \in 1..b : objects'[r] = o /\ ~Passed(r)'
    <3>1. q \in 1..b BY <1>1, <2>2
    <3> QED BY <1>5, <2>2, <3>1
  <2> QED BY <2>1, <2>2
<1> QED BY <1>6, <1>7, <1>8, <1>9 DEF IInv

(* Frames that have come to the same objects.                              *)
LEMMA FramesKeep ==
    ASSUME IInv, UNCHANGED <<objects, count, size, releases, autoreleased>>,
           \A q \in 1..count : Passed(q)' <=> Passed(q),
           frames' \in Seq(Frame), Nested(frames', count)
    PROVE  IInv'
<1>1. Typed' /\ Array' /\ NotYet' BY DEF IInv, Typed, Array, NotYet
<1>2. ReleasedOnce' BY DEF IInv, ReleasedOnce
<1> QED BY <1>1, <1>2 DEF IInv

-----------------------------------------------------------------------------
LEMMA RunningIs ==
    ASSUME IInv
    PROVE  /\ Len(frames) \in Nat /\ Len(frames) > 0
           /\ Running = frames[Len(frames)] /\ Running \in Frame
           /\ Running.at < count /\ PoolsAbove(Running, count)
           /\ Running.pools \in Seq(Nat)
           /\ Len(frames) > 1 => /\ 0 <= Running.from /\ Running.from <= Running.at
                                 /\ Running.free => Running.from = 0
<1>1. /\ Len(frames) \in Nat /\ Len(frames) > 0 /\ Len(frames) \in 1..Len(frames)
      /\ count \in Nat /\ frames \in Seq(Frame)
  BY DEF IInv, Typed, Nested
<1>2. Running = frames[Len(frames)] BY DEF Running, Last
<1>3. Running \in Frame BY <1>1, <1>2, ElementOfSeq
<1>4. PoolsAbove(Running, count) BY <1>1, <1>2 DEF IInv, Nested
<1>7. Running.pools \in Seq(Nat) BY <1>3 DEF Frame
<1>5. CASE Len(frames) > 1
  <2>1. Len(frames) \in 2..Len(frames) BY <1>1, <1>5
  <2> QED BY <1>1, <1>2, <1>3, <1>4, <2>1 DEF IInv, Nested, LoopsInArray, Frame
<1>6. CASE Len(frames) = 1
  <2>1. Running.at = -1 BY <1>2, <1>6 DEF IInv, Nested
  <2>2. Running.at < count BY <1>1, <2>1
  <2>3. ~(Len(frames) > 1) BY <1>6
  <2> QED BY <1>1, <1>2, <1>3, <1>4, <1>7, <2>2, <2>3, Zenon
<1>8. Len(frames) > 1 \/ Len(frames) = 1
  <2>1. \A n \in Nat : n > 0 => n > 1 \/ n = 1 OBVIOUS
  <2> QED BY <1>1, <2>1, Zenon
<1> QED BY <1>5, <1>6, <1>8, Zenon

LEMMA PushKeeps == ASSUME IInv, Push PROVE IInv'
<1> DEFINE f == [Running EXCEPT !.pools = Append(@, count)]
<1>1. /\ frames' = Append(Front(frames), f)
      /\ UNCHANGED <<objects, count, size, autoreleased, releases>>
  BY DEF Push, Resume
<1>2. /\ Running \in Frame /\ Running.pools \in Seq(Nat) /\ count \in Nat
      /\ Len(frames) > 0 /\ frames \in Seq(Frame) /\ Nested(frames, count)
      /\ Running = frames[Len(frames)] /\ Running.at < count
      /\ PoolsAbove(Running, count)
  BY RunningIs DEF IInv, Typed
<1>3. /\ f \in Frame /\ f.from = Running.from /\ f.at = Running.at
      /\ f.free = Running.free /\ f.pools = Append(Running.pools, count)
  <2>1. Append(Running.pools, count) \in Seq(Nat) BY <1>2, AppendProperties
  <2>2. f \in Frame BY <1>2, <2>1, Zenon DEF Frame
  <2>3. /\ f.from = Running.from /\ f.at = Running.at
        /\ f.free = Running.free /\ f.pools = Append(Running.pools, count)
    BY <1>2, Zenon DEF Frame
  <2> QED BY <2>2, <2>3
<1> HIDE DEF f
<1>4. PoolsAbove(f, count)
  <2> DEFINE g == Running.pools
             h == f.pools
  <2>1. /\ h \in Seq(Nat) /\ Len(h) = Len(g) + 1 /\ h[Len(g) + 1] = count
        /\ \A k \in 1..Len(g) : h[k] = g[k]
    BY <1>2, <1>3, AppendProperties
  <2>2. \A k \in 1..Len(g) : /\ Running.at < g[k] /\ g[k] <= count
                             /\ \A l \in 1..Len(g) : k <= l => g[k] <= g[l]
    BY <1>2 DEF PoolsAbove
  <2>3. DOMAIN h = 1..Len(g) + 1 /\ Len(g) \in Nat BY <1>2, <2>1
  <2> HIDE DEF g, h
  <2>4. \A k \in DOMAIN h : /\ f.at < h[k] /\ h[k] <= count
                            /\ \A l \in DOMAIN h : k <= l => h[k] <= h[l]
    <3> SUFFICES ASSUME NEW k \in 1..Len(g) + 1
                 PROVE  /\ f.at < h[k] /\ h[k] <= count
                        /\ \A l \in 1..Len(g) + 1 : k <= l => h[k] <= h[l]
      BY <2>3
    <3>1. CASE k = Len(g) + 1
      <4>1. \A l \in 1..Len(g) + 1 : k <= l => l = k BY <2>3, <3>1
      <4> QED BY <1>2, <1>3, <2>1, <3>1, <4>1
    <3>2. CASE k # Len(g) + 1
      <4>1. k \in 1..Len(g) /\ h[k] = g[k] BY <2>1, <2>3, <3>2
      <4>2. \A l \in 1..Len(g) + 1 : l \in 1..Len(g) \/ h[l] = count BY <2>1, <2>3
      <4> QED BY <1>3, <2>1, <2>2, <4>1, <4>2
    <3> QED BY <3>1, <3>2
  <2> QED BY <2>4 DEF PoolsAbove, h
<1>5. frames' \in Seq(Frame) /\ Nested(frames', count)
  BY <1>1, <1>2, <1>3, <1>4, ResumeAt, NestedPools
<1>6. \A q \in 1..count : Passed(q)' <=> Passed(q)
  <2> SUFFICES ASSUME NEW q \in 1..count PROVE PassedIn(frames', q) <=> PassedIn(frames, q)
    BY DEF Passed, PassedIn
  <2>1. q \in Nat OBVIOUS
  <2> QED BY <1>1, <1>2, <1>3, <2>1, PassedPools
<1> QED BY <1>1, <1>5, <1>6, FramesKeep

LEMMA AutoreleaseKeeps == ASSUME IInv, Autorelease PROVE IInv'
<1> DEFINE new == autoreleased + 1
<1>1. /\ autoreleased \in Nat /\ new \in 1..MaxObjects /\ count \in Nat /\ size \in Nat
      /\ autoreleased' = new /\ count' = count + 1
      /\ UNCHANGED <<frames, releases>>
  BY DEF Autorelease, IInv, Typed
<1>2. objects' = Append(objects, new)
  <2>1. SubSeq(objects, 1, count) = objects
    BY SubSeqFull DEF IInv, Typed, Array
  <2> QED BY <2>1 DEF Autorelease
<1>3. /\ objects' \in Seq(1..MaxObjects) /\ Len(objects') = count + 1
      /\ objects'[count + 1] = new
      /\ \A p \in 1..count : objects'[p] = objects[p]
  <2>1. objects \in Seq(1..MaxObjects) /\ Len(objects) = count
    BY DEF IInv, Typed, Array
  <2>2. new \in 1..MaxObjects BY <1>1
  <2> HIDE DEF new
  <2> QED BY <1>2, <2>1, <2>2, AppendProperties
<1> HIDE DEF new
<1>4. size' \in Nat /\ count + 1 <= size'
  <2>1. count <= size BY DEF IInv, ReleasedOnce
  <2> QED BY <1>1, <2>1 DEF Autorelease
<1>5. Typed' BY <1>1, <1>3, <1>4 DEF IInv, Typed
<1>6. \A p \in 1..count : objects[p] \in 1..autoreleased /\ objects[p] # new
  BY <1>1 DEF IInv, Array, new
<1>7. \A p \in 1..count + 1 : p \in 1..count \/ p = count + 1 BY <1>1
<1>8. Array'
  <2>1. \A p \in 1..count + 1 : objects'[p] \in 1..new
    BY <1>1, <1>3, <1>6, <1>7 DEF new
  <2>2. \A p, q \in 1..count + 1 : objects'[p] = objects'[q] => p = q
    BY <1>3, <1>6, <1>7 DEF IInv, Array
  <2> QED BY <1>1, <1>3, <2>1, <2>2 DEF Array
<1>9. NotYet' BY <1>1 DEF IInv, NotYet, new
<1>10. Nested(frames, count)' BY <1>1, NestedMore DEF IInv, Typed
<1>11. ReleasedOnce'
  <2>1. \A p \in 1..count + 1 : Passed(p)' <=> Passed(p) BY <1>1 DEF Passed
  <2>2. ~Passed(count + 1)
    <3>1. frames[Len(frames)].at + 1 < count + 1
      BY RunningIs, FrameParts, <1>1
    <3> QED BY <1>1, <3>1, NotPassed, PassedIs DEF IInv, Typed
  <2>3. ASSUME NEW o \in 1..new
        PROVE  releases[o] = IF \E p \in 1..count + 1 : objects'[p] = o /\ ~Passed(p)
                               THEN 0 ELSE 1
    <3>1. CASE o = new
      <4>1. releases[o] = 0 BY <1>1, <3>1 DEF IInv, NotYet, new
      <4>2. count + 1 \in 1..count + 1 BY <1>1
      <4> QED BY <1>3, <2>2, <3>1, <4>1, <4>2
    <3>2. CASE o # new
      <4>1. o \in 1..autoreleased BY <1>1, <3>2 DEF new
      <4>2. releases[o] = IF \E p \in 1..count : objects[p] = o /\ ~Passed(p) THEN 0 ELSE 1
        BY <4>1 DEF IInv, ReleasedOnce
      <4>3. (\E p \in 1..count + 1 : objects'[p] = o /\ ~Passed(p))
              <=> (\E p \in 1..count : objects[p] = o /\ ~Passed(p))
        BY <1>1, <1>3, <1>7, <3>2
      <4> QED BY <4>2, <4>3
    <3> QED BY <3>1, <3>2
  <2>4. \A o \in 1..new :
          releases'[o] = IF \E p \in 1..count + 1 : objects'[p] = o /\ ~Passed(p)'
                           THEN 0 ELSE 1
    BY <1>1, <2>1, <2>3
  <2> QED BY <1>1, <1>4, <2>4 DEF ReleasedOnce
<1> QED BY <1>5, <1>8, <1>9, <1>10, <1>11 DEF IInv

-----------------------------------------------------------------------------
(* A pop begins over the code in rest, which had its pool open.            *)
LEMMA TurnOfPop ==
    ASSUME IInv, NEW rest \in Seq(Frame), NEW f \in Frame, Nested(rest, count),
           f.at = f.from, 0 <= f.from, f.from <= count, f.free => f.from = 0,
           f.pools = << >>,
           rest[Len(rest)].at < f.from,
           \A k \in DOMAIN rest[Len(rest)].pools : rest[Len(rest)].pools[k] <= f.from,
           \A q \in Nat : PassedIn(rest, q) <=> PassedIn(frames, q),
           Turn(rest, f), UNCHANGED autoreleased
    PROVE  IInv'
<1>1. /\ count \in Nat /\ size \in Nat /\ f.from \in Nat /\ count <= size
      /\ rest[Len(rest)].at \in Int /\ Len(rest) > 0
      /\ frames \in Seq(Frame) /\ objects \in Seq(1..MaxObjects) /\ Len(objects) = count
  <2>1. Len(rest) \in 1..Len(rest) BY DEF Nested
  <2>2. rest[Len(rest)].at \in Int BY <2>1, ElementOfSeq, FrameParts
  <2> QED BY <2>1, <2>2, FrameParts DEF IInv, Typed, Array, ReleasedOnce
<1>2. CASE f.at < count
  <2> DEFINE p == f.from + 1
  <2>1. /\ releases' = [releases EXCEPT ![objects[p]] = @ + 1]
        /\ frames' = Append(rest, f) /\ UNCHANGED <<objects, count, size>>
    BY <1>2 DEF Turn
  <2>2. p \in 1..count /\ rest[Len(rest)].at + 1 < p BY <1>1, <1>2
  <2> HIDE DEF p
  <2>3. ~Passed(p)
    <3>1. p \in Nat BY <2>2
    <3>2. ~PassedIn(rest, p) BY <1>1, <2>2, <3>1, NotPassed
    <3> QED BY <3>1, <3>2, PassedIs
  <2>4. \A q \in 1..count : Passed(q)' <=> Passed(q) \/ q = p
    <3> SUFFICES ASSUME NEW q \in 1..count
                 PROVE  PassedIn(frames', q) <=> PassedIn(frames, q) \/ q = p
      BY DEF Passed, PassedIn
    <3>1. q \in Nat OBVIOUS
    <3>2. PassedIn(Append(rest, f), q) <=> PassedIn(rest, q) \/ q = f.from + 1
      BY <1>1, <3>1, PassedPop
    <3> QED BY <2>1, <3>1, <3>2 DEF p
  <2>5. frames' \in Seq(Frame) BY <2>1, AppendProperties
  <2>6. Nested(frames', count) BY <1>1, <1>2, <2>1, NestedPop
  <2> QED BY <2>1, <2>2, <2>3, <2>4, <2>5, <2>6, ReleaseKeeps
<1>3. CASE ~(f.at < count)
  <2>1. f.from = count BY <1>1, <1>3
  <2>2. /\ frames' = rest /\ count' = count /\ objects' = SubSeq(objects, 1, count)
        /\ size' = (IF f.free THEN 0 ELSE size) /\ UNCHANGED releases
    BY <1>3, <2>1 DEF Turn
  <2>3. size' \in Nat /\ count <= size' BY <1>1, <2>1, <2>2
  <2>4. count \in 0..count BY <1>1
  <2>5. \A q \in 1..count : count < q => Passed(q) BY <1>1
  <2>6. \A q \in 1..count : Passed(q)' <=> Passed(q)
    <3> SUFFICES ASSUME NEW q \in 1..count
                 PROVE  PassedIn(frames', q) <=> PassedIn(frames, q)
      BY DEF Passed, PassedIn
    <3>1. q \in Nat OBVIOUS
    <3> QED BY <2>2, <3>1
  <2> QED BY <2>2, <2>3, <2>4, <2>5, <2>6, CutKeeps
<1> QED BY <1>2, <1>3

LEMMA OneFrame ==
    ASSUME NEW f \in Frame
    PROVE  <<f>> \in Seq(Frame) /\ Len(<<f>>) = 1 /\ <<f>>[1] = f
  OBVIOUS

LEMMA MainFrame ==
    /\ Main \in Frame /\ Main.from = -1 /\ Main.at = -1 /\ Main.pools = << >>
    /\ \A n \in Nat : /\ [Main EXCEPT !.from = n, !.at = n] \in Frame
                      /\ [Main EXCEPT !.from = n, !.at = n].from = n
                      /\ [Main EXCEPT !.from = n, !.at = n].at = n
                      /\ [Main EXCEPT !.from = n, !.at = n].free = FALSE
                      /\ [Main EXCEPT !.from = n, !.at = n].pools = << >>
<1>1. << >> \in Seq(Nat) /\ -1 \in Int OBVIOUS
<1>2. Main \in Frame /\ Main.from = -1 /\ Main.at = -1 /\ Main.pools = << >>
  BY <1>1 DEF Main, Frame
<1>3. ASSUME NEW n \in Nat
      PROVE  /\ [Main EXCEPT !.from = n, !.at = n] \in Frame
             /\ [Main EXCEPT !.from = n, !.at = n].from = n
             /\ [Main EXCEPT !.from = n, !.at = n].at = n
             /\ [Main EXCEPT !.from = n, !.at = n].free = FALSE
             /\ [Main EXCEPT !.from = n, !.at = n].pools = << >>
  <2>1. n \in Int OBVIOUS
  <2> QED BY <1>1, <2>1 DEF Main, Frame
<1> QED BY <1>2, <1>3

(* The pool a pop closes, with those inside it.                            *)
LEMMA PopPoolKeeps ==
    ASSUME IInv, NEW p \in DOMAIN Running.pools,
           Turn(Resume([Running EXCEPT !.pools = SubSeq(@, 1, p - 1)]),
                [Main EXCEPT !.from = Running.pools[p], !.at = Running.pools[p]]),
           UNCHANGED autoreleased
    PROVE  IInv'
<1> DEFINE b == Running.pools[p]
           f == [Main EXCEPT !.from = b, !.at = b]
           g == [Running EXCEPT !.pools = SubSeq(@, 1, p - 1)]
           rest == Append(Front(frames), g)
           h == Running.pools
           n == Len(frames)
<1>1. /\ Running \in Frame /\ h \in Seq(Nat) /\ count \in Nat
      /\ n \in Nat /\ n > 0 /\ frames \in Seq(Frame) /\ Nested(frames, count)
      /\ Running = frames[n] /\ PoolsAbove(Running, count)
      /\ DOMAIN h = 1..Len(h) /\ Running.at \in Int
  BY RunningIs, FrameParts DEF IInv, Typed
<1>2. /\ p \in 1..Len(h) /\ b \in Nat /\ Running.at < b /\ b <= count
      /\ \A k \in 1..Len(h) : k <= p => h[k] <= b
      /\ \A k \in 1..Len(h) : h[k] \in Nat
  BY <1>1, ElementOfSeq DEF PoolsAbove
<1>3. /\ SubSeq(h, 1, p - 1) \in Seq(Nat) /\ Len(SubSeq(h, 1, p - 1)) = p - 1
      /\ \A k \in 1..p - 1 : SubSeq(h, 1, p - 1)[k] = h[k]
  <2>1. p - 1 \in Int /\ \A k \in 1..p - 1 : k \in 1..Len(h) BY <1>1, <1>2
  <2>2. \A k \in 1..p - 1 : h[k] \in Nat BY <1>2, <2>1
  <2> HIDE DEF h
  <2>3. /\ SubSeq(h, 1, p - 1) \in Seq(Nat)
        /\ Len(SubSeq(h, 1, p - 1)) = IF 1 <= p - 1 THEN p - 1 - 1 + 1 ELSE 0
        /\ \A k \in 1..p - 1 - 1 + 1 : SubSeq(h, 1, p - 1)[k] = h[1 + k - 1]
    BY <2>1, <2>2, SubSeqProperties
  <2>4. /\ p - 1 - 1 + 1 = p - 1 /\ (IF 1 <= p - 1 THEN p - 1 - 1 + 1 ELSE 0) = p - 1
        /\ \A k \in 1..p - 1 : 1 + k - 1 = k
    BY <1>2
  <2>5. Len(SubSeq(h, 1, p - 1)) = p - 1 BY <2>3, <2>4
  <2>6. \A k \in 1..p - 1 : SubSeq(h, 1, p - 1)[k] = h[k] BY <2>3, <2>4
  <2> QED BY <2>3, <2>5, <2>6
<1>4. /\ g \in Frame /\ g.from = Running.from /\ g.at = Running.at
      /\ g.free = Running.free /\ g.pools = SubSeq(h, 1, p - 1)
  <2>1. g \in Frame BY <1>1, <1>3, Zenon DEF Frame
  <2>2. /\ g.from = Running.from /\ g.at = Running.at
        /\ g.free = Running.free /\ g.pools = SubSeq(h, 1, p - 1)
    BY <1>1, Zenon DEF Frame
  <2> QED BY <2>1, <2>2
<1>5. /\ f \in Frame /\ f.from = b /\ f.at = b /\ f.free = FALSE /\ f.pools = << >>
  BY <1>2, MainFrame
<1>6. Turn(rest, f) BY DEF Resume
<1> HIDE DEF f, g, b
<1>7. DOMAIN g.pools = 1..p - 1 /\ \A k \in 1..p - 1 : g.pools[k] = h[k] /\ k \in 1..Len(h)
                                                        /\ k <= p
  BY <1>2, <1>3, <1>4
<1>8. PoolsAbove(g, count)
  BY <1>1, <1>4, <1>7 DEF PoolsAbove
<1>9. \A k \in DOMAIN g.pools : g.pools[k] <= b BY <1>2, <1>7
<1>10. Nested(rest, count) /\ rest \in Seq(Frame) /\ Len(rest) = n /\ rest[n] = g
  BY <1>1, <1>4, <1>8, NestedPools, ResumeAt
<1>11. \A q \in Nat : PassedIn(rest, q) <=> PassedIn(frames, q)
  BY <1>1, <1>4, PassedPools
<1> HIDE DEF rest, n, h
<1>12. /\ f.at = f.from /\ 0 <= f.from /\ f.from <= count
       /\ f.free => f.from = 0
       /\ rest[Len(rest)].at < f.from
       /\ \A k \in DOMAIN rest[Len(rest)].pools : rest[Len(rest)].pools[k] <= f.from
  <2>2. rest[Len(rest)] = g BY <1>10
  <2>3. g.at < f.from /\ \A k \in DOMAIN g.pools : g.pools[k] <= f.from
    BY <1>2, <1>4, <1>5, <1>9
  <2>4. ~f.free /\ f.at = f.from /\ 0 <= f.from /\ f.from <= count
    BY <1>2, <1>5
  <2> QED BY <2>2, <2>3, <2>4, Zenon
<1> QED BY <1>5, <1>6, <1>10, <1>11, <1>12, TurnOfPop

(* The end of the thread pops everything.                                  *)
LEMMA PopAllKeeps ==
    ASSUME IInv, Len(frames) = 1,
           Turn(<<Main>>, [Main EXCEPT !.from = 0, !.at = 0, !.free = TRUE]),
           UNCHANGED autoreleased
    PROVE  IInv'
<1> DEFINE f == [Main EXCEPT !.from = 0, !.at = 0, !.free = TRUE]
           rest == <<Main>>
<1>1. f \in Frame /\ f.from = 0 /\ f.at = 0 /\ f.pools = << >>
  BY MainFrame DEF Main, Frame
<1>2. /\ rest \in Seq(Frame) /\ Len(rest) = 1 /\ rest[1] = Main
      /\ Main.from = -1 /\ Main.at = -1 /\ Main.pools = << >>
  BY MainFrame, OneFrame
<1>3. Turn(rest, f) OBVIOUS
<1> HIDE DEF f, rest
<1>4. Nested(rest, count)
  BY <1>2 DEF Nested, LoopsInArray, PopsWithin, PoolsAbove
<1>5. \A q \in Nat : PassedIn(rest, q) <=> PassedIn(frames, q) BY <1>2 DEF PassedIn
<1>6. 0 <= count BY DEF IInv, Typed
<1> QED BY <1>1, <1>2, <1>3, <1>4, <1>5, <1>6, TurnOfPop, SMTT(15)

LEMMA ReturnKeeps == ASSUME IInv, ReleaseReturns PROVE IInv'
<1> DEFINE f == [Running EXCEPT !.at = @ + 1, !.pools = << >>]
           n == Len(frames)
           p == f.at + 1
<1>1. /\ n \in Nat /\ n > 1 /\ frames \in Seq(Frame) /\ Nested(frames, count)
      /\ Running = frames[n] /\ Running \in Frame /\ Running.at < count
      /\ Running.from \in Int /\ Running.at \in Int
      /\ 0 <= Running.from /\ Running.from <= Running.at
      /\ Running.free => Running.from = 0
  BY RunningIs, FrameParts DEF IInv, Typed, ReleaseReturns
<1>2. /\ count \in Nat /\ size \in Nat /\ count <= size
  BY DEF IInv, Typed, ReleasedOnce
<1>3. /\ f \in Frame /\ f.from = Running.from /\ f.at = Running.at + 1
      /\ f.free = Running.free /\ f.pools = << >>
  <2>1. Running.at + 1 \in Int /\ << >> \in Seq(Nat) BY <1>1
  <2>2. f \in Frame BY <1>1, <2>1, Zenon DEF Frame
  <2>3. /\ f.from = Running.from /\ f.at = Running.at + 1
        /\ f.free = Running.free /\ f.pools = << >>
    BY <1>1, Zenon DEF Frame
  <2> QED BY <2>2, <2>3
<1>4. Turn(Front(frames), f) /\ autoreleased' = autoreleased BY DEF ReleaseReturns
<1> HIDE DEF f
<1>5. CASE f.at < count
  <2>1. /\ releases' = [releases EXCEPT ![objects[p]] = @ + 1]
        /\ frames' = Append(Front(frames), f) /\ UNCHANGED <<objects, count, size>>
    BY <1>4, <1>5 DEF Turn
  <2>2. p \in 1..count /\ p \in Nat /\ Running.at + 1 < p BY <1>1, <1>2, <1>3, <1>5
  <2> HIDE DEF p
  <2>3. ~Passed(p)
    <3>1. ~PassedIn(frames, p) BY <1>1, <1>2, <2>2, NotPassed
    <3> QED BY <3>1, PassedIs
  <2>4. \A q \in 1..count : Passed(q)' <=> Passed(q) \/ q = p
    <3> SUFFICES ASSUME NEW q \in 1..count
                 PROVE  PassedIn(frames', q) <=> PassedIn(frames, q) \/ q = p
      BY DEF Passed, PassedIn
    <3>1. q \in Nat OBVIOUS
    <3>2. PassedIn(Append(Front(frames), f), q) <=> PassedIn(frames, q) \/ q = f.at + 1
      BY <1>1, <1>2, <1>3, <3>1, PassedTurn
    <3> QED BY <2>1, <3>2 DEF p
  <2>5. frames' \in Seq(Frame) BY <1>1, <1>3, <2>1, ResumeAt
  <2>6. Nested(frames', count) BY <1>1, <1>2, <1>3, <1>5, <2>1, NestedTurn
  <2> QED BY <1>4, <2>1, <2>2, <2>3, <2>4, <2>5, <2>6, ReleaseKeeps
<1>6. CASE ~(f.at < count)
  <2> DEFINE b == Running.from
  <2>1. /\ frames' = Front(frames) /\ count' = b /\ objects' = SubSeq(objects, 1, b)
        /\ size' = (IF f.free THEN 0 ELSE size) /\ UNCHANGED releases
    BY <1>3, <1>4, <1>6 DEF Turn
  <2>2. Running.at + 1 = count /\ b \in 0..count BY <1>1, <1>2, <1>3, <1>6
  <2>3. size' \in Nat /\ b <= size' BY <1>1, <1>2, <1>3, <2>1, <2>2
  <2>4. \A q \in 1..count : b < q => Passed(q)
    <3> SUFFICES ASSUME NEW q \in 1..count, b < q PROVE PassedIn(frames, q)
      BY PassedIs
    <3>1. q \in Nat /\ q <= Running.at + 1 BY <2>2
    <3> QED BY <1>1, <3>1, PassedEnd
  <2>5. \A q \in 1..b : Passed(q)' <=> Passed(q)
    <3> SUFFICES ASSUME NEW q \in 1..b
                 PROVE  PassedIn(frames', q) <=> PassedIn(frames, q)
      BY DEF Passed, PassedIn
    <3>1. q \in Nat /\ q <= Running.from BY <2>2
    <3> QED BY <1>1, <2>1, <3>1, PassedEnd
  <2>6. frames' \in Seq(Frame) BY <1>1, <2>1, FrontOf
  <2>7. Nested(frames', b) BY <1>1, <1>2, <2>1, NestedEnd
  <2> QED BY <1>4, <2>1, <2>2, <2>3, <2>4, <2>5, <2>6, <2>7, CutKeeps
<1> QED BY <1>5, <1>6

-----------------------------------------------------------------------------
LEMMA Inductive == IInv /\ [PoolNext]_poolVars => IInv'
<1> SUFFICES ASSUME IInv, [PoolNext]_poolVars PROVE IInv'
  OBVIOUS
<1>1. CASE Push BY <1>1, PushKeeps
<1>2. CASE Autorelease BY <1>2, AutoreleaseKeeps
<1>3. CASE Pop BY <1>3, PopPoolKeeps, PopAllKeeps DEF Pop
<1>4. CASE ReleaseReturns BY <1>4, ReturnKeeps
<1>5. CASE UNCHANGED poolVars
  <2>1. UNCHANGED <<objects, count, size, frames, autoreleased, releases>>
    BY <1>5 DEF poolVars
  <2>2. /\ Typed /\ Array /\ NotYet /\ Nested(frames, count) /\ ReleasedOnce
    BY DEF IInv
  <2>3. Typed' BY <2>1, <2>2 DEF Typed
  <2>4. Array' BY <2>1, <2>2 DEF Array
  <2>5. NotYet' BY <2>1, <2>2 DEF NotYet
  <2>6. Nested(frames', count') BY <2>1, <2>2
  <2>7. Nested(frames, count)' BY <2>6 DEF Nested, LoopsInArray, PopsWithin, PoolsAbove
  <2>8. ReleasedOnce' BY <2>1, <2>2 DEF ReleasedOnce, Passed
  <2> QED BY <2>3, <2>4, <2>5, <2>7, <2>8 DEF IInv
<1> QED BY <1>1, <1>2, <1>3, <1>4, <1>5 DEF PoolNext

LEMMA Initial == PoolInit => IInv
<1> SUFFICES ASSUME PoolInit PROVE IInv
  OBVIOUS
<1>1. /\ frames = <<Main>> /\ frames \in Seq(Frame) /\ Len(frames) = 1
      /\ frames[1] = Main /\ Main.from = -1 /\ Main.at = -1 /\ Main.pools = << >>
  BY MainFrame, OneFrame DEF PoolInit
<1>2. Nested(frames, count)
  BY <1>1 DEF PoolInit, Nested, LoopsInArray, PopsWithin, PoolsAbove
<1>3. Typed BY <1>1 DEF PoolInit, Typed
<1>4. Array BY DEF PoolInit, Array
<1>5. NotYet /\ ReleasedOnce BY DEF PoolInit, NotYet, ReleasedOnce
<1> QED BY <1>2, <1>3, <1>4, <1>5 DEF IInv

(* However pools are pushed and popped, and whatever the deallocations a   *)
(* pop causes autorelease, push and pop in turn, every object autoreleased *)
(* is released by one pop, once (autorelease.m:63, 86).                    *)
THEOREM PoolsReleaseOnce == PoolSpec => []ReleasedOnce
<1>1. IInv => ReleasedOnce BY DEF IInv
<1> QED BY <1>1, Initial, Inductive, PTL DEF PoolSpec

=============================================================================
