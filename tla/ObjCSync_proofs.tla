--------------------------- MODULE ObjCSync_proofs ---------------------------
(***************************************************************************)
(* Theorems about ObjCSync, for any number of threads, objects and locks.  *)
(***************************************************************************)
EXTENDS ObjCSync, FiniteSetTheorems, TLAPS

(* A thread in the part of a call that the mutex of the list protects has  *)
(* that mutex.                                                             *)
Protected ==
    \A t \in Threads : pc[t] \in {"lookup", "create", "unlock", "uncount"} => mutex = t

(* While it makes a new lock, there is none for its object.                *)
NoneThere ==
    \A t \in Threads : pc[t] = "create" =>
        \A l \in locks : object[l] # wants[t]

(* The locals of a call, and what the client promises: it leaves what it   *)
(* is inside of.                                                           *)
InCall ==
    \A t \in Threads :
        /\ pc[t] # "client" => wants[t] \in Objects
        /\ pc[t] \in {"exit", "unlock"} => held[t][wants[t]] > 0

(* A thread is inside an object exactly as deep as it has locked its lock. *)
InsideOwns ==
    \A t \in Threads, o \in Objects : held[t][o] > 0 =>
        \E l \in locks : object[l] = o /\ owner[l] = t

OwnerInside ==
    \A l \in locks :
        /\ object[l] \in Objects
        /\ owner[l] = None => depth[l] = 0
        /\ \A t \in Threads : owner[l] = t => depth[l] > 0 /\ depth[l] = held[t][object[l]]

IInv == /\ TypeOK /\ Protected /\ InCall /\ OneLockPerObject /\ NoFreedLockUsed
        /\ CountAgrees /\ InsideOwns /\ OwnerInside /\ NoneThere

USE SyncAssumption

-----------------------------------------------------------------------------
(* Who needs a lock is a finite set, and a thread more or less changes its *)
(* size by one.                                                            *)
LEMMA PendingFinite ==
    ASSUME NEW l PROVE IsFiniteSet(Pending(l)) /\ Cardinality(Pending(l)) \in Nat
<1>1. Pending(l) \subseteq Threads BY DEF Pending
<1>2. IsFiniteSet(Pending(l)) BY <1>1, FS_Subset
<1> QED BY <1>2, FS_CardinalityType

LEMMA OneMore ==
    ASSUME NEW S, IsFiniteSet(S), NEW x, x \notin S
    PROVE  Cardinality(S \cup {x}) = Cardinality(S) + 1
BY FS_AddElement

LEMMA OneLess ==
    ASSUME NEW S, IsFiniteSet(S), NEW x \in S
    PROVE  Cardinality(S \ {x}) = Cardinality(S) - 1
BY FS_RemoveElement

-----------------------------------------------------------------------------
(* Steps that touch neither the locks nor who needs them.                  *)
LEMMA OutsideKeeps ==
    ASSUME IInv, NEW t \in Threads,
           \/ \E o \in Objects : CallEnter(t, o) \/ CallExit(t, o)
           \/ LockList(t) \/ NotFound(t) \/ LockListAgain(t)
    PROVE  IInv'
<1>1. /\ UNCHANGED <<locks, object, count, owner, depth, at, held>>
      /\ \A u \in Threads \ {t} : pc'[u] = pc[u] /\ wants'[u] = wants[u]
      /\ pc[t] \in {"client", "enter", "lookup", "exit"}
      /\ pc'[t] \in {"enter", "lookup", "create", "exit", "unlock"}
  BY DEF CallEnter, CallExit, LockList, NotFound, LockListAgain, Goes, rmutex, IInv, TypeOK
<1>2. TypeOK'
  <2>1. wants' \in [Threads -> Objects \cup {None}]
    BY DEF CallEnter, CallExit, LockList, NotFound, LockListAgain, IInv, TypeOK
  <2>2. mutex' \in Threads \cup {None}
    BY DEF CallEnter, CallExit, LockList, NotFound, LockListAgain, IInv, TypeOK
  <2>3. pc' \in [Threads -> {"client", "enter", "lookup", "create", "lock",
                             "exit", "unlock", "uncount"}]
    BY DEF CallEnter, CallExit, LockList, NotFound, LockListAgain, Goes, IInv, TypeOK
  <2> QED BY <1>1, <2>1, <2>2, <2>3 DEF IInv, TypeOK
<1>3. Protected'
  <2>1. ASSUME NEW o \in Objects, CallEnter(t, o) \/ CallExit(t, o) PROVE Protected'
    BY <2>1 DEF CallEnter, CallExit, Goes, IInv, TypeOK, Protected
  <2>2. CASE LockList(t) \/ NotFound(t) \/ LockListAgain(t)
    BY <2>2 DEF LockList, NotFound, LockListAgain, Goes, IInv, TypeOK, Protected
  <2> QED BY <2>1, <2>2
<1>4. InCall'
  BY <1>1 DEF CallEnter, CallExit, LockList, NotFound, LockListAgain, Goes, IInv, TypeOK, InCall
<1>5. OneLockPerObject' BY <1>1 DEF IInv, OneLockPerObject
<1>6. NoFreedLockUsed' BY <1>1 DEF IInv, NoFreedLockUsed
<1>7. CountAgrees'
  <2>1. \A l : Pending(l)' = Pending(l) BY <1>1 DEF Pending
  <2> QED BY <1>1, <2>1 DEF IInv, CountAgrees
<1>8. InsideOwns' BY <1>1 DEF IInv, InsideOwns
<1>9. OwnerInside' BY <1>1 DEF IInv, OwnerInside
<1>10. NoneThere'
  <2>1. CASE NotFound(t)
    BY <1>1, <2>1 DEF NotFound, Goes, LocksOf, IInv, TypeOK, NoneThere
  <2>2. CASE ~NotFound(t)
    <3>1. pc'[t] # "create"
      BY <2>2 DEF CallEnter, CallExit, LockList, LockListAgain, Goes, IInv, TypeOK
    <3> QED BY <1>1, <3>1 DEF IInv, NoneThere
  <2> QED BY <2>1, <2>2
<1> QED BY <1>2, <1>3, <1>4, <1>5, <1>6, <1>7, <1>8, <1>9, <1>10 DEF IInv

LEMMA FoundKeeps ==
    ASSUME IInv, NEW t \in Threads, Found(t)
    PROVE  IInv'
<1>1. PICK l \in LocksOf(wants[t]) : /\ count' = [count EXCEPT ![l] = @ + 1]
                                     /\ at' = [at EXCEPT ![t] = l]
  BY DEF Found
<1>2. /\ pc[t] = "lookup" /\ pc' = [pc EXCEPT ![t] = "lock"] /\ mutex' = None
      /\ UNCHANGED <<locks, object, owner, depth, wants, held>>
      /\ l \in locks /\ l \in Locks /\ object[l] = wants[t]
  BY <1>1 DEF Found, Goes, rmutex, LocksOf, IInv, TypeOK
<1>3. TypeOK' BY <1>1, <1>2 DEF IInv, TypeOK
<1>4. Protected' BY <1>2 DEF IInv, TypeOK, Protected
<1>5. InCall' BY <1>2 DEF IInv, TypeOK, InCall
<1>6. OneLockPerObject' BY <1>2 DEF IInv, OneLockPerObject
<1>7. NoFreedLockUsed' BY <1>1, <1>2 DEF IInv, TypeOK, NoFreedLockUsed
<1>8. CountAgrees'
  <2> SUFFICES ASSUME NEW k \in locks
               PROVE  count'[k] > 0 /\ count'[k] = Cardinality(Pending(k)') + depth[k]
    BY <1>2 DEF CountAgrees
  <2>1. k \in Locks /\ count[k] \in Nat /\ count[k] > 0 /\ depth[k] \in Nat
        /\ count[k] = Cardinality(Pending(k)) + depth[k]
    BY DEF IInv, TypeOK, CountAgrees
  <2>2. CASE k = l
    <3>1. Pending(k)' = Pending(k) \cup {t} /\ t \notin Pending(k)
      BY <1>1, <1>2, <2>2 DEF Pending, IInv, TypeOK
    <3>2. Cardinality(Pending(k)') = Cardinality(Pending(k)) + 1
      BY <3>1, PendingFinite, OneMore
    <3>3. count'[k] = count[k] + 1 BY <1>1, <2>1, <2>2 DEF IInv, TypeOK
    <3> QED BY <2>1, <3>2, <3>3, PendingFinite
  <2>3. CASE k # l
    <3>1. Pending(k)' = Pending(k) BY <1>1, <1>2, <2>3 DEF Pending, IInv, TypeOK
    <3> QED BY <1>1, <2>1, <2>3, <3>1 DEF IInv, TypeOK
  <2> QED BY <2>2, <2>3
<1>9. InsideOwns' /\ OwnerInside' BY <1>2 DEF IInv, InsideOwns, OwnerInside
<1>10. NoneThere' BY <1>2 DEF IInv, TypeOK, NoneThere
<1> QED BY <1>3, <1>4, <1>5, <1>6, <1>7, <1>8, <1>9, <1>10 DEF IInv

LEMMA CreateKeeps ==
    ASSUME IInv, NEW t \in Threads, Create(t)
    PROVE  IInv'
<1>1. PICK l \in Locks \ locks :
          /\ locks' = locks \cup {l}
          /\ object' = [object EXCEPT ![l] = wants[t]]
          /\ count' = [count EXCEPT ![l] = 1]
          /\ owner' = [owner EXCEPT ![l] = None]
          /\ depth' = [depth EXCEPT ![l] = 0]
          /\ at' = [at EXCEPT ![t] = l]
  BY DEF Create
<1>2. /\ pc[t] = "create" /\ pc' = [pc EXCEPT ![t] = "lock"] /\ mutex' = None
      /\ UNCHANGED <<wants, held>>
      /\ \A k \in locks : object[k] # wants[t]
      /\ wants[t] \in Objects
  BY DEF Create, Goes, IInv, InCall, NoneThere
<1>3. TypeOK' BY <1>1, <1>2 DEF IInv, TypeOK
<1>4. Protected' BY <1>2 DEF IInv, TypeOK, Protected
<1>5. InCall' BY <1>2 DEF IInv, TypeOK, InCall
<1>6. OneLockPerObject' BY <1>1, <1>2 DEF IInv, TypeOK, OneLockPerObject
<1>7. NoFreedLockUsed' BY <1>1, <1>2 DEF IInv, TypeOK, NoFreedLockUsed
<1>8. CountAgrees'
  <2> SUFFICES ASSUME NEW k \in locks \cup {l}
               PROVE  count'[k] > 0 /\ count'[k] = Cardinality(Pending(k)') + depth'[k]
    BY <1>1 DEF CountAgrees
  <2>1. CASE k = l
    <3>1. Pending(k) = {} BY <1>1, <2>1 DEF Pending, IInv, NoFreedLockUsed
    <3>2. Pending(k)' = {t} BY <1>1, <1>2, <2>1, <3>1 DEF Pending, IInv, TypeOK
    <3>3. Cardinality(Pending(k)') = 1 BY <3>2, FS_Singleton
    <3> QED BY <1>1, <2>1, <3>3 DEF IInv, TypeOK
  <2>2. CASE k # l
    <3>1. Pending(k)' = Pending(k) BY <1>1, <1>2, <2>2 DEF Pending, IInv, TypeOK
    <3>2. k \in locks /\ k \in Locks BY <2>2 DEF IInv, TypeOK
    <3> QED BY <1>1, <2>2, <3>1, <3>2 DEF IInv, TypeOK, CountAgrees
  <2> QED BY <2>1, <2>2
<1>9. InsideOwns' /\ OwnerInside'
  <2>1. \A k \in locks : /\ k \in Locks /\ k # l
                         /\ object'[k] = object[k] /\ owner'[k] = owner[k]
                         /\ depth'[k] = depth[k]
    BY <1>1 DEF IInv, TypeOK
  <2>2. object'[l] \in Objects /\ owner'[l] = None /\ depth'[l] = 0
    BY <1>1, <1>2 DEF IInv, TypeOK
  <2>3. InsideOwns' BY <1>1, <1>2, <2>1 DEF IInv, InsideOwns
  <2>4. OwnerInside' BY <1>1, <1>2, <2>1, <2>2 DEF IInv, OwnerInside
  <2> QED BY <2>3, <2>4
<1>10. NoneThere'
  <2>1. \A u \in Threads : pc'[u] # "create"
    BY <1>2 DEF IInv, TypeOK, Protected
  <2> QED BY <2>1 DEF NoneThere
<1> QED BY <1>3, <1>4, <1>5, <1>6, <1>7, <1>8, <1>9, <1>10 DEF IInv
LEMMA LockKeeps ==
    ASSUME IInv, NEW t \in Threads, Lock(t)
    PROVE  IInv'
<1> DEFINE l == at[t]
           o == wants[t]
<1>1. /\ pc[t] = "lock" /\ pc' = [pc EXCEPT ![t] = "client"]
      /\ owner[l] \in {None, t}
      /\ owner' = [owner EXCEPT ![l] = t]
      /\ depth' = [depth EXCEPT ![l] = @ + 1]
      /\ held' = [held EXCEPT ![t][o] = @ + 1]
      /\ wants' = [wants EXCEPT ![t] = None] /\ at' = [at EXCEPT ![t] = None]
      /\ UNCHANGED <<mutex, locks, object, count>>
  BY DEF Lock, Goes, Return
<1>2. l \in locks /\ l \in Locks /\ object[l] = o /\ o \in Objects
  BY <1>1 DEF IInv, TypeOK, NoFreedLockUsed, InCall
<1>3. TypeOK' BY <1>1, <1>2 DEF IInv, TypeOK
<1>4. Protected' BY <1>1 DEF IInv, TypeOK, Protected
<1>5. InCall' BY <1>1, <1>2 DEF IInv, TypeOK, InCall
<1>6. OneLockPerObject' BY <1>1 DEF IInv, OneLockPerObject
<1>7. NoFreedLockUsed' BY <1>1 DEF IInv, TypeOK, NoFreedLockUsed
<1>8. CountAgrees'
  <2> SUFFICES ASSUME NEW k \in locks
               PROVE  count'[k] > 0 /\ count'[k] = Cardinality(Pending(k)') + depth'[k]
    BY <1>1 DEF CountAgrees
  <2>1. k \in Locks /\ count[k] \in Nat /\ count[k] > 0 /\ depth[k] \in Nat
        /\ count[k] = Cardinality(Pending(k)) + depth[k]
    BY DEF IInv, TypeOK, CountAgrees
  <2>2. CASE k = l
    <3>1. Pending(k)' = Pending(k) \ {t} /\ t \in Pending(k)
      BY <1>1, <2>2 DEF Pending, IInv, TypeOK
    <3>2. Cardinality(Pending(k)') = Cardinality(Pending(k)) - 1
      BY <3>1, PendingFinite, OneLess
    <3>3. depth'[k] = depth[k] + 1 BY <1>1, <2>1, <2>2 DEF IInv, TypeOK
    <3> QED BY <1>1, <2>1, <3>2, <3>3, PendingFinite
  <2>3. CASE k # l
    <3>1. Pending(k)' = Pending(k) BY <1>1, <2>3 DEF Pending, IInv, TypeOK
    <3> QED BY <1>1, <2>1, <2>3, <3>1 DEF IInv, TypeOK
  <2> QED BY <2>2, <2>3
<1>9. held[t][o] \in Nat /\ held'[t][o] = held[t][o] + 1
      /\ \A u \in Threads, p \in Objects : u # t \/ p # o => held'[u][p] = held[u][p]
  BY <1>1, <1>2 DEF IInv, TypeOK
<1>10. owner'[l] = t /\ depth'[l] = depth[l] + 1 /\ depth[l] \in Nat
       /\ \A k \in locks : k # l => owner'[k] = owner[k] /\ depth'[k] = depth[k]
  BY <1>1, <1>2 DEF IInv, TypeOK
<1> HIDE DEF l, o
<1>11. InsideOwns'
  <2> SUFFICES ASSUME NEW u \in Threads, NEW p \in Objects, held'[u][p] > 0
               PROVE  \E k \in locks : object[k] = p /\ owner'[k] = u
    BY <1>1 DEF InsideOwns
  <2>1. CASE u = t /\ p = o BY <1>2, <1>10, <2>1
  <2>2. CASE ~(u = t /\ p = o)
    <3>1. PICK k \in locks : object[k] = p /\ owner[k] = u
      BY <1>9, <2>2 DEF IInv, InsideOwns
    <3>2. k # l BY <1>1, <1>2, <2>2, <3>1
    <3> QED BY <1>10, <3>1, <3>2
  <2> QED BY <2>1, <2>2
<1>12. OwnerInside'
  <2> SUFFICES ASSUME NEW k \in locks
               PROVE  /\ object[k] \in Objects
                      /\ owner'[k] = None => depth'[k] = 0
                      /\ \A u \in Threads : owner'[k] = u =>
                             depth'[k] > 0 /\ depth'[k] = held'[u][object[k]]
    BY <1>1 DEF OwnerInside
  <2>1. CASE k = l
    <3>1. depth[l] = held[t][o]
      <4>1. CASE owner[l] = t BY <1>2, <4>1 DEF IInv, OwnerInside
      <4>2. CASE owner[l] = None
        <5>1. depth[l] = 0 BY <1>2, <4>2 DEF IInv, OwnerInside
        <5>2. ~(held[t][o] > 0)
          BY <1>2, <4>2 DEF IInv, InsideOwns, OneLockPerObject
        <5> QED BY <1>9, <5>1, <5>2
      <4> QED BY <1>1, <4>1, <4>2
    <3> QED BY <1>2, <1>9, <1>10, <2>1, <3>1
  <2>2. CASE k # l
    <3>1. object[k] # o BY <1>2, <2>2 DEF IInv, OneLockPerObject
    <3> QED BY <1>9, <1>10, <2>2, <3>1 DEF IInv, OwnerInside
  <2> QED BY <2>1, <2>2
<1>13. NoneThere' BY <1>1 DEF IInv, TypeOK, NoneThere
<1> QED BY <1>3, <1>4, <1>5, <1>6, <1>7, <1>8, <1>11, <1>12, <1>13 DEF IInv

LEMMA UnlockKeeps ==
    ASSUME IInv, NEW t \in Threads, Unlock(t)
    PROVE  IInv'
<1> DEFINE o == wants[t]
<1>1. PICK l \in LocksOf(o) :
          /\ owner[l] = t
          /\ owner' = IF depth[l] = 1 THEN [owner EXCEPT ![l] = None] ELSE owner
          /\ depth' = [depth EXCEPT ![l] = @ - 1]
          /\ at' = [at EXCEPT ![t] = l]
  BY DEF Unlock
<1>2. /\ pc[t] = "unlock" /\ pc' = [pc EXCEPT ![t] = "uncount"]
      /\ held' = [held EXCEPT ![t][o] = @ - 1]
      /\ UNCHANGED <<mutex, locks, object, count, wants>>
  BY DEF Unlock, Goes
<1>3. l \in locks /\ l \in Locks /\ object[l] = o /\ o \in Objects
  BY <1>1, <1>2 DEF LocksOf, IInv, TypeOK, InCall
<1>4. /\ held[t][o] \in Nat /\ depth[l] \in Nat
      /\ depth[l] > 0 /\ depth[l] = held[t][o]
  BY <1>1, <1>3 DEF IInv, TypeOK, OwnerInside
<1>5. TypeOK' BY <1>1, <1>2, <1>3, <1>4 DEF IInv, TypeOK
<1>6. Protected' BY <1>2 DEF IInv, TypeOK, Protected
<1>7. InCall'
  <2>1. \A u \in Threads \ {t} : held'[u] = held[u] BY <1>2 DEF IInv, TypeOK
  <2> QED BY <1>2, <2>1 DEF IInv, TypeOK, InCall
<1>8. OneLockPerObject' BY <1>2 DEF IInv, OneLockPerObject
<1>9. NoFreedLockUsed' BY <1>1, <1>2, <1>3 DEF IInv, TypeOK, NoFreedLockUsed
<1>10. CountAgrees'
  <2> SUFFICES ASSUME NEW k \in locks
               PROVE  count'[k] > 0 /\ count'[k] = Cardinality(Pending(k)') + depth'[k]
    BY <1>2 DEF CountAgrees
  <2>1. k \in Locks /\ count[k] \in Nat /\ count[k] > 0 /\ depth[k] \in Nat
        /\ count[k] = Cardinality(Pending(k)) + depth[k]
    BY DEF IInv, TypeOK, CountAgrees
  <2>2. CASE k = l
    <3>1. Pending(k)' = Pending(k) \cup {t} /\ t \notin Pending(k)
      BY <1>1, <1>2, <2>2 DEF Pending, IInv, TypeOK
    <3>2. Cardinality(Pending(k)') = Cardinality(Pending(k)) + 1
      BY <3>1, PendingFinite, OneMore
    <3>3. depth'[k] = depth[k] - 1 BY <1>1, <2>1, <2>2 DEF IInv, TypeOK
    <3> QED BY <1>2, <2>1, <3>2, <3>3, PendingFinite
  <2>3. CASE k # l
    <3>1. Pending(k)' = Pending(k) BY <1>1, <1>2, <2>3 DEF Pending, IInv, TypeOK
    <3> QED BY <1>1, <1>2, <2>1, <2>3, <3>1 DEF IInv, TypeOK
  <2> QED BY <2>2, <2>3
<1>11. held'[t][o] = held[t][o] - 1
       /\ \A u \in Threads, p \in Objects : u # t \/ p # o => held'[u][p] = held[u][p]
  BY <1>2, <1>3 DEF IInv, TypeOK
<1>12. /\ depth'[l] = depth[l] - 1
       /\ owner'[l] = IF depth[l] = 1 THEN None ELSE t
       /\ \A k \in locks : k # l => owner'[k] = owner[k] /\ depth'[k] = depth[k]
  BY <1>1, <1>3 DEF IInv, TypeOK
<1> HIDE DEF o
<1>13. InsideOwns'
  <2> SUFFICES ASSUME NEW u \in Threads, NEW p \in Objects, held'[u][p] > 0
               PROVE  \E k \in locks : object[k] = p /\ owner'[k] = u
    BY <1>2 DEF InsideOwns
  <2>1. CASE u = t /\ p = o
    <3>1. depth[l] # 1 BY <1>4, <1>11, <2>1
    <3> QED BY <1>3, <1>12, <2>1, <3>1
  <2>2. CASE ~(u = t /\ p = o)
    <3>1. PICK k \in locks : object[k] = p /\ owner[k] = u
      BY <1>11, <2>2 DEF IInv, InsideOwns
    <3>2. k # l BY <1>1, <1>3, <2>2, <3>1
    <3> QED BY <1>12, <3>1, <3>2
  <2> QED BY <2>1, <2>2
<1>14. OwnerInside'
  <2> SUFFICES ASSUME NEW k \in locks
               PROVE  /\ object[k] \in Objects
                      /\ owner'[k] = None => depth'[k] = 0
                      /\ \A u \in Threads : owner'[k] = u =>
                             depth'[k] > 0 /\ depth'[k] = held'[u][object[k]]
    BY <1>2 DEF OwnerInside
  <2>1. CASE k = l BY <1>3, <1>4, <1>11, <1>12, <2>1
  <2>2. CASE k # l
    <3>1. object[k] # o BY <1>3, <2>2 DEF IInv, OneLockPerObject
    <3> QED BY <1>11, <1>12, <2>2, <3>1 DEF IInv, OwnerInside
  <2> QED BY <2>1, <2>2
<1>15. NoneThere' BY <1>2 DEF IInv, TypeOK, NoneThere
<1> QED BY <1>5, <1>6, <1>7, <1>8, <1>9, <1>10, <1>13, <1>14, <1>15 DEF IInv

(* Whoever frees a lock is the only one to need it.                        *)
LEMMA LastPending ==
    ASSUME IInv, NEW t \in Threads, pc[t] = "uncount", count[at[t]] = 1
    PROVE  Pending(at[t]) = {t} /\ depth[at[t]] = 0
<1> DEFINE l == at[t]
<1>1. l \in locks /\ l \in Locks /\ t \in Pending(l)
  BY DEF IInv, TypeOK, NoFreedLockUsed, Pending
<1>2. depth[l] \in Nat /\ 1 = Cardinality(Pending(l)) + depth[l]
  BY <1>1 DEF IInv, TypeOK, CountAgrees
<1>3. Pending(l) # {} BY <1>1
<1>4. Cardinality(Pending(l)) # 0 BY <1>3, PendingFinite, FS_EmptySet
<1>5. Cardinality(Pending(l)) = 1 /\ depth[l] = 0 BY <1>2, <1>4, PendingFinite
<1>6. \E u : Pending(l) = {u} BY <1>5, PendingFinite, FS_Singleton, Zenon
<1> QED BY <1>1, <1>5, <1>6

LEMMA UncountKeeps ==
    ASSUME IInv, NEW t \in Threads, Uncount(t)
    PROVE  IInv'
<1> DEFINE l == at[t]
<1>1. /\ pc[t] = "uncount" /\ pc' = [pc EXCEPT ![t] = "client"]
      /\ count' = [count EXCEPT ![l] = @ - 1]
      /\ mutex' = None
      /\ wants' = [wants EXCEPT ![t] = None] /\ at' = [at EXCEPT ![t] = None]
      /\ UNCHANGED <<owner, depth, held>>
  BY DEF Uncount, Release, Goes, Return, rmutex
<1>2. l \in locks /\ l \in Locks /\ object[l] = wants[t]
  BY <1>1 DEF IInv, TypeOK, NoFreedLockUsed
<1>3. \/ count[l] # 1 /\ locks' = locks /\ object' = object
      \/ /\ count[l] = 1 /\ locks' = locks \ {l}
         /\ object' = [object EXCEPT ![l] = None]
  BY DEF Uncount, Release
<1>4. /\ locks' \subseteq locks /\ locks \ {l} \subseteq locks'
      /\ \A k \in locks' : object'[k] = object[k] /\ k \in Locks
      /\ count[l] \in Nat /\ count[l] > 0
  BY <1>2, <1>3 DEF IInv, TypeOK, CountAgrees
<1>5. TypeOK'
  <2>1. count' \in [Locks -> Nat] BY <1>1, <1>2, <1>4 DEF IInv, TypeOK
  <2>2. object' \in [Locks -> Objects \cup {None}] BY <1>3 DEF IInv, TypeOK
  <2> QED BY <1>1, <1>4, <2>1, <2>2 DEF IInv, TypeOK
<1>6. Protected' BY <1>1 DEF IInv, TypeOK, Protected
<1>7. InCall' BY <1>1 DEF IInv, TypeOK, InCall
<1>8. OneLockPerObject' BY <1>4 DEF IInv, OneLockPerObject
<1>9. NoFreedLockUsed'
  <2> SUFFICES ASSUME NEW u \in Threads \ {t}, pc[u] \in {"lock", "uncount"}
               PROVE  at[u] \in locks' /\ object'[at[u]] = wants[u]
    BY <1>1 DEF NoFreedLockUsed, IInv, TypeOK
  <2>1. at[u] \in locks /\ object[at[u]] = wants[u] BY DEF IInv, NoFreedLockUsed
  <2>2. CASE at[u] = l
    <3>1. {t, u} \subseteq Pending(l) BY <1>1, <2>2 DEF Pending
    <3>2. count[l] # 1 BY <1>1, <3>1, LastPending
    <3> QED BY <1>3, <2>1, <3>2
  <2>3. CASE at[u] # l BY <1>4, <2>1, <2>3
  <2> QED BY <2>2, <2>3
<1>10. CountAgrees'
  <2> SUFFICES ASSUME NEW k \in locks'
               PROVE  count'[k] > 0 /\ count'[k] = Cardinality(Pending(k)') + depth[k]
    BY <1>1 DEF CountAgrees
  <2>1. k \in Locks /\ count[k] \in Nat /\ count[k] > 0 /\ depth[k] \in Nat
        /\ count[k] = Cardinality(Pending(k)) + depth[k]
    BY <1>4 DEF IInv, TypeOK, CountAgrees
  <2>2. CASE k = l
    <3>1. Pending(k)' = Pending(k) \ {t} /\ t \in Pending(k)
      BY <1>1, <1>2, <2>2 DEF Pending, IInv, TypeOK
    <3>2. Cardinality(Pending(k)') = Cardinality(Pending(k)) - 1
      BY <3>1, PendingFinite, OneLess
    <3>3. count'[k] = count[k] - 1 BY <1>1, <2>1, <2>2 DEF IInv, TypeOK
    <3>4. count[k] # 1 BY <1>3, <2>2
    <3> QED BY <2>1, <3>2, <3>3, <3>4, PendingFinite
  <2>3. CASE k # l
    <3>1. Pending(k)' = Pending(k) BY <1>1, <2>3 DEF Pending, IInv, TypeOK
    <3> QED BY <1>1, <2>1, <2>3, <3>1 DEF IInv, TypeOK
  <2> QED BY <2>2, <2>3
<1>11. InsideOwns'
  <2> SUFFICES ASSUME NEW u \in Threads, NEW p \in Objects, held[u][p] > 0
               PROVE  \E k \in locks' : object'[k] = p /\ owner[k] = u
    BY <1>1 DEF InsideOwns
  <2>1. PICK k \in locks : object[k] = p /\ owner[k] = u BY DEF IInv, InsideOwns
  <2>2. k \in locks'
    <3>1. depth[k] > 0 BY <2>1 DEF IInv, OwnerInside
    <3>2. CASE k = l
      <4>1. depth[l] # 0 BY <3>1, <3>2
      <4>2. count[l] # 1 BY <1>1, <4>1, LastPending
      <4> QED BY <1>3, <4>2
    <3> QED BY <1>4, <3>2
  <2> QED BY <1>4, <2>1, <2>2
<1>12. OwnerInside' BY <1>1, <1>4 DEF IInv, OwnerInside
<1>13. NoneThere' BY <1>1, <1>4 DEF IInv, TypeOK, NoneThere
<1> QED BY <1>5, <1>6, <1>7, <1>8, <1>9, <1>10, <1>11, <1>12, <1>13 DEF IInv

-----------------------------------------------------------------------------
LEMMA Initial == Init => IInv
<1> SUFFICES ASSUME Init PROVE IInv
  OBVIOUS
<1>1. TypeOK BY DEF Init, TypeOK
<1>2. Protected /\ InCall /\ OneLockPerObject /\ NoFreedLockUsed /\ CountAgrees
  BY DEF Init, Protected, InCall, OneLockPerObject, NoFreedLockUsed, CountAgrees
<1>3. InsideOwns /\ OwnerInside /\ NoneThere
  BY DEF Init, InsideOwns, OwnerInside, NoneThere
<1> QED BY <1>1, <1>2, <1>3 DEF IInv

LEMMA Inductive == IInv /\ [Next]_vars => IInv'
<1> SUFFICES ASSUME IInv, [Next]_vars PROVE IInv'
  OBVIOUS
<1>1. ASSUME NEW t \in Threads, Call(t) \/ Step(t) PROVE IInv'
  <2>1. CASE Call(t) \/ LockList(t) \/ NotFound(t) \/ LockListAgain(t)
    BY <2>1, OutsideKeeps DEF Call
  <2>2. CASE Found(t) BY <2>2, FoundKeeps
  <2>3. CASE Create(t) BY <2>3, CreateKeeps
  <2>4. CASE Lock(t) BY <2>4, LockKeeps
  <2>5. CASE Unlock(t) BY <2>5, UnlockKeeps
  <2>6. CASE Uncount(t) BY <2>6, UncountKeeps
  <2> QED BY <1>1, <2>1, <2>2, <2>3, <2>4, <2>5, <2>6 DEF Step
<1>2. CASE UNCHANGED vars
  <2>1. UNCHANGED <<mutex, locks, object, count, owner, depth, pc, wants, at, held>>
    BY <1>2 DEF vars, rmutex
  <2>2. \A l : Pending(l)' = Pending(l) BY <2>1 DEF Pending
  <2>3. TypeOK' /\ Protected' /\ InCall' /\ OneLockPerObject' /\ NoFreedLockUsed'
    BY <2>1 DEF IInv, TypeOK, Protected, InCall, OneLockPerObject, NoFreedLockUsed
  <2>4. CountAgrees' /\ InsideOwns' /\ OwnerInside' /\ NoneThere'
    BY <2>1, <2>2 DEF IInv, CountAgrees, InsideOwns, OwnerInside, NoneThere
  <2> QED BY <2>3, <2>4 DEF IInv
<1> QED BY <1>1, <1>2 DEF Next

LEMMA Invariance == Spec => []IInv
BY Initial, Inductive, PTL DEF Spec

(* The typing: a lock that is allocated is free or has one owner, and the  *)
(* list never holds more locks than there are to allocate.                 *)
THEOREM TypeCorrect == Spec => []TypeOK
<1>1. IInv => TypeOK BY DEF IInv
<1> QED BY <1>1, Invariance, PTL

(* No interleaving of searching the list and allocating (synchronized.m:   *)
(* 62, 79) puts a second lock for an object into it.                       *)
THEOREM LocksAreUnique == Spec => []OneLockPerObject
<1>1. IInv => OneLockPerObject BY DEF IInv
<1> QED BY <1>1, Invariance, PTL

(* The lock a thread waits for outside the mutex of the list, or gives up  *)
(* its part of, was not freed meanwhile (synchronized.m:67, 117).          *)
THEOREM LocksStayAllocated == Spec => []NoFreedLockUsed
<1>1. IInv => NoFreedLockUsed BY DEF IInv
<1> QED BY <1>1, Invariance, PTL

(* A lock is in the list exactly as long as it is needed, and its count    *)
(* says by how many (synchronized.m:62, 117).                              *)
THEOREM CountsAreExact == Spec => []CountAgrees
<1>1. IInv => CountAgrees BY DEF IInv
<1> QED BY <1>1, Invariance, PTL

(* objc_sync_exit() finds the lock of an object that was entered           *)
(* (synchronized.m:108, 135).                                              *)
THEOREM ExitsFindTheirLock == Spec => []ExitsFind
<1>1. IInv => ExitsFind
  BY DEF IInv, InCall, InsideOwns, ExitsFind, LocksOf
<1> QED BY <1>1, Invariance, PTL

(* objc_sync_enter() and objc_sync_exit() implement @synchronized: no two  *)
(* threads are ever inside the same object, and one that entered twice is  *)
(* inside until it has left twice.                                         *)
THEOREM ImplementsMonitors == Spec => IsMonitors
<1>1. Init => M!Init BY DEF Init, M!Init
<1>2. IInv /\ [Next]_vars => [M!Next]_held
  <2> SUFFICES ASSUME IInv, [Next]_vars PROVE [M!Next]_held
    OBVIOUS
  <2>1. ASSUME NEW t \in Threads, Lock(t) PROVE M!Next
    <3>1. wants[t] \in Objects /\ pc[t] = "lock"
      BY <2>1 DEF Lock, Goes, IInv, InCall
    <3>2. \A u \in Threads \ {t} : held[u][wants[t]] = 0
      <4> SUFFICES ASSUME NEW u \in Threads \ {t}, held[u][wants[t]] # 0 PROVE FALSE
        OBVIOUS
      <4>1. held[u][wants[t]] > 0 BY <3>1 DEF IInv, TypeOK
      <4>2. PICK l \in locks : object[l] = wants[t] /\ owner[l] = u
        BY <3>1, <4>1 DEF IInv, InsideOwns
      <4>3. l = at[t]
        BY <3>1, <4>2 DEF IInv, NoFreedLockUsed, OneLockPerObject
      <4> QED BY <2>1, <4>2, <4>3 DEF Lock
    <3> QED BY <2>1, <3>1, <3>2 DEF Lock, M!Next, M!Enter
  <2>2. ASSUME NEW t \in Threads, Unlock(t) PROVE M!Next
    <3>1. wants[t] \in Objects /\ held[t][wants[t]] > 0
      BY <2>2 DEF Unlock, Goes, IInv, InCall
    <3> QED BY <2>2, <3>1 DEF Unlock, M!Next, M!Leave
  <2>3. ASSUME NEW t \in Threads,
               \/ Call(t) \/ LockList(t) \/ NotFound(t) \/ LockListAgain(t)
               \/ Found(t) \/ Create(t) \/ Uncount(t)
        PROVE  UNCHANGED held
    BY <2>3 DEF Call, CallEnter, CallExit, LockList, NotFound, LockListAgain, Found,
                Create, Uncount
  <2>4. CASE UNCHANGED vars BY <2>4 DEF vars
  <2> QED BY <2>1, <2>2, <2>3, <2>4 DEF Next, Step
<1> QED BY <1>1, <1>2, Invariance, PTL DEF Spec, M!Spec, IsMonitors
=============================================================================
