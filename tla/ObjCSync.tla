------------------------------ MODULE ObjCSync ------------------------------
(***************************************************************************)
(* The locks behind @synchronized (src/runtime/synchronized.m): a list,    *)
(* under a mutex, of one recursive mutex for each object that is in use.   *)
(* A lock is made when the first thread asks for its object and freed when *)
(* the last one is done with it; the wait for its mutex happens outside    *)
(* the mutex of the list.                                                  *)
(*                                                                         *)
(* The list is a set: the search stops at the one lock with the object.    *)
(* The memory of a lock that was freed may be handed out again at once.    *)
(***************************************************************************)
EXTENDS Integers, FiniteSets

CONSTANTS Threads, Objects,
          Locks,         (* the memory for locks                           *)
          MaxNesting,    (* how often a thread may be inside one object    *)
          None

ASSUME SyncAssumption == /\ None \notin Threads \cup Objects \cup Locks
                         /\ IsFiniteSet(Threads)

VARIABLES mutex,     (* the thread that has the mutex of the list          *)
          locks,     (* the locks in the list                              *)
          object, count,    (* of each lock                                *)
          owner, depth,     (* of its recursive mutex                      *)
          pc,        (* what each thread is doing                          *)
          wants,     (* the object it called objc_sync_enter or _exit with *)
          at,        (* the lock it found                                  *)
          held       (* how often it is inside each object                 *)

rmutex == <<owner, depth>>
vars == <<mutex, locks, object, count, rmutex, pc, wants, at, held>>

Init == /\ mutex = None
        /\ locks = {}
        /\ object = [l \in Locks |-> None]
        /\ count = [l \in Locks |-> 0]
        /\ owner = [l \in Locks |-> None]
        /\ depth = [l \in Locks |-> 0]
        /\ pc = [t \in Threads |-> "client"]
        /\ wants = [t \in Threads |-> None]
        /\ at = [t \in Threads |-> None]
        /\ held = [t \in Threads |-> [o \in Objects |-> 0]]

Goes(t, from, to) == pc[t] = from /\ pc' = [pc EXCEPT ![t] = to]

(* The locals of a call end with it.                                       *)
Return(t) == /\ wants' = [wants EXCEPT ![t] = None]
             /\ at' = [at EXCEPT ![t] = None]

LocksOf(o) == {l \in locks : object[l] = o}

-----------------------------------------------------------------------------
(* objc_sync_enter().                                                      *)

CallEnter(t, o) ==
    /\ Goes(t, "client", "enter")
    /\ held[t][o] < MaxNesting
    /\ wants' = [wants EXCEPT ![t] = o]
    /\ UNCHANGED <<mutex, locks, object, count, rmutex, at, held>>

(* Variants of the definition that follows them, here and below: the slips *)
(* of the code the properties are validated against.                       *)
LookUpUnlocked(t) ==
    /\ Goes(t, "enter", "lookup")
    /\ mutex' = t
    /\ UNCHANGED <<locks, object, count, rmutex, wants, at, held>>

LockList(t) ==
    /\ Goes(t, "enter", "lookup")
    /\ mutex = None /\ mutex' = t
    /\ UNCHANGED <<locks, object, count, rmutex, wants, at, held>>

FoundUncounted(t) ==
    /\ Goes(t, "lookup", "lock")
    /\ \E l \in LocksOf(wants[t]) : at' = [at EXCEPT ![t] = l]
    /\ mutex' = None
    /\ UNCHANGED <<locks, object, count, rmutex, wants, held>>

(* The lock is kept, by its count, until this thread is done with it.      *)
Found(t) ==
    /\ Goes(t, "lookup", "lock")
    /\ \E l \in LocksOf(wants[t]) : /\ count' = [count EXCEPT ![l] = @ + 1]
                                    /\ at' = [at EXCEPT ![t] = l]
    /\ mutex' = None
    /\ UNCHANGED <<locks, object, rmutex, wants, held>>

NotFound(t) ==
    /\ Goes(t, "lookup", "create")
    /\ LocksOf(wants[t]) = {}
    /\ UNCHANGED <<mutex, locks, object, count, rmutex, wants, at, held>>

CreateUncounted(t) ==
    /\ Goes(t, "create", "lock")
    /\ \E l \in Locks \ locks :
          /\ locks' = locks \cup {l}
          /\ object' = [object EXCEPT ![l] = wants[t]]
          /\ count' = [count EXCEPT ![l] = 0]
          /\ owner' = [owner EXCEPT ![l] = None]
          /\ depth' = [depth EXCEPT ![l] = 0]
          /\ at' = [at EXCEPT ![t] = l]
    /\ mutex' = None
    /\ UNCHANGED <<wants, held>>

Create(t) ==
    /\ Goes(t, "create", "lock")
    /\ \E l \in Locks \ locks :
          /\ locks' = locks \cup {l}
          /\ object' = [object EXCEPT ![l] = wants[t]]
          /\ count' = [count EXCEPT ![l] = 1]
          /\ owner' = [owner EXCEPT ![l] = None]
          /\ depth' = [depth EXCEPT ![l] = 0]
          /\ at' = [at EXCEPT ![t] = l]
    /\ mutex' = None
    /\ UNCHANGED <<wants, held>>

(* of_rmutex_lock(), outside the mutex of the list; then it has entered.   *)
Lock(t) ==
    /\ Goes(t, "lock", "client")
    /\ owner[at[t]] \in {None, t}
    /\ owner' = [owner EXCEPT ![at[t]] = t]
    /\ depth' = [depth EXCEPT ![at[t]] = @ + 1]
    /\ held' = [held EXCEPT ![t][wants[t]] = @ + 1]
    /\ Return(t)
    /\ UNCHANGED <<mutex, locks, object, count>>

-----------------------------------------------------------------------------
(* objc_sync_exit().                                                       *)

CallExit(t, o) ==
    /\ Goes(t, "client", "exit")
    /\ held[t][o] > 0
    /\ wants' = [wants EXCEPT ![t] = o]
    /\ UNCHANGED <<mutex, locks, object, count, rmutex, at, held>>

LockListAgain(t) ==
    /\ Goes(t, "exit", "unlock")
    /\ mutex = None /\ mutex' = t
    /\ UNCHANGED <<locks, object, count, rmutex, wants, at, held>>

UnlockAtOnce(t) ==
    /\ Goes(t, "unlock", "uncount")
    /\ \E l \in LocksOf(wants[t]) :
          /\ owner[l] = t
          /\ owner' = [owner EXCEPT ![l] = None]
          /\ depth' = [depth EXCEPT ![l] = @ - 1]
          /\ at' = [at EXCEPT ![t] = l]
    /\ held' = [held EXCEPT ![t][wants[t]] = @ - 1]
    /\ UNCHANGED <<mutex, locks, object, count, wants>>

(* of_rmutex_unlock(), with the mutex of the list; then it has left.       *)
Unlock(t) ==
    /\ Goes(t, "unlock", "uncount")
    /\ \E l \in LocksOf(wants[t]) :
          /\ owner[l] = t
          /\ owner' = IF depth[l] = 1 THEN [owner EXCEPT ![l] = None] ELSE owner
          /\ depth' = [depth EXCEPT ![l] = @ - 1]
          /\ at' = [at EXCEPT ![t] = l]
    /\ held' = [held EXCEPT ![t][wants[t]] = @ - 1]
    /\ UNCHANGED <<mutex, locks, object, count, wants>>

(* The last thread to need the lock frees it.                              *)
Release(l) ==
    /\ count' = [count EXCEPT ![l] = @ - 1]
    /\ IF count[l] = 1 THEN /\ locks' = locks \ {l}
                            /\ object' = [object EXCEPT ![l] = None]
                       ELSE UNCHANGED <<locks, object>>

UncountAndKeepMutex(t) ==
    /\ Goes(t, "uncount", "client")
    /\ Release(at[t])
    /\ mutex' = IF count'[at[t]] = 0 THEN mutex ELSE None
    /\ Return(t)
    /\ UNCHANGED <<rmutex, held>>

Uncount(t) ==
    /\ Goes(t, "uncount", "client")
    /\ Release(at[t])
    /\ mutex' = None
    /\ Return(t)
    /\ UNCHANGED <<rmutex, held>>

Step(t) == \/ LockList(t) \/ Found(t) \/ NotFound(t) \/ Create(t) \/ Lock(t)
           \/ LockListAgain(t) \/ Unlock(t) \/ Uncount(t)

Call(t) == \E o \in Objects : CallEnter(t, o) \/ CallExit(t, o)

Next == \E t \in Threads : Call(t) \/ Step(t)

Spec == Init /\ [][Next]_vars

(* A thread that waits for a mutex which is free again and again gets it.  *)
FairSpec == Spec /\ \A t \in Threads : SF_vars(Step(t))

-----------------------------------------------------------------------------
TypeOK ==
    /\ mutex \in Threads \cup {None}
    /\ locks \subseteq Locks
    /\ object \in [Locks -> Objects \cup {None}]
    /\ count \in [Locks -> Nat]
    /\ owner \in [Locks -> Threads \cup {None}]
    /\ depth \in [Locks -> Nat]
    /\ pc \in [Threads -> {"client", "enter", "lookup", "create", "lock",
                           "exit", "unlock", "uncount"}]
    /\ wants \in [Threads -> Objects \cup {None}]
    /\ at \in [Threads -> Locks \cup {None}]
    /\ held \in [Threads -> [Objects -> Nat]]

(* Two threads that ask for an object at the same time get the same lock.  *)
OneLockPerObject ==
    \A k, l \in locks : object[k] = object[l] => k = l

(* A thread that waits for a mutex outside the mutex of the list, or is    *)
(* about to give up its part in a lock, finds the lock it was given: it    *)
(* was not freed, and not made anew for another object.                    *)
NoFreedLockUsed ==
    \A t \in Threads : pc[t] \in {"lock", "uncount"} =>
                          at[t] \in locks /\ object[at[t]] = wants[t]

(* Those who need a lock: a thread about to lock it or that has not given  *)
(* up its part yet; a thread inside counts once for each time it entered.  *)
Pending(l) == {t \in Threads : pc[t] \in {"lock", "uncount"} /\ at[t] = l}

(* A lock is in the list as long as somebody needs it and no longer: its   *)
(* count is the number of those, and is not 0.                             *)
CountAgrees ==
    \A l \in locks : /\ count[l] > 0
                     /\ count[l] = Cardinality(Pending(l)) + depth[l]

(* "objc_sync_exit() was called for an object not locked!"                 *)
(* (synchronized.m:135) is never said of an object that is: a thread that  *)
(* leaves finds the lock, and finds it its own.                            *)
ExitsFind ==
    \A t \in Threads : pc[t] = "unlock" => \E l \in LocksOf(wants[t]) : owner[l] = t

(* objc_sync_enter() and objc_sync_exit() implement @synchronized.         *)
M == INSTANCE Monitors
IsMonitors == M!Spec

(* Under FairSpec.  A call returns: one of objc_sync_exit() always, and    *)
(* one of objc_sync_enter() if nobody stays inside the object for ever.    *)
Returns ==
    \A t \in Threads, o \in Objects :
        []<>(\A u \in Threads : held[u][o] = 0)
            => (pc[t] # "client" /\ wants[t] = o ~> pc[t] = "client")
=============================================================================
