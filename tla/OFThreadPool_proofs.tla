------------------------ MODULE OFThreadPool_proofs ------------------------
(***************************************************************************)
(* Theorems about OFThreadPool, for every set of workers, clients, jobs.   *)
(***************************************************************************)
EXTENDS OFThreadPool, FiniteSetTheorems, SequenceTheorems, TLAPS

(* The count mutex is held exactly in the sections that take it: a worker  *)
(* from LockCount to Increment, and -[dealloc] while it marks.             *)
CountMutexInv ==
    /\ \A w \in Workers : pc[w] \in {"inCount", "increment"} => countMutex = w
    /\ \A c \in Clients : pc[c] = "freeMark" => countMutex = c

(* A worker about to increment has seen its flag clear under the mutex.    *)
IncrementInv == \A w \in Workers : pc[w] = "increment" => ~terminate[w]

(* From the end of the marking on every worker is marked.                  *)
MarkedInv == \A w \in Workers :
                 freed \/ (\E c \in Clients : pc[c] = "freeWake")
                     => terminate[w]

MutexInv == CountMutexInv /\ IncrementInv /\ MarkedInv

(* A dispatch under way has a job in its hands.                            *)
HandsInv == \A c \in Clients :
                pc[c] \in {"dispatchCount", "dispatchQueue"} => job[c] \in Jobs

PC == WorkerPC \cup ClientPC

(* A signal moves at most one waiting thread, and only from where it waits.*)
LEMMA SignalMoves ==
    ASSUME NEW p \in [Threads -> PC], NEW waiting, NEW woken \in PC,
           NEW q \in Signal(p, waiting, woken)
    PROVE  /\ q \in [Threads -> PC]
           /\ \A t \in Threads : q[t] = p[t] \/ (p[t] = waiting /\ q[t] = woken)
<1>1. CASE q = p
  BY <1>1
<1>2. CASE \E t \in Threads : p[t] = waiting /\ q = [p EXCEPT ![t] = woken]
  BY <1>2
<1> QED BY <1>1, <1>2 DEF Signal

(* What -[signal] does to the program counters inside the two actions that *)
(* signal.                                                                 *)
LEMMA IncrementMoves ==
    ASSUME TypeOK, NEW w \in Workers, Increment(w)
    PROVE  /\ pc' \in [Threads -> PC]
           /\ pc'[w] = "lockQueue"
           /\ \A t \in Threads \ {w} :
                 pc'[t] = pc[t] \/ (pc[t] = "countWait" /\ pc'[t] = "waitLock")
<1> DEFINE p == [pc EXCEPT ![w] = "lockQueue"]
<1>1. /\ p \in [Threads -> PC]
      /\ p[w] = "lockQueue"
      /\ \A t \in Threads \ {w} : p[t] = pc[t]
      /\ w \in Threads
      /\ "waitLock" \in PC
  BY DEF TypeOK, Threads, PC, WorkerPC, ClientPC
<1>2. pc' \in Signal(p, "countWait", "waitLock")
  BY DEF Increment
<1> HIDE DEF p
<1>3. /\ pc' \in [Threads -> PC]
      /\ \A t \in Threads : \/ pc'[t] = p[t]
                            \/ p[t] = "countWait" /\ pc'[t] = "waitLock"
  BY ONLY <1>1, <1>2, SignalMoves
<1> QED BY ONLY <1>1, <1>3

LEMMA DispatchQueueMoves ==
    ASSUME TypeOK, NEW c \in Clients, DispatchQueue(c)
    PROVE  /\ pc' \in [Threads -> PC]
           /\ pc'[c] = "idle"
           /\ \A t \in Threads \ {c} :
                 pc'[t] = pc[t] \/ (pc[t] = "queueWait" /\ pc'[t] = "lockQueue")
<1> DEFINE p == [pc EXCEPT ![c] = "idle"]
<1>1. /\ p \in [Threads -> PC]
      /\ p[c] = "idle"
      /\ \A t \in Threads \ {c} : p[t] = pc[t]
      /\ c \in Threads
      /\ "lockQueue" \in PC
  BY DEF TypeOK, Threads, PC, WorkerPC, ClientPC
<1>2. pc' \in Signal(p, "queueWait", "lockQueue")
  BY DEF DispatchQueue
<1> HIDE DEF p
<1>3. /\ pc' \in [Threads -> PC]
      /\ \A t \in Threads : \/ pc'[t] = p[t]
                            \/ p[t] = "queueWait" /\ pc'[t] = "lockQueue"
  BY ONLY <1>1, <1>2, SignalMoves
<1> QED BY ONLY <1>1, <1>3

(* The typing invariant is inductive together with HandsInv: only a client *)
(* that has a job appends to the queue.                                    *)
LEMMA TypeInvariant == Spec => [](TypeOK /\ HandsInv)
<1>1. Init => TypeOK
  <2> SUFFICES ASSUME Init PROVE TypeOK
    OBVIOUS
  <2>1. /\ pc \in [Threads -> PC]
        /\ \A w \in Workers : pc[w] \in WorkerPC
        /\ \A c \in Clients : pc[c] \in ClientPC
    BY ThreadAssumption DEF Init, Threads, PC, WorkerPC, ClientPC
  <2>2. /\ job \in [Threads -> Jobs \cup {NoJob}]
        /\ terminate \in [Workers -> BOOLEAN]
        /\ performed \in [Jobs -> Nat]
    BY DEF Init
  <2>3. queue \in Seq(Jobs)
    BY DEF Init
  <2>4. /\ count \in Nat
        /\ doneCount \in Nat
        /\ queueMutex \in Threads \cup {NoThread}
        /\ countMutex \in Threads \cup {NoThread}
    BY DEF Init
  <2>5. /\ refs \in SUBSET Clients
        /\ freed \in BOOLEAN
        /\ unborn \in SUBSET Jobs
    BY DEF Init
  <2> QED BY <2>1, <2>2, <2>3, <2>4, <2>5 DEF TypeOK, PC
<1>2. TypeOK /\ HandsInv /\ [Next]_vars => TypeOK'
  <2> SUFFICES ASSUME TypeOK, HandsInv, [Next]_vars PROVE TypeOK'
    OBVIOUS
  <2> USE ThreadAssumption DEF TypeOK, Threads, WorkerPC, ClientPC, Goto
  <2>1. ASSUME NEW w \in Workers, WorkerStep(w) PROVE TypeOK'
    <3>1. CASE Begin(w) \/ BeforePerform(w) \/ AfterPerform(w)
      BY <3>1 DEF Begin, BeforePerform, AfterPerform, CheckTerminate
    <3>2. CASE LockQueue(w) BY <3>2 DEF LockQueue
    <3>3. CASE LeaveQueue(w) BY <3>3 DEF LeaveQueue
    <3>4. CASE WaitForJob(w) BY <3>4 DEF WaitForJob
    <3>5. CASE TakeJob(w) BY <3>5 DEF TakeJob
    <3>6. CASE Perform(w)
      <4>1. performed' \in [Jobs -> Nat]
        <5>1. \A j \in Jobs : performed[j] + 1 \in Nat  OBVIOUS
        <5> QED BY <3>6, <5>1 DEF Perform
      <4> QED BY <3>6, <4>1 DEF Perform
    <3>7. CASE LockCount(w) BY <3>7 DEF LockCount
    <3>8. CASE CheckCount(w) BY <3>8 DEF CheckCount
    <3>9. CASE Increment(w)
      <4>1. /\ pc' \in [Threads -> PC]
            /\ \A v \in Workers : pc'[v] \in WorkerPC
            /\ \A c \in Clients : pc'[c] \in ClientPC
        BY <3>9, IncrementMoves
      <4>2. doneCount' \in Nat
        BY <3>9 DEF Increment
      <4>3. job' \in [Threads -> Jobs \cup {NoJob}]
        BY <3>9 DEF Increment
      <4> QED BY <3>9, <4>1, <4>2, <4>3 DEF Increment, PC
    <3> QED BY <2>1, <3>1, <3>2, <3>3, <3>4, <3>5, <3>6, <3>7, <3>8, <3>9
            DEF WorkerStep
  <2>2. ASSUME NEW c \in Clients, ClientCall(c) PROVE TypeOK'
    <3>1. CASE CreateJob(c) BY <3>1 DEF CreateJob
    <3>2. CASE WaitUntilDone(c) BY <3>2 DEF WaitUntilDone
    <3>3. CASE Release(c) BY <3>3 DEF Release
    <3> QED BY <2>2, <3>1, <3>2, <3>3 DEF ClientCall
  <2>3. ASSUME NEW c \in Clients, DispatchStep(c) PROVE TypeOK'
    <3>1. CASE DispatchCount(c) BY <3>1 DEF DispatchCount
    <3>2. CASE DispatchQueue(c)
      <4>1. /\ pc' \in [Threads -> PC]
            /\ \A w \in Workers : pc'[w] \in WorkerPC
            /\ \A d \in Clients : pc'[d] \in ClientPC
        <5>1. /\ pc' \in [Threads -> PC]
              /\ pc'[c] = "idle"
              /\ \A t \in Threads \ {c} :
                    \/ pc'[t] = pc[t]
                    \/ pc[t] = "queueWait" /\ pc'[t] = "lockQueue"
          BY <3>2, DispatchQueueMoves
        <5>2. \A w \in Workers : w # c /\ w \in Threads
          OBVIOUS
        <5>3. \A d \in Clients : d \in Threads /\ pc[d] # "queueWait"
          OBVIOUS
        <5> QED BY <5>1, <5>2, <5>3
      <4>2. job[c] \in Jobs
        BY <3>2 DEF HandsInv, DispatchQueue
      <4>3. queue' \in Seq(Jobs)
        BY <3>2, <4>2 DEF DispatchQueue
      <4>4. job' \in [Threads -> Jobs \cup {NoJob}]
        BY <3>2 DEF DispatchQueue
      <4> QED BY <3>2, <4>1, <4>3, <4>4 DEF DispatchQueue, PC
    <3> QED BY <2>3, <3>1, <3>2 DEF DispatchStep
  <2>4. ASSUME NEW c \in Clients, CheckDone(c) PROVE TypeOK'
    BY <2>4 DEF CheckDone
  <2>5. ASSUME NEW c \in Clients, FreeStep(c) PROVE TypeOK'
    <3>1. CASE FreeLockQueue(c) BY <3>1 DEF FreeLockQueue
    <3>2. CASE FreeLockCount(c) BY <3>2 DEF FreeLockCount
    <3>3. CASE FreeMark(c) BY <3>3 DEF FreeMark
    <3>4. CASE FreeUnlockCount(c) BY <3>4 DEF FreeUnlockCount
    <3>5. CASE FreeWake(c) BY <3>5 DEF FreeWake, Broadcast
    <3> QED BY <2>5, <3>1, <3>2, <3>3, <3>4, <3>5 DEF FreeStep
  <2>6. ASSUME NEW t \in Threads, SpuriousWakeup(t) PROVE TypeOK'
    BY <2>6 DEF SpuriousWakeup
  <2>7. CASE UNCHANGED vars
    BY <2>7 DEF vars
  <2> QED BY <2>1, <2>2, <2>3, <2>4, <2>5, <2>6, <2>7 DEF Next
<1>3. Init => HandsInv
  BY ThreadAssumption DEF Init, HandsInv, Threads
<1>4. TypeOK /\ HandsInv /\ [Next]_vars => HandsInv'
  <2> SUFFICES ASSUME TypeOK, HandsInv, [Next]_vars PROVE HandsInv'
    OBVIOUS
  <2> USE ThreadAssumption DEF HandsInv, TypeOK, Threads, Goto
  <2>1. ASSUME NEW w \in Workers, WorkerStep(w) PROVE HandsInv'
    <3>1. CASE Increment(w)
      <4>1. \A t \in Threads \ {w} : job'[t] = job[t]
        BY <3>1 DEF Increment
      <4> QED BY <3>1, <4>1, IncrementMoves
    <3> QED BY <2>1, <3>1 DEF WorkerStep, Begin, BeforePerform, AfterPerform,
               CheckTerminate, LockQueue, LeaveQueue, WaitForJob, TakeJob,
               Perform, LockCount, CheckCount
  <2>2. ASSUME NEW c \in Clients, ClientCall(c) PROVE HandsInv'
    BY <2>2 DEF ClientCall, CreateJob, WaitUntilDone, Release
  <2>3. ASSUME NEW c \in Clients, DispatchStep(c) PROVE HandsInv'
    <3>1. CASE DispatchCount(c)
      BY <3>1 DEF DispatchCount
    <3>2. CASE DispatchQueue(c)
      <4>1. \A t \in Threads \ {c} : job'[t] = job[t]
        BY <3>2 DEF DispatchQueue
      <4> QED BY <3>2, <4>1, DispatchQueueMoves
    <3> QED BY <2>3, <3>1, <3>2 DEF DispatchStep
  <2>4. ASSUME NEW c \in Clients, CheckDone(c) \/ FreeStep(c) PROVE HandsInv'
    BY <2>4 DEF CheckDone, FreeStep, FreeLockQueue, FreeLockCount, FreeMark,
       FreeUnlockCount, FreeWake, Broadcast
  <2>5. ASSUME NEW t \in Threads, SpuriousWakeup(t) PROVE HandsInv'
    BY <2>5 DEF SpuriousWakeup
  <2>6. CASE UNCHANGED vars
    BY <2>6 DEF vars
  <2> QED BY <2>1, <2>2, <2>3, <2>4, <2>5, <2>6 DEF Next
<1> QED BY <1>1, <1>2, <1>3, <1>4, PTL DEF Spec

(* TypeOK holds in every reachable state: the variables keep their types,  *)
(* and a worker never reaches a client's counter or the reverse.           *)
THEOREM TypeCorrect == Spec => []TypeOK
  BY TypeInvariant, PTL

-----------------------------------------------------------------------------
(* The discipline of the count mutex is inductive.  The step that matters: *)
(* FreeMark sets a flag only while -[dealloc] owns the count mutex, so no  *)
(* worker is between its test of the flag and its increment.               *)
LEMMA MutexStep == TypeOK /\ MutexInv /\ [Next]_vars => MutexInv'
<1> SUFFICES ASSUME TypeOK, MutexInv, [Next]_vars PROVE MutexInv'
  OBVIOUS
<1> USE ThreadAssumption DEF MutexInv, CountMutexInv, IncrementInv, MarkedInv,
        TypeOK, Threads, Goto
<1>1. ASSUME NEW w \in Workers, WorkerStep(w) PROVE MutexInv'
  <2>1. CASE Begin(w) \/ BeforePerform(w) \/ AfterPerform(w)
    BY <2>1 DEF Begin, BeforePerform, AfterPerform, CheckTerminate
  <2>2. CASE LockQueue(w) \/ LeaveQueue(w) \/ WaitForJob(w) \/ TakeJob(w)
    BY <2>2 DEF LockQueue, LeaveQueue, WaitForJob, TakeJob
  <2>3. CASE Perform(w)
    BY <2>3 DEF Perform
  <2>4. CASE LockCount(w)
    BY <2>4 DEF LockCount
  <2>5. CASE CheckCount(w)
    BY <2>5 DEF CheckCount
  <2>6. CASE Increment(w)
    <3>1. \A v \in Workers : pc'[v] \in {"inCount", "increment"} =>
             v # w /\ pc[v] = pc'[v]
      BY <2>6, IncrementMoves
    <3>2. \A c \in Clients : pc'[c] \in {"freeMark", "freeWake"} =>
             pc[c] = pc'[c]
      BY <2>6, IncrementMoves
    <3>3. countMutex = w /\ UNCHANGED <<terminate, freed>>
      BY <2>6 DEF Increment
    <3> QED BY <3>1, <3>2, <3>3
  <2> QED BY <1>1, <2>1, <2>2, <2>3, <2>4, <2>5, <2>6 DEF WorkerStep
<1>2. ASSUME NEW c \in Clients, ClientCall(c) PROVE MutexInv'
  BY <1>2 DEF ClientCall, CreateJob, WaitUntilDone, Release
<1>3. ASSUME NEW c \in Clients, DispatchStep(c) PROVE MutexInv'
  <2>1. CASE DispatchCount(c)
    BY <2>1 DEF DispatchCount
  <2>2. CASE DispatchQueue(c)
    <3>1. \A v \in Workers : pc'[v] \in {"inCount", "increment"} =>
             pc[v] = pc'[v]
      BY <2>2, DispatchQueueMoves
    <3>2. \A d \in Clients : pc'[d] \in {"freeMark", "freeWake"} =>
             pc[d] = pc'[d]
      BY <2>2, DispatchQueueMoves
    <3>3. UNCHANGED <<countMutex, terminate, freed>>
      BY <2>2 DEF DispatchQueue
    <3> QED BY <3>1, <3>2, <3>3
  <2> QED BY <1>3, <2>1, <2>2 DEF DispatchStep
<1>4. ASSUME NEW c \in Clients, CheckDone(c) PROVE MutexInv'
  BY <1>4 DEF CheckDone
<1>5. ASSUME NEW c \in Clients, FreeStep(c) PROVE MutexInv'
  <2>1. CASE FreeLockQueue(c)
    BY <2>1 DEF FreeLockQueue
  <2>2. CASE FreeLockCount(c)
    BY <2>2 DEF FreeLockCount
  <2>3. CASE FreeMark(c)
    <3>1. \A w \in Workers : pc[w] \notin {"inCount", "increment"}
      BY <2>3 DEF FreeMark
    <3> QED BY <2>3, <3>1 DEF FreeMark
  <2>4. CASE FreeUnlockCount(c)
    BY <2>4 DEF FreeUnlockCount
  <2>5. CASE FreeWake(c)
    BY <2>5 DEF FreeWake, Broadcast
  <2> QED BY <1>5, <2>1, <2>2, <2>3, <2>4, <2>5 DEF FreeStep
<1>6. ASSUME NEW t \in Threads, SpuriousWakeup(t) PROVE MutexInv'
  BY <1>6 DEF SpuriousWakeup
<1>7. CASE UNCHANGED vars
  BY <1>7 DEF vars
<1> QED BY <1>1, <1>2, <1>3, <1>4, <1>5, <1>6, <1>7 DEF Next

(* A worker never increments _doneCount of a deallocated pool.             *)
THEOREM NoWorkerUsesFreedPool == Spec => []NoUseAfterFree
<1>1. Init => MutexInv
  BY ThreadAssumption DEF Init, MutexInv, CountMutexInv, IncrementInv,
     MarkedInv, Threads
<1>2. MutexInv => NoUseAfterFree
  BY DEF MutexInv, IncrementInv, MarkedInv, NoUseAfterFree
<1> QED BY TypeCorrect, MutexStep, <1>1, <1>2, PTL DEF Spec

-----------------------------------------------------------------------------
(* The custody of the jobs.                                                *)

(* A client is in a call, or may make one, as long as it has its reference;*)
(* -[dealloc] runs, and workers are told to terminate, when all are gone.  *)
AliveInv ==
    /\ \A c \in Clients :
          pc[c] \in {"idle", "dispatchCount", "dispatchQueue", "waitLock", "countWait"}
             <=> c \in refs
    /\ refs # {} =>
          /\ \A w \in Workers : ~terminate[w]
          /\ \A c \in Clients :
                pc[c] \notin {"freeQueue", "freeCount", "freeMark", "freeWake"}

(* The threads that have a job in their hands, and those of them that have *)
(* performed it.                                                           *)
Ran(t) == pc[t] \in {"performed", "lockCount", "inCount", "increment"}

Holds(t) == pc[t] \in {"dispatchCount", "dispatchQueue", "gotJob", "perform"} \/ Ran(t)

(* A job is in one pair of hands, or in one place of the queue, or in      *)
(* neither, and what was performed is known from where it is.              *)
HandsCustody ==
    /\ \A t \in Threads : Holds(t) => /\ job[t] \in Jobs \ unborn
                                      /\ performed[job[t]] = IF Ran(t) THEN 1 ELSE 0
    /\ \A t, u \in Threads : Holds(t) /\ Holds(u) /\ job[t] = job[u] => t = u

QueueCustody ==
    /\ \A i \in 1..Len(queue) : /\ queue[i] \notin unborn /\ performed[queue[i]] = 0
                                /\ \A t \in Threads : Holds(t) => job[t] # queue[i]
    /\ \A i, k \in 1..Len(queue) : queue[i] = queue[k] => i = k

OncePerformed == \A j \in Jobs : /\ performed[j] <= 1
                                 /\ j \in unborn => performed[j] = 0

(* As long as somebody has a reference, a job that is in no hands and not  *)
(* in the queue was performed.                                             *)
NoneLost ==
    refs # {} => \A j \in Jobs \ unborn :
                   \/ performed[j] = 1
                   \/ \E t \in Threads : Holds(t) /\ job[t] = j
                   \/ \E i \in 1..Len(queue) : queue[i] = j

Custody == HandsCustody /\ QueueCustody /\ OncePerformed /\ NoneLost

LEMMA AliveStep == TypeOK /\ AliveInv /\ [Next]_vars => AliveInv' /\ refs' \subseteq refs
<1> SUFFICES ASSUME TypeOK, AliveInv, [Next]_vars PROVE AliveInv' /\ refs' \subseteq refs
  OBVIOUS
<1> USE ThreadAssumption DEF AliveInv, TypeOK, Threads, Goto
<1>1. ASSUME NEW w \in Workers, WorkerStep(w) PROVE AliveInv' /\ refs' = refs
  <2>1. CASE Increment(w)
    <3>1. \A c \in Clients : c # w /\ c \in Threads OBVIOUS
    <3>2. \A c \in Clients : pc'[c] = pc[c] \/ (pc[c] = "countWait" /\ pc'[c] = "waitLock")
      BY <2>1, <3>1, IncrementMoves
    <3>3. UNCHANGED <<refs, terminate>> BY <2>1 DEF Increment
    <3> QED BY <3>2, <3>3
  <2>2. ASSUME ~Increment(w)
        PROVE  /\ \A c \in Clients : pc'[c] = pc[c]
               /\ UNCHANGED <<refs, terminate>>
    BY <1>1, <2>2 DEF WorkerStep, Begin, BeforePerform, AfterPerform,
               CheckTerminate, LockQueue, LeaveQueue, WaitForJob, TakeJob,
               Perform, LockCount, CheckCount
  <2> QED BY <2>1, <2>2
<1>2. ASSUME NEW c \in Clients, CreateJob(c) \/ WaitUntilDone(c)
      PROVE  AliveInv' /\ refs' = refs
  BY <1>2 DEF CreateJob, WaitUntilDone
<1>3. ASSUME NEW c \in Clients, Release(c) PROVE AliveInv' /\ refs' \subseteq refs
  BY <1>3 DEF Release
<1>4. ASSUME NEW c \in Clients, DispatchStep(c) PROVE AliveInv' /\ refs' = refs
  <2>1. CASE DispatchCount(c) BY <2>1 DEF DispatchCount
  <2>2. CASE DispatchQueue(c)
    <3>1. /\ pc'[c] = "idle"
          /\ \A d \in Clients \ {c} : pc'[d] = pc[d]
      BY <2>2, DispatchQueueMoves DEF ClientPC
    <3>2. UNCHANGED <<refs, terminate>> /\ pc[c] = "dispatchQueue"
      BY <2>2 DEF DispatchQueue
    <3> QED BY <3>1, <3>2
  <2> QED BY <1>4, <2>1, <2>2 DEF DispatchStep
<1>5. ASSUME NEW c \in Clients, CheckDone(c) PROVE AliveInv' /\ refs' = refs
  BY <1>5 DEF CheckDone
<1>6. ASSUME NEW c \in Clients, FreeStep(c) PROVE AliveInv' /\ refs' = refs
  BY <1>6 DEF FreeStep, FreeLockQueue, FreeLockCount, FreeMark, FreeUnlockCount,
              FreeWake, Broadcast, ClientPC
<1>7. ASSUME NEW t \in Threads, SpuriousWakeup(t) PROVE AliveInv' /\ refs' = refs
  <2>1. /\ pc[t] \in {"queueWait", "countWait"}
        /\ pc' = [pc EXCEPT ![t] = IF t \in Workers THEN "lockQueue" ELSE "waitLock"]
        /\ UNCHANGED <<refs, terminate>>
    BY <1>7 DEF SpuriousWakeup
  <2>2. CASE t \in Workers
    <3>1. \A c \in Clients : pc'[c] = pc[c] BY <2>1, <2>2
    <3> QED BY <2>1, <3>1
  <2>3. CASE t \in Clients
    <3>1. pc[t] = "countWait" BY <2>1, <2>3 DEF ClientPC
    <3>2. pc'[t] = "waitLock" /\ \A c \in Clients \ {t} : pc'[c] = pc[c]
      BY <2>1, <2>3
    <3> QED BY <2>1, <2>3, <3>1, <3>2
  <2> QED BY <2>2, <2>3
<1>8. CASE UNCHANGED vars BY <1>8 DEF vars
<1> QED BY <1>1, <1>2, <1>3, <1>4, <1>5, <1>6, <1>7, <1>8 DEF Next, ClientCall

(* What leaves the hands alone, except that hands may be opened when no    *)
(* reference is left, keeps the custody.                                   *)
LEMMA CustodyStays ==
    ASSUME TypeOK, Custody, UNCHANGED <<job, queue, unborn, performed>>,
           refs' \subseteq refs,
           \A t \in Threads : Holds(t)' => Holds(t) /\ (Ran(t)' <=> Ran(t)),
           \A t \in Threads : Holds(t) => Holds(t)' \/ refs' = {}
    PROVE  Custody'
<1>1. HandsCustody' BY DEF Custody, HandsCustody
<1>2. QueueCustody' BY DEF Custody, QueueCustody
<1>3. OncePerformed' BY DEF Custody, OncePerformed
<1>4. NoneLost' BY DEF Custody, NoneLost
<1> QED BY <1>1, <1>2, <1>3, <1>4 DEF Custody

(* A worker takes the first job from the queue into its hands.             *)
LEMMA TakeKeeps ==
    ASSUME TypeOK, Custody, NEW w \in Workers, TakeJob(w)
    PROVE  Custody'
<1> USE DEF TypeOK, Threads
<1> DEFINE j == Head(queue)
           n == Len(queue)
<1>1. /\ w \in Threads /\ pc[w] = "inQueue" /\ queue # << >>
      /\ job' = [job EXCEPT ![w] = j] /\ queue' = Tail(queue)
      /\ pc' = [pc EXCEPT ![w] = "gotJob"]
      /\ UNCHANGED <<refs, unborn, performed>>
  BY DEF TakeJob, Goto
<1>2. /\ n \in Nat /\ n > 0 /\ j = queue[1] /\ j \in Jobs
      /\ Len(queue') = n - 1
      /\ \A i \in 1..n - 1 : queue'[i] = queue[i + 1] /\ i + 1 \in 1..n
  <2>1. /\ Len(queue) \in Nat /\ Len(queue) > 0 /\ Head(queue) = queue[1]
        /\ Head(queue) \in Jobs
        /\ Len(Tail(queue)) = Len(queue) - 1
        /\ \A i \in 1..Len(Tail(queue)) : Tail(queue)[i] = queue[i + 1]
    BY <1>1, HeadTailProperties, EmptySeq
  <2> QED BY <1>1, <2>1
<1>3. /\ pc'[w] = "gotJob" /\ job'[w] = j
      /\ \A t \in Threads : t # w => pc'[t] = pc[t] /\ job'[t] = job[t]
  BY <1>1
<1>4. /\ 1 \in 1..n /\ j \notin unborn /\ performed[j] = 0
      /\ \A t \in Threads : Holds(t) => job[t] # j
  BY <1>2 DEF Custody, QueueCustody
<1> HIDE DEF j, n
<1>5. /\ Holds(w)' /\ ~Ran(w)' /\ ~Holds(w)
      /\ \A t \in Threads : t # w => (Holds(t)' <=> Holds(t)) /\ (Ran(t)' <=> Ran(t))
  BY <1>1, <1>3 DEF Holds, Ran
<1>6. HandsCustody' BY <1>1, <1>2, <1>3, <1>4, <1>5 DEF Custody, HandsCustody
<1>7. QueueCustody'
  <2>1. ASSUME NEW i \in 1..n - 1
        PROVE  /\ queue'[i] \notin unborn /\ performed[queue'[i]] = 0
               /\ \A t \in Threads : Holds(t)' => job'[t] # queue'[i]
    <3>1. i + 1 \in 1..n /\ i + 1 # 1 /\ queue'[i] = queue[i + 1] BY <1>2
    <3>2. \A k, l \in 1..n : queue[k] = queue[l] => k = l
      BY DEF Custody, QueueCustody, n
    <3>3. queue[i + 1] # j BY <1>2, <1>4, <3>1, <3>2
    <3>4. \A t \in Threads : Holds(t) => job[t] # queue[i + 1]
      BY <3>1 DEF Custody, QueueCustody, n
    <3> QED BY <1>3, <1>5, <3>1, <3>3, <3>4 DEF Custody, QueueCustody, n
  <2>2. ASSUME NEW i \in 1..n - 1, NEW k \in 1..n - 1, queue'[i] = queue'[k]
        PROVE  i = k
    <3>1. i + 1 = k + 1 BY <1>2, <2>2 DEF Custody, QueueCustody, n
    <3> QED BY <1>2, <3>1
  <2> QED BY <1>1, <1>2, <2>1, <2>2 DEF QueueCustody
<1>8. OncePerformed' BY <1>1 DEF Custody, OncePerformed
<1>9. NoneLost'
  <2> SUFFICES ASSUME refs # {}, NEW k \in Jobs \ unborn, performed[k] # 1,
                      ~\E t \in Threads : Holds(t)' /\ job'[t] = k
               PROVE  \E i \in 1..n - 1 : queue'[i] = k
    BY <1>1, <1>2 DEF NoneLost
  <2>1. k # j BY <1>1, <1>3, <1>5
  <2>2. ~\E t \in Threads : Holds(t) /\ job[t] = k BY <1>3, <1>5
  <2>3. PICK i \in 1..n : queue[i] = k BY <2>2 DEF Custody, NoneLost, n
  <2>4. i - 1 \in 1..n - 1 /\ i - 1 + 1 = i BY <1>2, <2>1, <2>3
  <2> QED BY <1>2, <2>3, <2>4
<1> QED BY <1>6, <1>7, <1>8, <1>9 DEF Custody

(* It performs it: for the first time.                                     *)
LEMMA PerformKeeps ==
    ASSUME TypeOK, Custody, NEW w \in Workers, Perform(w)
    PROVE  Custody'
<1> USE DEF TypeOK, Threads
<1> DEFINE j == job[w]
<1>1. /\ w \in Threads /\ pc[w] = "perform"
      /\ performed' = [performed EXCEPT ![j] = @ + 1]
      /\ pc' = [pc EXCEPT ![w] = "performed"]
      /\ UNCHANGED <<job, queue, refs, unborn>>
  BY DEF Perform, Goto
<1>2. Holds(w) /\ ~Ran(w) BY <1>1 DEF Holds, Ran
<1>3. j \in Jobs \ unborn /\ performed[j] = 0
  BY <1>1, <1>2 DEF Custody, HandsCustody
<1>4. /\ performed'[j] = 1 /\ \A k \in Jobs : k # j => performed'[k] = performed[k]
      /\ pc'[w] = "performed" /\ \A t \in Threads : t # w => pc'[t] = pc[t]
  BY <1>1, <1>3
<1>5. /\ Holds(w)' /\ Ran(w)'
      /\ \A t \in Threads : t # w => (Holds(t)' <=> Holds(t)) /\ (Ran(t)' <=> Ran(t))
  BY <1>4 DEF Holds, Ran
<1>6. \A t \in Threads : Holds(t) /\ t # w => job[t] # j
  BY <1>1, <1>2 DEF Custody, HandsCustody
<1>7. \A i \in 1..Len(queue) : queue[i] # j /\ queue[i] \in Jobs
  BY <1>1, <1>2, ElementOfSeq DEF Custody, QueueCustody
<1> HIDE DEF j
<1>8. HandsCustody' BY <1>1, <1>3, <1>4, <1>5, <1>6 DEF Custody, HandsCustody, j
<1>9. QueueCustody' BY <1>1, <1>2, <1>4, <1>5, <1>7 DEF Custody, QueueCustody
<1>10. OncePerformed' BY <1>1, <1>3, <1>4 DEF Custody, OncePerformed
<1>11. NoneLost' BY <1>1, <1>2, <1>4, <1>5 DEF Custody, NoneLost
<1> QED BY <1>8, <1>9, <1>10, <1>11 DEF Custody

(* It counts it, and its hands are free.                                   *)
LEMMA IncrementKeeps ==
    ASSUME TypeOK, Custody, NEW w \in Workers, Increment(w)
    PROVE  Custody'
<1> USE DEF TypeOK, Threads
<1>1. /\ w \in Threads /\ pc[w] = "increment"
      /\ job' = [job EXCEPT ![w] = NoJob]
      /\ UNCHANGED <<queue, refs, unborn, performed>>
  BY DEF Increment
<1>2. Holds(w) /\ Ran(w) BY <1>1 DEF Holds, Ran
<1>3. job[w] \in Jobs /\ performed[job[w]] = 1
  BY <1>1, <1>2 DEF Custody, HandsCustody
<1>4. /\ ~Holds(w)'
      /\ \A t \in Threads : t # w => (Holds(t)' <=> Holds(t)) /\ (Ran(t)' <=> Ran(t))
  BY IncrementMoves DEF Holds, Ran
<1>5. \A t \in Threads : t # w => job'[t] = job[t] BY <1>1
<1>6. HandsCustody' BY <1>1, <1>4, <1>5 DEF Custody, HandsCustody
<1>7. QueueCustody' BY <1>1, <1>4, <1>5 DEF Custody, QueueCustody
<1>8. OncePerformed' BY <1>1 DEF Custody, OncePerformed
<1>9. NoneLost' BY <1>1, <1>3, <1>4, <1>5 DEF Custody, NoneLost
<1> QED BY <1>6, <1>7, <1>8, <1>9 DEF Custody

(* A client has a new job in its hands.                                    *)
LEMMA CreateKeeps ==
    ASSUME TypeOK, Custody, NEW c \in Clients, CreateJob(c)
    PROVE  Custody'
<1> USE DEF TypeOK, Threads
<1>1. PICK j \in unborn : /\ job' = [job EXCEPT ![c] = j]
                          /\ unborn' = unborn \ {j}
  BY DEF CreateJob
<1>2. /\ c \in Threads /\ pc[c] = "idle" /\ pc' = [pc EXCEPT ![c] = "dispatchCount"]
      /\ UNCHANGED <<queue, refs, performed>>
  BY DEF CreateJob, Goto
<1>3. /\ ~Holds(c) /\ Holds(c)' /\ ~Ran(c)' /\ job'[c] = j
      /\ \A t \in Threads : t # c => /\ (Holds(t)' <=> Holds(t)) /\ (Ran(t)' <=> Ran(t))
                                    /\ job'[t] = job[t]
  BY <1>1, <1>2 DEF Holds, Ran
<1>4. /\ j \in Jobs /\ performed[j] = 0
      /\ \A t \in Threads : Holds(t) => job[t] # j
      /\ \A i \in 1..Len(queue) : queue[i] # j
  BY DEF Custody, HandsCustody, QueueCustody, OncePerformed
<1>5. HandsCustody' BY <1>1, <1>2, <1>3, <1>4 DEF Custody, HandsCustody
<1>6. QueueCustody' BY <1>1, <1>2, <1>3, <1>4 DEF Custody, QueueCustody
<1>7. OncePerformed' BY <1>1, <1>2 DEF Custody, OncePerformed
<1>8. NoneLost' BY <1>1, <1>2, <1>3 DEF Custody, NoneLost
<1> QED BY <1>5, <1>6, <1>7, <1>8 DEF Custody

(* It appends it to the queue.                                             *)
LEMMA DispatchKeeps ==
    ASSUME TypeOK, Custody, NEW c \in Clients, DispatchQueue(c)
    PROVE  Custody'
<1> USE DEF TypeOK, Threads
<1> DEFINE j == job[c]
           n == Len(queue)
<1>1. /\ c \in Threads /\ pc[c] = "dispatchQueue"
      /\ queue' = Append(queue, j) /\ job' = [job EXCEPT ![c] = NoJob]
      /\ UNCHANGED <<refs, unborn, performed>>
  BY DEF DispatchQueue
<1>2. Holds(c) /\ ~Ran(c) BY <1>1 DEF Holds, Ran
<1>3. /\ j \in Jobs \ unborn /\ performed[j] = 0
      /\ \A t \in Threads : Holds(t) /\ t # c => job[t] # j
      /\ \A i \in 1..n : queue[i] # j
  BY <1>1, <1>2 DEF Custody, HandsCustody, QueueCustody
<1>4. /\ n \in Nat /\ Len(queue') = n + 1 /\ queue'[n + 1] = j
      /\ \A i \in 1..n : queue'[i] = queue[i]
      /\ \A i \in 1..n + 1 : i \in 1..n \/ i = n + 1
      /\ \A i \in 1..n : i \in 1..n + 1
  BY <1>1, <1>3, AppendProperties
<1>5. /\ ~Holds(c)'
      /\ \A t \in Threads : t # c => /\ (Holds(t)' <=> Holds(t)) /\ (Ran(t)' <=> Ran(t))
                                    /\ job'[t] = job[t]
  <2>1. /\ ~Holds(c)'
        /\ \A t \in Threads : t # c => (Holds(t)' <=> Holds(t)) /\ (Ran(t)' <=> Ran(t))
    BY DispatchQueueMoves DEF Holds, Ran
  <2> QED BY <1>1, <2>1
<1>6. HandsCustody' BY <1>1, <1>5 DEF Custody, HandsCustody
<1>7. QueueCustody'
  <2>1. ASSUME NEW i \in 1..n + 1
        PROVE  /\ queue'[i] \notin unborn /\ performed[queue'[i]] = 0
               /\ \A t \in Threads : Holds(t)' => job'[t] # queue'[i]
    <3>1. CASE i = n + 1 BY <1>3, <1>4, <1>5, <3>1
    <3>2. CASE i \in 1..n BY <1>4, <1>5, <3>2 DEF Custody, QueueCustody
    <3> QED BY <1>4, <3>1, <3>2
  <2>2. ASSUME NEW i \in 1..n + 1, NEW k \in 1..n + 1, queue'[i] = queue'[k]
        PROVE  i = k
    BY <1>3, <1>4, <2>2 DEF Custody, QueueCustody
  <2> HIDE DEF n
  <2> QED BY <1>1, <1>4, <2>1, <2>2 DEF QueueCustody
<1>8. OncePerformed' BY <1>1 DEF Custody, OncePerformed
<1>9. NoneLost'
  <2> SUFFICES ASSUME refs # {}, NEW k \in Jobs \ unborn, performed[k] # 1,
                      ~\E t \in Threads : Holds(t)' /\ job'[t] = k
               PROVE  \E i \in 1..n + 1 : queue'[i] = k
    BY <1>1, <1>4 DEF NoneLost
  <2>1. CASE k = j
    <3>1. n + 1 \in 1..n + 1 BY <1>4
    <3> QED BY <1>4, <2>1, <3>1
  <2>2. CASE k # j
    <3>1. ~\E t \in Threads : Holds(t) /\ job[t] = k BY <1>5, <2>2
    <3>2. PICK i \in 1..n : queue[i] = k BY <3>1 DEF Custody, NoneLost
    <3> QED BY <1>4, <3>2
  <2> QED BY <2>1, <2>2
<1> QED BY <1>6, <1>7, <1>8, <1>9 DEF Custody

(* Every other step leaves the jobs where they are; only when no reference *)
(* is left may a worker go with a job in its hands.                        *)
LEMMA QuietSteps ==
    ASSUME TypeOK, AliveInv, [Next]_vars,
           \A w \in Workers : ~TakeJob(w) /\ ~Perform(w) /\ ~Increment(w),
           \A c \in Clients : ~CreateJob(c) /\ ~DispatchQueue(c)
    PROVE  /\ UNCHANGED <<job, queue, unborn, performed, doneCount>>
           /\ \A t \in Threads : Holds(t)' => Holds(t) /\ (Ran(t)' <=> Ran(t))
           /\ \A t \in Threads : Holds(t) => Holds(t)' \/ refs' = {}
<1> USE DEF TypeOK, Threads, Goto, Holds, Ran
<1> DEFINE Goal == /\ UNCHANGED <<job, queue, unborn, performed, doneCount>>
                   /\ \A t \in Threads : Holds(t)' => Holds(t) /\ (Ran(t)' <=> Ran(t))
                   /\ \A t \in Threads : Holds(t) => Holds(t)' \/ refs' = {}
<1>1. ASSUME NEW w \in Workers, WorkerStep(w) PROVE Goal
  <2>1. CASE Begin(w) \/ BeforePerform(w) \/ AfterPerform(w)
    BY <2>1 DEF AliveInv, Begin, BeforePerform, AfterPerform, CheckTerminate
  <2>2. CASE LockQueue(w) \/ LeaveQueue(w) \/ WaitForJob(w) \/ LockCount(w)
    BY <2>2 DEF LockQueue, LeaveQueue, WaitForJob, LockCount
  <2>3. CASE CheckCount(w) BY <2>3 DEF AliveInv, CheckCount
  <2> QED BY <1>1, <2>1, <2>2, <2>3 DEF WorkerStep
<1>2. ASSUME NEW c \in Clients, WaitUntilDone(c) \/ Release(c) \/ DispatchCount(c)
      PROVE  Goal
  BY <1>2 DEF WaitUntilDone, Release, DispatchCount
<1>3. ASSUME NEW c \in Clients, CheckDone(c) PROVE Goal
  BY <1>3 DEF CheckDone
<1>4. ASSUME NEW c \in Clients, FreeStep(c) PROVE Goal
  BY <1>4 DEF FreeStep, FreeLockQueue, FreeLockCount, FreeMark, FreeUnlockCount,
              FreeWake, Broadcast
<1>5. ASSUME NEW t \in Threads, SpuriousWakeup(t) PROVE Goal
  BY <1>5 DEF SpuriousWakeup
<1>6. ASSUME UNCHANGED vars PROVE Goal BY <1>6 DEF vars
<1> HIDE DEF Goal
<1>7. ASSUME \E w \in Workers : WorkerStep(w) PROVE Goal BY <1>1, <1>7
<1>8. ASSUME NEW c \in Clients,
             ClientCall(c) \/ DispatchStep(c) \/ CheckDone(c) \/ FreeStep(c)
      PROVE  Goal
  <2>1. CASE ClientCall(c) BY <1>2, <2>1 DEF ClientCall
  <2>2. CASE DispatchStep(c) BY <1>2, <2>2 DEF DispatchStep
  <2> QED BY <1>3, <1>4, <1>8, <2>1, <2>2
<1>9. Goal BY <1>5, <1>6, <1>7, <1>8 DEF Next
<1> QED BY <1>9 DEF Goal

LEMMA CustodyStep == TypeOK /\ AliveInv /\ Custody /\ [Next]_vars => Custody'
<1> SUFFICES ASSUME TypeOK, AliveInv, Custody, [Next]_vars PROVE Custody'
  OBVIOUS
<1>1. CASE \E w \in Workers : TakeJob(w) \/ Perform(w) \/ Increment(w)
  BY <1>1, TakeKeeps, PerformKeeps, IncrementKeeps
<1>2. CASE \E c \in Clients : CreateJob(c) \/ DispatchQueue(c)
  BY <1>2, CreateKeeps, DispatchKeeps
<1>3. CASE /\ \A w \in Workers : ~TakeJob(w) /\ ~Perform(w) /\ ~Increment(w)
           /\ \A c \in Clients : ~CreateJob(c) /\ ~DispatchQueue(c)
  BY <1>3, QuietSteps, AliveStep, CustodyStays
<1> QED BY <1>1, <1>2, <1>3

LEMMA CustodyInvariant == Spec => [](TypeOK /\ AliveInv /\ Custody)
<1>1. Init => AliveInv
  BY ThreadAssumption DEF Init, AliveInv, Threads
<1>2. Init => Custody
  BY ThreadAssumption DEF Init, Custody, HandsCustody, QueueCustody, OncePerformed,
                          NoneLost, Holds, Ran, Threads
<1> QED BY TypeCorrect, AliveStep, CustodyStep, <1>1, <1>2, PTL DEF Spec

-----------------------------------------------------------------------------
(* The counts.                                                             *)

LEMMA CountsAreNumbers ==
    /\ IsFiniteSet(Busy) /\ Cardinality(Busy) \in Nat
    /\ IsFiniteSet(Dispatching) /\ Cardinality(Dispatching) \in Nat
<1>1. Busy \subseteq Workers /\ Dispatching \subseteq Clients
  BY DEF Busy, Dispatching
<1> QED BY <1>1, ThreadAssumption, FS_Subset, FS_CardinalityType

(* As long as there is a reference, only four actions move a worker in or  *)
(* out of Busy or a client in or out of Dispatching.                       *)
LEMMA CountsStay ==
    ASSUME TypeOK, AliveInv, [Next]_vars, refs' # {},
           \A w \in Workers : ~TakeJob(w) /\ ~Increment(w),
           \A c \in Clients : ~DispatchCount(c) /\ ~DispatchQueue(c)
    PROVE  UNCHANGED <<count, doneCount, queue, Busy, Dispatching>>
<1> USE ThreadAssumption DEF TypeOK, Threads, Goto
<1> DEFINE Active == {"gotJob", "perform", "performed", "lockCount", "inCount", "increment"}
           Goal == /\ UNCHANGED <<count, doneCount, queue>>
                   /\ \A w \in Workers : pc'[w] \in Active <=> pc[w] \in Active
                   /\ \A c \in Clients : pc'[c] = "dispatchQueue" <=> pc[c] = "dispatchQueue"
<1>0. \A w \in Workers : refs' = refs => ~terminate[w] BY DEF AliveInv
<1>1. ASSUME NEW w \in Workers, WorkerStep(w) PROVE Goal
  <2>1. CASE Begin(w) \/ BeforePerform(w) \/ AfterPerform(w)
    BY <1>0, <2>1 DEF Begin, BeforePerform, AfterPerform, CheckTerminate
  <2>2. CASE LockQueue(w) \/ LeaveQueue(w) \/ WaitForJob(w) \/ LockCount(w)
    BY <2>2 DEF LockQueue, LeaveQueue, WaitForJob, LockCount
  <2>3. CASE CheckCount(w) BY <1>0, <2>3 DEF CheckCount
  <2>4. CASE Perform(w) BY <2>4 DEF Perform
  <2> QED BY <1>1, <2>1, <2>2, <2>3, <2>4 DEF WorkerStep
<1>2. ASSUME NEW c \in Clients, ClientCall(c) PROVE Goal
  BY <1>2 DEF ClientCall, CreateJob, WaitUntilDone, Release
<1>3. ASSUME NEW c \in Clients, CheckDone(c) PROVE Goal
  BY <1>3 DEF CheckDone
<1>4. ASSUME NEW c \in Clients, FreeStep(c) PROVE Goal
  BY <1>4 DEF FreeStep, FreeLockQueue, FreeLockCount, FreeMark, FreeUnlockCount,
              FreeWake, Broadcast
<1>5. ASSUME NEW t \in Threads, SpuriousWakeup(t) PROVE Goal
  BY <1>5 DEF SpuriousWakeup
<1>6. ASSUME UNCHANGED vars PROVE Goal BY <1>6 DEF vars
<1> HIDE DEF Goal
<1>7. ASSUME \E w \in Workers : WorkerStep(w) PROVE Goal BY <1>1, <1>7
<1>8. ASSUME NEW c \in Clients,
             ClientCall(c) \/ DispatchStep(c) \/ CheckDone(c) \/ FreeStep(c)
      PROVE  Goal
  BY <1>2, <1>3, <1>4, <1>8 DEF DispatchStep
<1>9. Goal BY <1>5, <1>6, <1>7, <1>8 DEF Next
<1>10. UNCHANGED <<count, doneCount, queue>> BY <1>9 DEF Goal
<1>11. UNCHANGED Busy BY <1>9 DEF Goal, Busy
<1>12. UNCHANGED Dispatching BY <1>9 DEF Goal, Dispatching
<1> QED BY <1>10, <1>11, <1>12

LEMMA AccountingStep == TypeOK /\ AliveInv /\ Accounting /\ [Next]_vars => Accounting'
<1> SUFFICES ASSUME TypeOK, AliveInv, Accounting, [Next]_vars, refs' # {}
             PROVE  (count = doneCount + Len(queue) + Cardinality(Busy)
                             + Cardinality(Dispatching))'
  BY DEF Accounting
<1>1. /\ count = doneCount + Len(queue) + Cardinality(Busy) + Cardinality(Dispatching)
      /\ count \in Nat /\ doneCount \in Nat /\ Len(queue) \in Nat
  <2>1. refs # {} BY AliveStep
  <2> QED BY <2>1, LenProperties DEF Accounting, TypeOK
<1> USE CountsAreNumbers
<1>2. ASSUME NEW w \in Workers, TakeJob(w)
      PROVE  /\ Len(queue') = Len(queue) - 1 /\ Cardinality(Busy') = Cardinality(Busy) + 1
             /\ UNCHANGED <<count, doneCount, Dispatching>>
  <2>1. /\ pc[w] = "inQueue" /\ pc' = [pc EXCEPT ![w] = "gotJob"]
        /\ queue # << >> /\ queue' = Tail(queue) /\ UNCHANGED <<count, doneCount>>
    BY <1>2 DEF TakeJob, Goto
  <2>2. Busy' = Busy \cup {w} /\ w \notin Busy
    BY <2>1 DEF Busy, TypeOK, Threads
  <2>3. UNCHANGED Dispatching
    BY <2>1, ThreadAssumption DEF Dispatching, TypeOK, Threads
  <2>4. Len(queue') = Len(queue) - 1
    BY <2>1, HeadTailProperties DEF TypeOK
  <2>5. Cardinality(Busy') = Cardinality(Busy) + 1
    BY <2>2, FS_AddElement
  <2> QED BY <2>1, <2>3, <2>4, <2>5
<1>3. ASSUME NEW w \in Workers, Increment(w)
      PROVE  /\ doneCount' = doneCount + 1 /\ Cardinality(Busy') = Cardinality(Busy) - 1
             /\ UNCHANGED <<count, queue, Dispatching>>
  <2>1. pc[w] = "increment" /\ doneCount' = doneCount + 1 /\ UNCHANGED <<count, queue>>
    BY <1>3 DEF Increment
  <2>2. /\ pc'[w] = "lockQueue"
        /\ \A t \in Threads \ {w} :
              pc'[t] = pc[t] \/ (pc[t] = "countWait" /\ pc'[t] = "waitLock")
    BY <1>3, IncrementMoves
  <2>3. Busy' = Busy \ {w} /\ w \in Busy
    BY <2>1, <2>2 DEF Busy, Threads
  <2>4. UNCHANGED Dispatching
    BY <2>2, ThreadAssumption DEF Dispatching, Threads
  <2>5. Cardinality(Busy') = Cardinality(Busy) - 1
    BY <2>3, FS_RemoveElement
  <2> QED BY <2>1, <2>4, <2>5
<1>4. ASSUME NEW c \in Clients, DispatchCount(c)
      PROVE  /\ count' = count + 1
             /\ Cardinality(Dispatching') = Cardinality(Dispatching) + 1
             /\ UNCHANGED <<doneCount, queue, Busy>>
  <2>1. /\ pc[c] = "dispatchCount" /\ pc' = [pc EXCEPT ![c] = "dispatchQueue"]
        /\ count' = count + 1 /\ UNCHANGED <<doneCount, queue>>
    BY <1>4 DEF DispatchCount, Goto
  <2>2. Dispatching' = Dispatching \cup {c} /\ c \notin Dispatching
    BY <2>1 DEF Dispatching, TypeOK, Threads
  <2>3. UNCHANGED Busy
    BY <2>1, ThreadAssumption DEF Busy, TypeOK, Threads
  <2>4. Cardinality(Dispatching') = Cardinality(Dispatching) + 1
    BY <2>2, FS_AddElement
  <2> QED BY <2>1, <2>3, <2>4
<1>5. ASSUME NEW c \in Clients, DispatchQueue(c)
      PROVE  /\ Len(queue') = Len(queue) + 1
             /\ Cardinality(Dispatching') = Cardinality(Dispatching) - 1
             /\ UNCHANGED <<count, doneCount, Busy>>
  <2>1. /\ pc[c] = "dispatchQueue" /\ queue' = Append(queue, job[c])
        /\ UNCHANGED <<count, doneCount>>
    BY <1>5 DEF DispatchQueue
  <2>2. /\ pc'[c] = "idle"
        /\ \A t \in Threads \ {c} :
              pc'[t] = pc[t] \/ (pc[t] = "queueWait" /\ pc'[t] = "lockQueue")
    BY <1>5, DispatchQueueMoves
  <2>3. Dispatching' = Dispatching \ {c} /\ c \in Dispatching
    BY <2>1, <2>2 DEF Dispatching, Threads
  <2>4. UNCHANGED Busy
    BY <2>2, ThreadAssumption DEF Busy, Threads
  <2>5. Len(queue') = Len(queue) + 1
    BY <2>1 DEF TypeOK
  <2>6. Cardinality(Dispatching') = Cardinality(Dispatching) - 1
    BY <2>3, FS_RemoveElement
  <2> QED BY <2>1, <2>4, <2>5, <2>6
<1>6. CASE /\ \A w \in Workers : ~TakeJob(w) /\ ~Increment(w)
           /\ \A c \in Clients : ~DispatchCount(c) /\ ~DispatchQueue(c)
  <2>1. UNCHANGED <<count, doneCount, queue, Busy, Dispatching>> BY <1>6, CountsStay
  <2> QED BY <1>1, <2>1
<1>7. CASE \E w \in Workers : TakeJob(w) \/ Increment(w) BY <1>1, <1>2, <1>3, <1>7
<1>8. CASE \E c \in Clients : DispatchCount(c) \/ DispatchQueue(c) BY <1>1, <1>4, <1>5, <1>8
<1> QED BY <1>6, <1>7, <1>8

(* No job is lost or counted twice while somebody holds a reference: what  *)
(* the dispatches have counted is done, queued, in a worker's hands or     *)
(* about to be queued (Accounting, OFThreadPool.m:209-224 and :303-316).   *)
THEOREM JobsAreAccounted == Spec => []Accounting
<1>1. Init => Accounting
  <2> SUFFICES ASSUME Init PROVE Accounting
    OBVIOUS
  <2>1. Busy = {} /\ Dispatching = {}
    BY ThreadAssumption DEF Init, Busy, Dispatching, Threads
  <2>2. count = 0 /\ doneCount = 0 /\ Len(queue) = 0
    BY DEF Init
  <2> QED BY <2>1, <2>2, FS_EmptySet DEF Accounting
<1> QED BY <1>1, CustodyInvariant, AccountingStep, PTL DEF Spec

-----------------------------------------------------------------------------
(* What -[waitUntilDone] waits for.                                        *)

(* A caller of -[waitUntilDone] leaves the loop in one place only.         *)
LEMMA WaitEnds ==
    ASSUME TypeOK, [Next]_vars, NEW c \in Clients, pc[c] = "waitLock", pc'[c] = "idle"
    PROVE  CheckDone(c) /\ doneCount = count
<1> USE ThreadAssumption DEF TypeOK, Threads, Goto
<1>1. ASSUME NEW w \in Workers, WorkerStep(w) PROVE FALSE
  <2>1. CASE Increment(w)
    BY <2>1, IncrementMoves
  <2>2. ASSUME ~Increment(w) PROVE pc'[c] = pc[c]
    BY <1>1, <2>2 DEF WorkerStep, Begin, BeforePerform, AfterPerform, CheckTerminate,
       LockQueue, LeaveQueue, WaitForJob, TakeJob, Perform, LockCount, CheckCount
  <2> QED BY <2>1, <2>2
<1>2. ASSUME NEW d \in Clients, ClientCall(d) PROVE FALSE
  BY <1>2 DEF ClientCall, CreateJob, WaitUntilDone, Release
<1>3. ASSUME NEW d \in Clients, DispatchStep(d) PROVE FALSE
  <2>1. CASE DispatchCount(d) BY <2>1 DEF DispatchCount
  <2>2. CASE DispatchQueue(d)
    <3>1. d # c BY <2>2 DEF DispatchQueue
    <3> QED BY <2>2, <3>1, DispatchQueueMoves
  <2> QED BY <1>3, <2>1, <2>2 DEF DispatchStep
<1>4. ASSUME NEW d \in Clients, CheckDone(d) PROVE d = c /\ doneCount = count
  BY <1>4 DEF CheckDone
<1>5. ASSUME NEW d \in Clients, FreeStep(d) PROVE FALSE
  BY <1>5 DEF FreeStep, FreeLockQueue, FreeLockCount, FreeMark, FreeUnlockCount,
              FreeWake, Broadcast
<1>6. ASSUME NEW t \in Threads, SpuriousWakeup(t) PROVE FALSE
  BY <1>6 DEF SpuriousWakeup
<1>7. ~UNCHANGED vars BY DEF vars
<1> QED BY <1>1, <1>2, <1>3, <1>4, <1>5, <1>6, <1>7 DEF Next

(* When the counts agree, the pool has nothing left to do.                 *)
LEMMA NothingLeft ==
    ASSUME TypeOK, AliveInv, Custody, Accounting,
           NEW c \in Clients, pc[c] = "waitLock", doneCount = count
    PROVE  \A j \in Accepted : performed[j] = 1
<1>1. refs # {} BY DEF AliveInv
<1>2. Len(queue) = 0 /\ Cardinality(Busy) = 0 /\ Cardinality(Dispatching) = 0
  <2>1. count = doneCount + Len(queue) + Cardinality(Busy) + Cardinality(Dispatching)
    BY <1>1 DEF Accounting
  <2>2. count \in Nat /\ Len(queue) \in Nat BY LenProperties DEF TypeOK
  <2>3. Cardinality(Busy) \in Nat /\ Cardinality(Dispatching) \in Nat BY CountsAreNumbers
  <2>4. \A k, l, m, n \in Nat : k = k + l + m + n => l = 0 /\ m = 0 /\ n = 0 OBVIOUS
  <2> QED BY <2>1, <2>2, <2>3, <2>4
<1>3. Busy = {} /\ Dispatching = {} BY <1>2, CountsAreNumbers, FS_EmptySet
<1>4. ASSUME NEW j \in Accepted PROVE performed[j] = 1
  <2>1. j \in Jobs \ unborn /\ \A d \in Clients : pc[d] = "dispatchCount" => job[d] # j
    BY <1>4 DEF Accepted
  <2>2. ~\E i \in 1..Len(queue) : queue[i] = j BY <1>2
  <2>3. ASSUME NEW t \in Threads, Holds(t), job[t] = j PROVE FALSE
    <3>1. CASE t \in Workers
      BY <1>3, <2>3, <3>1 DEF Holds, Ran, Busy, TypeOK, WorkerPC
    <3>2. CASE t \in Clients
      BY <1>3, <2>1, <2>3, <3>2 DEF Holds, Ran, Dispatching, TypeOK, ClientPC
    <3> QED BY <3>1, <3>2 DEF Threads
  <2> QED BY <1>1, <2>1, <2>2, <2>3 DEF Custody, NoneLost
<1> QED BY <1>4

(* -[waitUntilDone] returns only when every job accepted so far has been   *)
(* performed, by whichever workers and in whichever order                  *)
(* (WaitMeansDone, OFThreadPool.m:318-330, OFThreadPool.h:113).            *)
THEOREM WaitIsForAllJobs == Spec => WaitMeansDone
<1>1. /\ TypeOK /\ AliveInv /\ Custody /\ Accounting
      /\ [Next]_vars
      => [\A c \in Clients : pc[c] = "waitLock" /\ pc'[c] = "idle" =>
             \A j \in Accepted : performed[j] = 1]_vars
  BY WaitEnds, NothingLeft
<1> QED BY <1>1, CustodyInvariant, JobsAreAccounted, PTL DEF Spec, WaitMeansDone

-----------------------------------------------------------------------------
(* OFThreadPool implements JobPool.                                        *)

Performs(j) == \E w \in Workers : pc[w] = "perform" /\ job[w] = j

(* In the states the pool reaches, the stage of a job can be read from     *)
(* where it is.                                                            *)
LEMMA Stages ==
    ASSUME TypeOK, Custody, NEW j \in Jobs
    PROVE  JobStatus(j) = IF performed[j] = 1 THEN "done"
                          ELSE IF Performs(j) THEN "running"
                          ELSE IF j \in Accepted THEN "accepted" ELSE "new"
<1>1. performed[j] \in Nat /\ performed[j] <= 1
  BY DEF TypeOK, Custody, OncePerformed
<1>2. performed[j] = 0 \/ performed[j] = 1 BY <1>1
<1>3. CASE performed[j] = 1 BY <1>3 DEF JobStatus
<1>4. CASE performed[j] = 0
  <2>1. ~(performed[j] > 1) /\ performed[j] # 1 BY <1>4
  <2>2. JobStatus(j) = IF Performs(j) THEN "running"
                       ELSE IF j \in Accepted THEN "accepted" ELSE "new"
    BY <1>4, <2>1 DEF JobStatus, Performs
  <2> QED BY <2>1, <2>2
<1> QED BY <1>2, <1>3, <1>4

LEMMA StagesStay ==
    ASSUME NEW j \in Jobs, performed'[j] = performed[j],
           Performs(j)' <=> Performs(j), (j \in Accepted)' <=> j \in Accepted
    PROVE  JobStatus(j)' = JobStatus(j)
BY DEF JobStatus, Performs

(* What a step must leave alone for no job to change its stage.            *)
LEMMA StatusStays ==
    ASSUME UNCHANGED <<unborn, performed>>,
           \A w \in Workers : /\ pc'[w] = "perform" <=> pc[w] = "perform"
                              /\ pc[w] = "perform" => job'[w] = job[w],
           \A c \in Clients : /\ pc'[c] = "dispatchCount" <=> pc[c] = "dispatchCount"
                              /\ pc[c] = "dispatchCount" => job'[c] = job[c]
    PROVE  [j \in Jobs |-> JobStatus(j)]' = [j \in Jobs |-> JobStatus(j)]
<1> SUFFICES ASSUME NEW j \in Jobs PROVE JobStatus(j)' = JobStatus(j)
  OBVIOUS
<1>1. Performs(j)' <=> Performs(j) BY DEF Performs
<1>2. (j \in Accepted)' <=> j \in Accepted BY DEF Accepted
<1> QED BY <1>1, <1>2, StagesStay

Status == [j \in Jobs |-> JobStatus(j)]

Waits == {c \in Clients : pc[c] \in {"waitLock", "countWait"}}

(* Steps that JobPool does not see.                                        *)
Quiet ==
    /\ UNCHANGED <<unborn, performed, refs>>
    /\ \A w \in Workers : /\ pc'[w] = "perform" <=> pc[w] = "perform"
                          /\ pc[w] = "perform" => job'[w] = job[w]
    /\ \A c \in Clients : /\ pc'[c] = "dispatchCount" <=> pc[c] = "dispatchCount"
                          /\ pc[c] = "dispatchCount" => job'[c] = job[c]
                          /\ pc'[c] \in {"waitLock", "countWait"}
                                <=> pc[c] \in {"waitLock", "countWait"}

LEMMA QuietStutters ==
    ASSUME Quiet
    PROVE  UNCHANGED <<Status, Waits, refs = {}>>
<1>1. UNCHANGED Status BY StatusStays DEF Quiet, Status
<1>2. UNCHANGED Waits BY DEF Quiet, Waits
<1> QED BY <1>1, <1>2 DEF Quiet

LEMMA WorkerIsQuiet ==
    ASSUME TypeOK, NEW w \in Workers, WorkerStep(w), ~Perform(w),
           BeforePerform(w) => terminate[w]
    PROVE  Quiet
<1> USE ThreadAssumption DEF TypeOK, Threads, Goto
<1>1. CASE Begin(w) \/ AfterPerform(w)
  BY <1>1 DEF Begin, AfterPerform, CheckTerminate, Quiet
<1>2. CASE BeforePerform(w) BY <1>2 DEF BeforePerform, CheckTerminate, Quiet
<1>3. CASE LockQueue(w) \/ LeaveQueue(w) \/ WaitForJob(w)
  BY <1>3 DEF LockQueue, LeaveQueue, WaitForJob, Quiet
<1>4. CASE TakeJob(w)
  <2>1. /\ pc[w] = "inQueue" /\ pc' = [pc EXCEPT ![w] = "gotJob"]
        /\ job' = [job EXCEPT ![w] = Head(queue)] /\ UNCHANGED <<unborn, performed, refs>>
    BY <1>4 DEF TakeJob
  <2> QED BY <2>1 DEF Quiet
<1>5. CASE LockCount(w) \/ CheckCount(w) BY <1>5 DEF LockCount, CheckCount, Quiet
<1>6. CASE Increment(w)
  <2>1. /\ pc[w] = "increment" /\ job' = [job EXCEPT ![w] = NoJob]
        /\ UNCHANGED <<unborn, performed, refs>>
    BY <1>6 DEF Increment
  <2>2. /\ pc'[w] = "lockQueue"
        /\ \A t \in Threads \ {w} :
              pc'[t] = pc[t] \/ (pc[t] = "countWait" /\ pc'[t] = "waitLock")
    BY <1>6, IncrementMoves
  <2> QED BY <2>1, <2>2 DEF Quiet
<1> QED BY <1>1, <1>2, <1>3, <1>4, <1>5, <1>6 DEF WorkerStep

LEMMA ClientIsQuiet ==
    ASSUME TypeOK, NEW c \in Clients,
           \/ DispatchQueue(c)
           \/ CheckDone(c) /\ doneCount # count
           \/ FreeStep(c)
    PROVE  Quiet
<1> USE ThreadAssumption DEF TypeOK, Threads, Goto
<1>1. CASE DispatchQueue(c)
  <2>1. /\ pc[c] = "dispatchQueue" /\ job' = [job EXCEPT ![c] = NoJob]
        /\ UNCHANGED <<unborn, performed, refs>>
    BY <1>1 DEF DispatchQueue
  <2>2. /\ pc'[c] = "idle"
        /\ \A t \in Threads \ {c} :
              pc'[t] = pc[t] \/ (pc[t] = "queueWait" /\ pc'[t] = "lockQueue")
    BY <1>1, DispatchQueueMoves
  <2>3. \A t \in Threads \ {c} : job'[t] = job[t] BY <2>1
  <2> QED BY <2>1, <2>2, <2>3 DEF Quiet
<1>2. CASE CheckDone(c) /\ doneCount # count BY <1>2 DEF CheckDone, Quiet
<1>3. CASE FreeStep(c)
  BY <1>3 DEF FreeStep, FreeLockQueue, FreeLockCount, FreeMark, FreeUnlockCount,
              FreeWake, Broadcast, Quiet
<1> QED BY <1>1, <1>2, <1>3

LEMMA WakeupIsQuiet ==
    ASSUME TypeOK, NEW t \in Threads, SpuriousWakeup(t)
    PROVE  Quiet
<1>1. /\ pc[t] \in {"queueWait", "countWait"}
      /\ pc' = [pc EXCEPT ![t] = IF t \in Workers THEN "lockQueue" ELSE "waitLock"]
      /\ UNCHANGED <<job, unborn, performed, refs>>
  BY DEF SpuriousWakeup, Goto
<1>2. CASE t \in Workers
  BY <1>1, <1>2, ThreadAssumption DEF Quiet, TypeOK, Threads
<1>3. CASE t \in Clients
  <2>1. pc[t] = "countWait" BY <1>1, <1>3 DEF TypeOK, ClientPC
  <2>2. pc' = [pc EXCEPT ![t] = "waitLock"] BY <1>1, <1>3, ThreadAssumption
  <2> QED BY <1>1, <1>3, <2>1, <2>2, ThreadAssumption DEF Quiet, TypeOK, Threads
<1> QED BY <1>2, <1>3 DEF Threads

(* At most one job per worker runs, so a worker about to perform one has   *)
(* left room for it.                                                       *)
LEMMA RoomToRun ==
    ASSUME TypeOK, Custody, NEW w \in Workers, pc[w] # "perform"
    PROVE  Cardinality({j \in Jobs : Status[j] = "running"}) < Cardinality(Workers)
<1> DEFINE S == {v \in Workers : pc[v] = "perform"}
           T == {j \in Jobs : Status[j] = "running"}
           f == [v \in S |-> job[v]]
<1>1. f \in [S -> T]
  <2>1. ASSUME NEW v \in S PROVE job[v] \in T
    <3>1. v \in Threads /\ Holds(v) /\ ~Ran(v) BY DEF Threads, Holds, Ran
    <3>2. job[v] \in Jobs /\ performed[job[v]] = 0
      BY <3>1 DEF Custody, HandsCustody
    <3>3. Performs(job[v]) BY DEF Performs
    <3>4. JobStatus(job[v]) = "running" BY <3>2, <3>3, Stages
    <3> QED BY <3>2, <3>4 DEF Status
  <2> QED BY <2>1
<1>2. \A j \in T : \E v \in S : f[v] = j
  <2>1. ASSUME NEW j \in T PROVE Performs(j)
    <3>1. j \in Jobs /\ JobStatus(j) = "running" BY DEF Status
    <3> QED BY <3>1, Stages
  <2> QED BY <2>1 DEF Performs
<1>3. f \in Surjection(S, T) BY <1>1, <1>2 DEF Surjection
<1>4. /\ IsFiniteSet(Workers \ {w})
      /\ Cardinality(Workers \ {w}) = Cardinality(Workers) - 1
      /\ Cardinality(Workers) \in Nat /\ Cardinality(Workers \ {w}) \in Nat
  BY ThreadAssumption, FS_RemoveElement, FS_CardinalityType
<1>5. S \subseteq Workers \ {w} OBVIOUS
<1>6. IsFiniteSet(S) /\ Cardinality(S) <= Cardinality(Workers \ {w})
  BY <1>4, <1>5, FS_Subset
<1> HIDE DEF S, T, f
<1>7. IsFiniteSet(T) /\ Cardinality(T) <= Cardinality(S)
  BY <1>3, <1>6, FS_Surjection
<1>8. Cardinality(S) \in Nat /\ Cardinality(T) \in Nat
  BY <1>6, <1>7, FS_CardinalityType
<1>9. Cardinality(T) < Cardinality(Workers) BY <1>4, <1>6, <1>7, <1>8
<1> QED BY <1>9 DEF T

(* One job changes its stage.                                              *)
LEMMA OneStage ==
    ASSUME NEW k \in Jobs, NEW s,
           JobStatus(k)' = s, \A j \in Jobs \ {k} : JobStatus(j)' = JobStatus(j)
    PROVE  Status' = [Status EXCEPT ![k] = s]
BY DEF Status

(* A job being created is not accepted yet: nothing to see.                *)
LEMMA CreateStutters ==
    ASSUME TypeOK, Custody, NEW c \in Clients, CreateJob(c)
    PROVE  UNCHANGED <<Status, Waits, refs = {}>>
<1> USE ThreadAssumption DEF TypeOK, Threads
<1>1. PICK k \in unborn : /\ job' = [job EXCEPT ![c] = k]
                          /\ unborn' = unborn \ {k}
  BY DEF CreateJob
<1>2. /\ pc[c] = "idle" /\ pc' = [pc EXCEPT ![c] = "dispatchCount"]
      /\ UNCHANGED <<performed, refs>>
  BY DEF CreateJob, Goto
<1>3. /\ pc'[c] = "dispatchCount" /\ job'[c] = k
      /\ \A t \in Threads : t # c => pc'[t] = pc[t] /\ job'[t] = job[t]
  BY <1>1, <1>2
<1>4. Waits' = Waits BY <1>2, <1>3 DEF Waits
<1>5. ASSUME NEW j \in Jobs PROVE JobStatus(j)' = JobStatus(j)
  <2>1. Performs(j)' <=> Performs(j) BY <1>3 DEF Performs
  <2>2. (j \in Accepted)' <=> j \in Accepted
    <3>1. (j \in Accepted)' <=>
             /\ j \in Jobs \ unborn'
             /\ \A d \in Clients : pc'[d] = "dispatchCount" => job'[d] # j
      BY DEF Accepted
    <3>2. j \in Accepted <=>
             /\ j \in Jobs \ unborn
             /\ \A d \in Clients : pc[d] = "dispatchCount" => job[d] # j
      BY DEF Accepted
    <3>3. CASE j = k BY <1>1, <1>3, <3>1, <3>2, <3>3
    <3>4. CASE j # k BY <1>1, <1>2, <1>3, <3>1, <3>2, <3>4
    <3> QED BY <3>3, <3>4
  <2> QED BY <1>2, <2>1, <2>2, StagesStay
<1>6. Status' = Status BY <1>5 DEF Status
<1> QED BY <1>2, <1>4, <1>6

(* The dispatch that counts a job is the one that accepts it.              *)
LEMMA CountAccepts ==
    ASSUME TypeOK, TypeOK', AliveInv, Custody, Custody', NEW c \in Clients, DispatchCount(c)
    PROVE  /\ job[c] \in Jobs /\ Status[job[c]] = "new"
           /\ Status' = [Status EXCEPT ![job[c]] = "accepted"]
           /\ refs # {} /\ UNCHANGED <<Waits, refs = {}>>
<1> USE ThreadAssumption DEF TypeOK, Threads
<1>0. PICK k : k = job[c] OBVIOUS
<1>1. /\ pc[c] = "dispatchCount" /\ pc' = [pc EXCEPT ![c] = "dispatchQueue"]
      /\ UNCHANGED <<job, unborn, performed, refs>>
  BY DEF DispatchCount, Goto
<1>2. /\ pc'[c] = "dispatchQueue" /\ \A t \in Threads : t # c => pc'[t] = pc[t]
  BY <1>1
<1>3. Holds(c) /\ ~Ran(c) BY <1>1 DEF Holds, Ran
<1>4. /\ k \in Jobs \ unborn /\ performed[k] = 0
      /\ \A t \in Threads : Holds(t) /\ t # c => job[t] # k
  BY <1>0, <1>3 DEF Custody, HandsCustody
<1>5. ~Performs(k) /\ ~Performs(k)'
  <2>1. \A w \in Workers : pc[w] = "perform" => Holds(w) BY DEF Holds
  <2>2. c \notin Workers /\ pc'[c] # "perform" BY <1>2
  <2>3. \A w \in Workers : pc[w] = "perform" => job[w] # k BY <1>4, <2>1, <2>2
  <2>4. \A w \in Workers : pc'[w] = pc[w] /\ job'[w] = job[w] BY <1>1, <1>2, <2>2
  <2> QED BY <2>3, <2>4 DEF Performs
<1>6. k \notin Accepted BY <1>0, <1>1 DEF Accepted
<1>7. (k \in Accepted)'
  <2>1. \A d \in Clients : pc'[d] = "dispatchCount" => d # c /\ Holds(d)
    BY <1>2 DEF Holds
  <2> QED BY <1>1, <1>4, <2>1 DEF Accepted
<1>8. JobStatus(k) = "new" BY <1>4, <1>5, <1>6, Stages
<1>9. JobStatus(k)' = "accepted"
  <2>1. performed'[k] = 0 /\ performed'[k] # 1 /\ ~(performed'[k] > 1) BY <1>1, <1>4
  <2> QED BY <1>5, <1>7, <2>1 DEF JobStatus, Performs
<1>10. ASSUME NEW j \in Jobs \ {k} PROVE JobStatus(j)' = JobStatus(j)
  <2>1. Performs(j)' <=> Performs(j) BY <1>1, <1>2 DEF Performs
  <2>2. (j \in Accepted)' <=> j \in Accepted
    BY <1>0, <1>1, <1>2 DEF Accepted
  <2> QED BY <1>1, <2>1, <2>2, StagesStay
<1>11. refs # {} BY <1>1 DEF AliveInv
<1>12. Waits' = Waits BY <1>1, <1>2 DEF Waits
<1> QED BY <1>0, <1>1, <1>4, <1>8, <1>9, <1>10, <1>11, <1>12, OneStage DEF Status

(* A worker that goes on to perform its job starts it.                     *)
LEMMA PerformStarts ==
    ASSUME TypeOK, Custody, NEW w \in Workers, BeforePerform(w), ~terminate[w]
    PROVE  /\ job[w] \in Jobs /\ Status[job[w]] = "accepted"
           /\ Status' = [Status EXCEPT ![job[w]] = "running"]
           /\ Cardinality({j \in Jobs : Status[j] = "running"}) < Cardinality(Workers)
           /\ UNCHANGED <<Waits, refs = {}>>
<1> USE ThreadAssumption DEF TypeOK, Threads
<1>0. PICK k : k = job[w] OBVIOUS
<1>1. /\ pc[w] = "gotJob" /\ pc' = [pc EXCEPT ![w] = "perform"]
      /\ UNCHANGED <<job, unborn, performed, refs>>
  BY DEF BeforePerform, CheckTerminate, Goto
<1>2. /\ pc'[w] = "perform" /\ \A t \in Threads : t # w => pc'[t] = pc[t]
  BY <1>1
<1>3. Holds(w) /\ ~Ran(w) BY <1>1 DEF Holds, Ran
<1>4. /\ k \in Jobs \ unborn /\ performed[k] = 0
      /\ \A t \in Threads : Holds(t) /\ t # w => job[t] # k
  BY <1>0, <1>3 DEF Custody, HandsCustody
<1>5. /\ \A v \in Workers : pc[v] = "perform" => Holds(v) /\ v # w
      /\ \A c \in Clients : pc[c] = "dispatchCount" => Holds(c) /\ c # w
  BY <1>1 DEF Holds
<1>6. ~Performs(k) BY <1>4, <1>5 DEF Performs
<1>7. k \in Accepted BY <1>4, <1>5 DEF Accepted
<1>8. JobStatus(k) = "accepted" BY <1>4, <1>6, <1>7, Stages
<1>9. JobStatus(k)' = "running"
  <2>1. performed'[k] = 0 /\ performed'[k] # 1 /\ ~(performed'[k] > 1) BY <1>1, <1>4
  <2>2. Performs(k)' BY <1>0, <1>1, <1>2 DEF Performs
  <2> QED BY <2>1, <2>2 DEF JobStatus, Performs
<1>10. ASSUME NEW j \in Jobs \ {k} PROVE JobStatus(j)' = JobStatus(j)
  <2>1. Performs(j)' <=> Performs(j) BY <1>0, <1>1, <1>2 DEF Performs
  <2>2. \A c \in Clients : pc'[c] = pc[c] BY <1>2
  <2>3. (j \in Accepted)' <=> j \in Accepted BY <1>1, <2>2 DEF Accepted
  <2> QED BY <1>1, <2>1, <2>3, StagesStay
<1>11. Waits' = Waits BY <1>1, <1>2 DEF Waits
<1>12. Cardinality({j \in Jobs : Status[j] = "running"}) < Cardinality(Workers)
  BY <1>1, RoomToRun
<1> QED BY <1>0, <1>1, <1>4, <1>8, <1>9, <1>10, <1>11, <1>12, OneStage DEF Status

(* Performing it finishes it.                                              *)
LEMMA PerformFinishes ==
    ASSUME TypeOK, Custody, NEW w \in Workers, Perform(w)
    PROVE  /\ job[w] \in Jobs /\ Status[job[w]] = "running"
           /\ Status' = [Status EXCEPT ![job[w]] = "done"]
           /\ UNCHANGED <<Waits, refs = {}>>
<1> USE ThreadAssumption DEF TypeOK, Threads
<1>0. PICK k : k = job[w] OBVIOUS
<1>1. /\ pc[w] = "perform" /\ pc' = [pc EXCEPT ![w] = "performed"]
      /\ performed' = [performed EXCEPT ![k] = @ + 1]
      /\ UNCHANGED <<job, unborn, refs>>
  BY <1>0 DEF Perform, Goto
<1>2. /\ pc'[w] = "performed" /\ \A t \in Threads : t # w => pc'[t] = pc[t]
  BY <1>1
<1>3. Holds(w) /\ ~Ran(w) BY <1>1 DEF Holds, Ran
<1>4. k \in Jobs \ unborn /\ performed[k] = 0
  BY <1>0, <1>3 DEF Custody, HandsCustody
<1>5. /\ performed'[k] = 1
      /\ \A j \in Jobs \ {k} : performed'[j] = performed[j]
  BY <1>1, <1>4
<1>6. JobStatus(k) = "running"
  <2>1. Performs(k) BY <1>0, <1>1 DEF Performs
  <2> QED BY <1>4, <2>1, Stages
<1>7. JobStatus(k)' = "done"
  <2>1. performed'[k] = 1 /\ ~(performed'[k] > 1) BY <1>5
  <2> QED BY <2>1 DEF JobStatus
<1>8. ASSUME NEW j \in Jobs \ {k} PROVE JobStatus(j)' = JobStatus(j)
  <2>1. Performs(j)' <=> Performs(j) BY <1>0, <1>1, <1>2 DEF Performs
  <2>2. \A c \in Clients : pc'[c] = pc[c] BY <1>2
  <2>3. (j \in Accepted)' <=> j \in Accepted BY <1>1, <2>2 DEF Accepted
  <2> QED BY <1>5, <2>1, <2>3, StagesStay
<1>9. Waits' = Waits BY <1>1, <1>2 DEF Waits
<1> QED BY <1>0, <1>1, <1>4, <1>6, <1>7, <1>8, <1>9, OneStage DEF Status

(* -[waitUntilDone] begins and ends a wait; it ends it when all is done.   *)
LEMMA CallBeginsWait ==
    ASSUME TypeOK, AliveInv, NEW c \in Clients, WaitUntilDone(c)
    PROVE  /\ refs # {} /\ c \notin Waits /\ Waits' = Waits \cup {c}
           /\ UNCHANGED <<Status, refs = {}>>
<1> USE ThreadAssumption DEF TypeOK, Threads
<1>1. /\ pc[c] = "idle" /\ c \in refs /\ pc' = [pc EXCEPT ![c] = "waitLock"]
      /\ UNCHANGED <<job, unborn, performed, refs>>
  BY DEF WaitUntilDone, Goto
<1>2. /\ pc'[c] = "waitLock" /\ \A t \in Threads : t # c => pc'[t] = pc[t]
  BY <1>1
<1>3. c \notin Waits /\ Waits' = Waits \cup {c} BY <1>1, <1>2 DEF Waits
<1>4. Status' = Status BY <1>1, <1>2, StatusStays DEF Status
<1> QED BY <1>1, <1>3, <1>4

LEMMA ReturnEndsWait ==
    ASSUME TypeOK, AliveInv, Custody, Accounting,
           NEW c \in Clients, CheckDone(c), doneCount = count
    PROVE  /\ c \in Waits /\ Waits' = Waits \ {c}
           /\ \A j \in Jobs : Status[j] \in {"new", "done"}
           /\ UNCHANGED <<Status, refs = {}>>
<1> USE ThreadAssumption DEF TypeOK, Threads
<1>1. /\ pc[c] = "waitLock" /\ pc' = [pc EXCEPT ![c] = "idle"]
      /\ UNCHANGED <<job, unborn, performed, refs>>
  BY DEF CheckDone, Goto
<1>2. /\ pc'[c] = "idle" /\ \A t \in Threads : t # c => pc'[t] = pc[t]
  BY <1>1
<1>3. c \in Waits /\ Waits' = Waits \ {c} BY <1>1, <1>2 DEF Waits
<1>4. Status' = Status BY <1>1, <1>2, StatusStays DEF Status
<1>5. ASSUME NEW j \in Jobs PROVE JobStatus(j) \in {"new", "done"}
  <2>1. CASE j \in Accepted
    <3>1. performed[j] = 1 BY <1>1, <2>1, NothingLeft
    <3> QED BY <3>1, Stages
  <2>2. CASE j \notin Accepted
    <3>1. ~Performs(j)
      <4>1. ASSUME NEW w \in Workers, pc[w] = "perform", job[w] = j PROVE FALSE
        <5>1. Holds(w) /\ w \in Threads BY <4>1 DEF Holds
        <5>2. /\ j \notin unborn
              /\ \A d \in Clients : pc[d] = "dispatchCount" => Holds(d) /\ d # w
          BY <4>1, <5>1 DEF Custody, HandsCustody, Holds
        <5>3. \A d \in Clients : pc[d] = "dispatchCount" => job[d] # j
          BY <4>1, <5>1, <5>2 DEF Custody, HandsCustody
        <5>4. j \in Accepted BY <5>2, <5>3 DEF Accepted
        <5> QED BY <2>2, <5>4
      <4> QED BY <4>1 DEF Performs
    <3> QED BY <2>2, <3>1, Stages
  <2> QED BY <2>1, <2>2
<1> QED BY <1>1, <1>3, <1>4, <1>5 DEF Status

(* The last release closes the pool, and nobody can be waiting then.       *)
LEMMA LastReleaseCloses ==
    ASSUME TypeOK, AliveInv, NEW c \in Clients, Release(c)
    PROVE  /\ refs # {} /\ UNCHANGED <<Status, Waits>>
           /\ refs' = {} => Waits = {}
<1> USE ThreadAssumption DEF TypeOK, Threads
<1>1. /\ pc[c] = "idle" /\ c \in refs /\ refs' = refs \ {c}
      /\ pc' = [pc EXCEPT ![c] = IF refs = {c} THEN "freeQueue" ELSE "gone"]
      /\ UNCHANGED <<job, unborn, performed>>
  BY DEF Release, Goto
<1>2. /\ pc'[c] \in {"freeQueue", "gone"}
      /\ \A t \in Threads : t # c => pc'[t] = pc[t]
  BY <1>1
<1>3. Waits' = Waits BY <1>1, <1>2 DEF Waits
<1>4. Status' = Status BY <1>1, <1>2, StatusStays DEF Status
<1>5. ASSUME refs' = {} PROVE Waits = {}
  <2>1. \A d \in Clients : d # c => d \notin refs BY <1>1, <1>5
  <2> QED BY <1>1, <2>1 DEF Waits, AliveInv
<1> QED BY <1>1, <1>3, <1>4, <1>5

(* JobPool counts with the FiniteSets of its own instance.                 *)
LEMMA PoolCounts == \A S : Pool!Cardinality(S) = Cardinality(S)
  BY DEF Cardinality, Pool!Cardinality

LEMMA PoolStep ==
    ASSUME TypeOK, TypeOK', AliveInv, Custody, Custody', Accounting, [Next]_vars
    PROVE  [Pool!Next]_(Pool!vars)
<1> DEFINE Stutter == UNCHANGED <<Status, Waits, refs = {}>>
<1>0. Stutter => UNCHANGED Pool!vars BY DEF Pool!vars, Status, Waits
<1>1. ASSUME NEW w \in Workers, WorkerStep(w) PROVE Pool!Next \/ Stutter
  <2>1. CASE Perform(w)
    <3>1. Pool!Finish(job[w])
      BY <2>1, PerformFinishes DEF Pool!Finish, Status, Waits
    <3> QED BY <2>1, <3>1, PerformFinishes DEF Pool!Next
  <2>2. CASE BeforePerform(w) /\ ~terminate[w]
    <3>1. Pool!Start(job[w])
      <4>1. Pool!Running = {j \in Jobs : Status[j] = "running"}
        BY DEF Pool!Running, Status
      <4>2. Cardinality(Pool!Running) < Cardinality(Workers)
        BY <2>2, <4>1, PerformStarts
      <4>3. /\ job[w] \in Jobs /\ Status[job[w]] = "accepted"
            /\ Status' = [Status EXCEPT ![job[w]] = "running"]
            /\ UNCHANGED <<Waits, refs = {}>>
        BY <2>2, PerformStarts
      <4> QED BY <4>2, <4>3, PoolCounts DEF Pool!Start, Status, Waits
    <3> QED BY <2>2, <3>1, PerformStarts DEF Pool!Next
  <2>3. CASE ~Perform(w) /\ (BeforePerform(w) => terminate[w])
    BY <1>1, <2>3, WorkerIsQuiet, QuietStutters
  <2> QED BY <2>1, <2>2, <2>3
<1>2. ASSUME NEW c \in Clients, ClientCall(c) PROVE Pool!Next \/ Stutter
  <2>1. CASE CreateJob(c) BY <2>1, CreateStutters
  <2>2. CASE WaitUntilDone(c)
    <3>1. Pool!BeginWait(c)
      BY <2>2, CallBeginsWait DEF Pool!BeginWait, Status, Waits
    <3> QED BY <3>1 DEF Pool!Next
  <2>3. CASE Release(c)
    <3>1. CASE refs' = {}
      <4>1. Pool!Close BY <2>3, <3>1, LastReleaseCloses DEF Pool!Close, Status, Waits
      <4> QED BY <4>1 DEF Pool!Next
    <3>2. CASE refs' # {} BY <2>3, <3>2, LastReleaseCloses
    <3> QED BY <3>1, <3>2
  <2> QED BY <1>2, <2>1, <2>2, <2>3 DEF ClientCall
<1>3. ASSUME NEW c \in Clients, DispatchStep(c) PROVE Pool!Next \/ Stutter
  <2>1. CASE DispatchCount(c)
    <3>1. Pool!Accept(job[c])
      BY <2>1, CountAccepts DEF Pool!Accept, Status, Waits
    <3> QED BY <2>1, <3>1, CountAccepts DEF Pool!Next
  <2>2. CASE DispatchQueue(c) BY <2>2, ClientIsQuiet, QuietStutters
  <2> QED BY <1>3, <2>1, <2>2 DEF DispatchStep
<1>4. ASSUME NEW c \in Clients, CheckDone(c) PROVE Pool!Next \/ Stutter
  <2>1. CASE doneCount = count
    <3>1. Pool!EndWait(c)
      BY <1>4, <2>1, ReturnEndsWait DEF Pool!EndWait, Pool!AllDone, Status, Waits
    <3> QED BY <3>1 DEF Pool!Next
  <2>2. CASE doneCount # count BY <1>4, <2>2, ClientIsQuiet, QuietStutters
  <2> QED BY <2>1, <2>2
<1>5. ASSUME NEW c \in Clients, FreeStep(c) PROVE Stutter
  BY <1>5, ClientIsQuiet, QuietStutters
<1>6. ASSUME NEW t \in Threads, SpuriousWakeup(t) PROVE Stutter
  BY <1>6, WakeupIsQuiet, QuietStutters
<1>7. ASSUME UNCHANGED vars PROVE UNCHANGED Pool!vars
  BY <1>7 DEF vars, Pool!vars, JobStatus, Accepted
<1> HIDE DEF Stutter
<1> QED BY <1>0, <1>1, <1>2, <1>3, <1>4, <1>5, <1>6, <1>7 DEF Next

(* The thread pool implements JobPool (ImplementsJobPool): with threads,   *)
(* mutexes and conditions hidden, it accepts a job while it is open, runs  *)
(* it at most once, never more jobs at a time than it has workers, ends a  *)
(* wait only when all is done, and is closed once, by the last release     *)
(* (OFThreadPool.m:154-224, :278-330).                                     *)
THEOREM PoolImplemented == Spec => ImplementsJobPool
<1>1. Init => Pool!Init
  <2> SUFFICES ASSUME Init PROVE Pool!Init
    OBVIOUS
  <2>1. ASSUME NEW j \in Jobs PROVE JobStatus(j) = "new"
    <3>1. /\ performed[j] = 0 /\ performed[j] # 1 /\ ~(performed[j] > 1)
          /\ ~Performs(j) /\ j \notin Accepted
      BY ThreadAssumption DEF Init, Performs, Accepted, Threads
    <3> QED BY <3>1 DEF JobStatus, Performs
  <2>2. Waits = {} /\ refs # {}
    BY ThreadAssumption DEF Init, Waits, Threads
  <2> QED BY <2>1, <2>2 DEF Pool!Init, Waits
<1>2. TypeOK /\ AliveInv /\ Custody /\ Accounting /\ TypeOK' /\ Custody' /\ [Next]_vars
      => [Pool!Next]_(Pool!vars)
  BY PoolStep
<1> QED BY <1>1, <1>2, CustodyInvariant, JobsAreAccounted, PTL
        DEF Spec, ImplementsJobPool, Pool!Spec
=============================================================================
