---------------------------- MODULE OFThreadPool ----------------------------
(***************************************************************************)
(* OFThreadPool and its OFThreadPoolThread workers (src/OFThreadPool.m).   *)
(*                                                                         *)
(* Each thread has a program counter.  A critical section that nothing can *)
(* look into is one action guarded by the mutex being free; a worker's     *)
(* sections and the two nested sections of -[dealloc] hold the mutex over  *)
(* several actions, because _terminate is also read outside any lock.      *)
(* A thread inside -[OFCondition wait] has left the mutex and sits at a    *)
(* "...Wait" counter until a signal, a broadcast or a spurious wakeup      *)
(* sends it back to take the mutex again.                                  *)
(*                                                                         *)
(* The pool starts with every worker started and every client holding a    *)
(* reference to it; the client that releases the last one runs -[dealloc]. *)
(***************************************************************************)
EXTENDS Naturals, Sequences, FiniteSets

CONSTANTS Workers,   (* the OFThreadPoolThreads of the pool                *)
          Clients,   (* the threads that hold a reference to the pool      *)
          Waiters,   (* the clients that call -[waitUntilDone]             *)
          Jobs,      (* the OFThreadPoolJobs the clients can create        *)
          NoThread,  (* owner of a mutex nobody holds                      *)
          NoJob      (* the job variable of a thread that has none         *)

ASSUME ThreadAssumption == /\ Workers \cap Clients = {}
                           /\ Waiters \subseteq Clients
                           /\ NoThread \notin Workers \cup Clients
                           /\ NoJob \notin Jobs
                           /\ IsFiniteSet(Workers) /\ IsFiniteSet(Clients)
                           /\ Clients # {}

Threads == Workers \cup Clients

VARIABLES pc,          (* where each thread is                             *)
          job,         (* the job in a thread's hands                      *)
          queue,       (* _queue                                           *)
          count,       (* _count: jobs dispatched                          *)
          doneCount,   (* _doneCount, inside the pool object               *)
          terminate,   (* _terminate of each worker                        *)
          queueMutex,  (* owner of _queueCondition's mutex                 *)
          countMutex,  (* owner of _countCondition's mutex                 *)
          refs,        (* clients that still hold a reference              *)
          freed,       (* the pool object has been deallocated             *)
          unborn,      (* jobs not created yet                             *)
          performed    (* how often each job has been performed (history)  *)

vars == <<pc, job, queue, count, doneCount, terminate, queueMutex, countMutex,
          refs, freed, unborn, performed>>

WorkerPC == {"start", "lockQueue", "inQueue", "queueWait", "gotJob", "perform",
             "performed", "lockCount", "inCount", "increment", "exited"}
ClientPC == {"idle", "dispatchCount", "dispatchQueue", "waitLock", "countWait",
             "freeQueue", "freeCount", "freeMark", "freeWake", "gone"}

Init == /\ pc = [t \in Threads |-> IF t \in Workers THEN "start" ELSE "idle"]
        /\ job = [t \in Threads |-> NoJob]
        /\ queue = <<>>
        /\ count = 0
        /\ doneCount = 0
        /\ terminate = [w \in Workers |-> FALSE]
        /\ queueMutex = NoThread
        /\ countMutex = NoThread
        /\ refs = Clients
        /\ freed = FALSE
        /\ unborn = Jobs
        /\ performed = [j \in Jobs |-> 0]

Goto(t, l) == pc' = [pc EXCEPT ![t] = l]

(* Variants of the definition that follows them, here and below: the slips *)
(* of the code the properties are validated against.                       *)
SignalNobody(p, waiting, woken) == {p}

(* The program counters after -[signal]: one waiter, if any, is woken.     *)
Signal(p, waiting, woken) ==
    LET waiters == {t \in Threads : p[t] = waiting}
    IN  IF waiters = {} THEN {p}
                        ELSE {[p EXCEPT ![t] = woken] : t \in waiters}

(* The program counters after -[broadcast]: every waiter is woken.         *)
Broadcast(p, waiting, woken) ==
    [t \in Threads |-> IF p[t] = waiting THEN woken ELSE p[t]]

-----------------------------------------------------------------------------
(* -[OFThreadPoolThread main].                                             *)

(* "if (_terminate) return nil", read without any lock.                    *)
CheckTerminate(w, at, next) ==
    /\ pc[w] = at
    /\ Goto(w, IF terminate[w] THEN "exited" ELSE next)
    /\ UNCHANGED <<job, queue, count, doneCount, terminate, queueMutex,
                   countMutex, refs, freed, unborn, performed>>

Begin(w) == CheckTerminate(w, "start", "lockQueue")

LockQueue(w) == /\ pc[w] = "lockQueue"
                /\ queueMutex = NoThread
                /\ queueMutex' = w
                /\ Goto(w, "inQueue")
                /\ UNCHANGED <<job, queue, count, doneCount, terminate,
                               countMutex, refs, freed, unborn, performed>>

(* The three ways out of the queue section: leave for good, wait, or take  *)
(* the first job.                                                          *)
LeaveQueue(w) == /\ pc[w] = "inQueue"
                 /\ terminate[w]
                 /\ Goto(w, "exited")
                 /\ queueMutex' = NoThread
                 /\ UNCHANGED <<job, queue, count, doneCount, terminate,
                                countMutex, refs, freed, unborn, performed>>

WaitForJob(w) == /\ pc[w] = "inQueue"
                 /\ ~terminate[w]
                 /\ queue = <<>>
                 /\ Goto(w, "queueWait")
                 /\ queueMutex' = NoThread
                 /\ UNCHANGED <<job, queue, count, doneCount, terminate,
                                countMutex, refs, freed, unborn, performed>>

PeekJob(w) == /\ pc[w] = "inQueue"
              /\ ~terminate[w]
              /\ queue # <<>>
              /\ job' = [job EXCEPT ![w] = Head(queue)]
              /\ queueMutex' = NoThread
              /\ Goto(w, "gotJob")
              /\ UNCHANGED <<queue, count, doneCount, terminate, countMutex,
                             refs, freed, unborn, performed>>

TakeJob(w) == /\ pc[w] = "inQueue"
              /\ ~terminate[w]
              /\ queue # <<>>
              /\ job' = [job EXCEPT ![w] = Head(queue)]
              /\ queue' = Tail(queue)
              /\ queueMutex' = NoThread
              /\ Goto(w, "gotJob")
              /\ UNCHANGED <<count, doneCount, terminate, countMutex, refs,
                             freed, unborn, performed>>

BeforePerform(w) == CheckTerminate(w, "gotJob", "perform")

Perform(w) == /\ pc[w] = "perform"
              /\ performed' = [performed EXCEPT ![job[w]] = @ + 1]
              /\ Goto(w, "performed")
              /\ UNCHANGED <<job, queue, count, doneCount, terminate,
                             queueMutex, countMutex, refs, freed, unborn>>

AfterPerform(w) == CheckTerminate(w, "performed", "lockCount")

LockCount(w) == /\ pc[w] = "lockCount"
                /\ countMutex = NoThread
                /\ countMutex' = w
                /\ Goto(w, "inCount")
                /\ UNCHANGED <<job, queue, count, doneCount, terminate,
                               queueMutex, refs, freed, unborn, performed>>

(* "if (_terminate) return nil" under the count mutex.                     *)
CheckCount(w) == /\ pc[w] = "inCount"
                 /\ Goto(w, IF terminate[w] THEN "exited" ELSE "increment")
                 /\ countMutex' = IF terminate[w] THEN NoThread ELSE countMutex
                 /\ UNCHANGED <<job, queue, count, doneCount, terminate,
                                queueMutex, refs, freed, unborn, performed>>

Decrement(w) == /\ pc[w] = "increment"
                /\ doneCount' = doneCount - 1
                /\ job' = [job EXCEPT ![w] = NoJob]
                /\ pc' \in Signal([pc EXCEPT ![w] = "lockQueue"],
                                  "countWait", "waitLock")
                /\ countMutex' = NoThread
                /\ UNCHANGED <<queue, count, terminate, queueMutex, refs,
                               freed, unborn, performed>>

(* _doneCount is incremented through the pointer into the pool; then       *)
(* -[signal], and the mutex is given back.                                 *)
Increment(w) == /\ pc[w] = "increment"
                /\ doneCount' = doneCount + 1
                /\ job' = [job EXCEPT ![w] = NoJob]
                /\ pc' \in Signal([pc EXCEPT ![w] = "lockQueue"],
                                  "countWait", "waitLock")
                /\ countMutex' = NoThread
                /\ UNCHANGED <<queue, count, terminate, queueMutex, refs,
                               freed, unborn, performed>>

(* POSIX lets -[OFCondition wait] return without a signal.                 *)
SpuriousWakeup(t) ==
    /\ pc[t] \in {"queueWait", "countWait"}
    /\ Goto(t, IF t \in Workers THEN "lockQueue" ELSE "waitLock")
    /\ UNCHANGED <<job, queue, count, doneCount, terminate, queueMutex,
                   countMutex, refs, freed, unborn, performed>>

-----------------------------------------------------------------------------
(* The clients: dispatch, -[waitUntilDone], release.                       *)

CreateJob(c) == /\ pc[c] = "idle"
                /\ c \in refs
                /\ \E j \in unborn : /\ job' = [job EXCEPT ![c] = j]
                                     /\ unborn' = unborn \ {j}
                /\ Goto(c, "dispatchCount")
                /\ UNCHANGED <<queue, count, doneCount, terminate, queueMutex,
                               countMutex, refs, freed, performed>>

DispatchUncounted(c) ==
    /\ pc[c] = "dispatchCount"
    /\ Goto(c, "dispatchQueue")
    /\ UNCHANGED <<job, queue, count, doneCount, terminate, refs, queueMutex,
                   countMutex, freed, unborn, performed>>

(* -[of_dispatchJob:], first section: _count++.                            *)
DispatchCount(c) == /\ pc[c] = "dispatchCount"
                    /\ countMutex = NoThread
                    /\ count' = count + 1
                    /\ Goto(c, "dispatchQueue")
                    /\ UNCHANGED <<job, queue, doneCount, terminate, refs,
                                   queueMutex, countMutex, freed, unborn,
                                   performed>>

DispatchSilently(c) ==
    /\ pc[c] = "dispatchQueue"
    /\ queueMutex = NoThread
    /\ queue' = Append(queue, job[c])
    /\ job' = [job EXCEPT ![c] = NoJob]
    /\ Goto(c, "idle")
    /\ UNCHANGED <<count, doneCount, terminate, queueMutex, countMutex, refs,
                   freed, unborn, performed>>

(* -[of_dispatchJob:], second section: append and signal.                  *)
DispatchQueue(c) == /\ pc[c] = "dispatchQueue"
                    /\ queueMutex = NoThread
                    /\ queue' = Append(queue, job[c])
                    /\ job' = [job EXCEPT ![c] = NoJob]
                    /\ pc' \in Signal([pc EXCEPT ![c] = "idle"],
                                      "queueWait", "lockQueue")
                    /\ UNCHANGED <<count, doneCount, terminate, queueMutex,
                                   countMutex, refs, freed, unborn, performed>>

WaitUntilDone(c) == /\ pc[c] = "idle" /\ c \in Waiters
                    /\ c \in refs
                    /\ Goto(c, "waitLock")
                    /\ UNCHANGED <<job, queue, count, doneCount, terminate,
                                   queueMutex, countMutex, refs, freed, unborn,
                                   performed>>

CheckQueueEmpty(c) ==
    /\ pc[c] = "waitLock"
    /\ countMutex = NoThread
    /\ Goto(c, IF queue = <<>> THEN "idle" ELSE "countWait")
    /\ UNCHANGED <<job, queue, count, doneCount, terminate, queueMutex,
                   countMutex, refs, freed, unborn, performed>>

(* One round of the loop in -[waitUntilDone]: return, or wait.             *)
CheckDone(c) == /\ pc[c] = "waitLock"
                /\ countMutex = NoThread
                /\ Goto(c, IF doneCount = count THEN "idle" ELSE "countWait")
                /\ UNCHANGED <<job, queue, count, doneCount, terminate,
                               queueMutex, countMutex, refs, freed, unborn,
                               performed>>

(* The last release runs -[dealloc].                                       *)
Release(c) == /\ pc[c] = "idle"
              /\ c \in refs
              /\ refs' = refs \ {c}
              /\ Goto(c, IF refs = {c} THEN "freeQueue" ELSE "gone")
              /\ UNCHANGED <<job, queue, count, doneCount, terminate,
                             queueMutex, countMutex, freed, unborn, performed>>

(* -[OFThreadPool dealloc]: both mutexes, one mark per worker, broadcast.  *)
FreeLockQueue(c) == /\ pc[c] = "freeQueue"
                    /\ queueMutex = NoThread
                    /\ queueMutex' = c
                    /\ Goto(c, "freeCount")
                    /\ UNCHANGED <<job, queue, count, doneCount, terminate,
                                   countMutex, refs, freed, unborn, performed>>

FreeWithoutCount(c) ==
    /\ pc[c] = "freeCount"
    /\ Goto(c, "freeMark")
    /\ UNCHANGED <<job, queue, count, doneCount, terminate, queueMutex,
                   countMutex, refs, freed, unborn, performed>>

FreeLockCount(c) == /\ pc[c] = "freeCount"
                    /\ countMutex = NoThread
                    /\ countMutex' = c
                    /\ Goto(c, "freeMark")
                    /\ UNCHANGED <<job, queue, count, doneCount, terminate,
                                   queueMutex, refs, freed, unborn, performed>>

FreeMark(c) == /\ pc[c] = "freeMark"
               /\ \E w \in Workers :
                     /\ ~terminate[w]
                     /\ terminate' = [terminate EXCEPT ![w] = TRUE]
               /\ UNCHANGED <<pc, job, queue, count, doneCount, queueMutex,
                              countMutex, refs, freed, unborn, performed>>

FreeUnlockCount(c) == /\ pc[c] = "freeMark"
                      /\ \A w \in Workers : terminate[w]
                      /\ countMutex' = NoThread
                      /\ Goto(c, "freeWake")
                      /\ UNCHANGED <<job, queue, count, doneCount, terminate,
                                     queueMutex, refs, freed, unborn,
                                     performed>>

FreeWakeOne(c) ==
    /\ pc[c] = "freeWake"
    /\ pc' \in Signal([pc EXCEPT ![c] = "gone"], "queueWait", "lockQueue")
    /\ queueMutex' = NoThread
    /\ freed' = TRUE
    /\ UNCHANGED <<job, queue, count, doneCount, terminate, countMutex, refs,
                   unborn, performed>>

FreeWake(c) == /\ pc[c] = "freeWake"
               /\ pc' = Broadcast([pc EXCEPT ![c] = "gone"],
                                  "queueWait", "lockQueue")
               /\ queueMutex' = NoThread
               /\ freed' = TRUE
               /\ UNCHANGED <<job, queue, count, doneCount, terminate,
                              countMutex, refs, unborn, performed>>

-----------------------------------------------------------------------------
WorkerStep(w) ==
    \/ Begin(w) \/ LockQueue(w) \/ LeaveQueue(w) \/ WaitForJob(w) \/ TakeJob(w)
    \/ BeforePerform(w) \/ Perform(w) \/ AfterPerform(w)
    \/ LockCount(w) \/ CheckCount(w) \/ Increment(w)

DispatchStep(c) == DispatchCount(c) \/ DispatchQueue(c)

FreeStep(c) == \/ FreeLockQueue(c) \/ FreeLockCount(c) \/ FreeMark(c)
               \/ FreeUnlockCount(c) \/ FreeWake(c)

ClientStep(c) == DispatchStep(c) \/ CheckDone(c) \/ FreeStep(c)

ClientCall(c) == CreateJob(c) \/ WaitUntilDone(c) \/ Release(c)

Next == \/ \E w \in Workers : WorkerStep(w)
        \/ \E c \in Clients : \/ ClientCall(c) \/ DispatchStep(c)
                              \/ CheckDone(c) \/ FreeStep(c)
        \/ \E t \in Threads : SpuriousWakeup(t)

Spec == Init /\ [][Next]_vars

(* A thread the system keeps scheduling takes its next step, provided the  *)
(* mutex it needs is free again and again; what a client calls is its own  *)
(* choice, and nobody counts on a spurious wakeup.                         *)
Fairness == /\ \A w \in Workers : SF_vars(WorkerStep(w))
            /\ \A c \in Clients : SF_vars(ClientStep(c))

FairSpec == Spec /\ Fairness

-----------------------------------------------------------------------------
TypeOK ==
    /\ pc \in [Threads -> WorkerPC \cup ClientPC]
    /\ \A w \in Workers : pc[w] \in WorkerPC
    /\ \A c \in Clients : pc[c] \in ClientPC
    /\ job \in [Threads -> Jobs \cup {NoJob}]
    /\ queue \in Seq(Jobs)
    /\ count \in Nat
    /\ doneCount \in Nat
    /\ terminate \in [Workers -> BOOLEAN]
    /\ queueMutex \in Threads \cup {NoThread}
    /\ countMutex \in Threads \cup {NoThread}
    /\ refs \in SUBSET Clients
    /\ freed \in BOOLEAN
    /\ unborn \in SUBSET Jobs
    /\ performed \in [Jobs -> Nat]

(* A job has been accepted once its dispatch has counted it.               *)
Accepted == Jobs \ (unborn \cup
                    {job[c] : c \in {d \in Clients : pc[d] = "dispatchCount"}})

(* Workers that have taken a job _doneCount does not include yet.          *)
Busy == {w \in Workers : pc[w] \in {"gotJob", "perform", "performed",
                                    "lockCount", "inCount", "increment"}}

(* Dispatches between their two critical sections.                         *)
Dispatching == {c \in Clients : pc[c] = "dispatchQueue"}

(* A worker never writes _doneCount through its pointer into a pool that   *)
(* has been deallocated: -[dealloc] takes both mutexes to set _terminate   *)
(* and the worker tests it under the count mutex (OFThreadPool.m:209-216). *)
NoUseAfterFree == \A w \in Workers : pc[w] = "increment" => ~freed

(* No job is lost or counted twice as long as the pool lives: what has     *)
(* been counted by a dispatch is done, queued, in a worker's hands or      *)
(* about to be queued.                                                     *)
Accounting == refs # {} =>
    count = doneCount + Len(queue) + Cardinality(Busy)
            + Cardinality(Dispatching)

(* -[waitUntilDone] returns only when every job accepted so far has been   *)
(* performed (OFThreadPool.h:113 "Waits until all jobs are done").         *)
WaitMeansDone ==
    [][\A c \in Clients : pc[c] = "waitLock" /\ pc'[c] = "idle" =>
          \A j \in Accepted : performed[j] = 1]_vars

(* Under FairSpec.  Every caller of -[waitUntilDone] comes back.           *)
WaitReturns == \A c \in Clients : pc[c] = "waitLock" ~> pc[c] = "idle"

(* Under FairSpec.  An accepted job is performed unless the pool is        *)
(* released by everybody: no wakeup of the queue condition is lost.        *)
JobsGetPerformed ==
    \A j \in Jobs : j \in Accepted ~> performed[j] = 1 \/ refs = {}

(* Under FairSpec.  Once the pool is deallocated every worker leaves       *)
(* -[main], the ones that were waiting for a job included.                 *)
WorkersExit == freed ~> \A w \in Workers : pc[w] = "exited"

-----------------------------------------------------------------------------
(* OFThreadPool implements JobPool, which knows no job that is done again. *)
JobStatus(j) ==
    CASE performed[j] > 1 -> "done again"
      [] performed[j] = 1 -> "done"
      [] performed[j] = 0 /\ \E w \in Workers : pc[w] = "perform" /\ job[w] = j
           -> "running"
      [] OTHER -> IF j \in Accepted THEN "accepted" ELSE "new"

Pool == INSTANCE JobPool WITH
            Callers <- Clients,
            Size    <- Cardinality(Workers),
            status  <- [j \in Jobs |-> JobStatus(j)],
            waiting <- {c \in Clients : pc[c] \in {"waitLock", "countWait"}},
            closed  <- refs = {}

(* Every behaviour of the pool is one of JobPool's under the mapping above:*)
(* whichever workers race for the queue, a job is performed at most once,  *)
(* after it was handed over, and a wait ends when all of them are done.    *)
ImplementsJobPool == Pool!Spec
=============================================================================
