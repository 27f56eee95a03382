-------------------------- MODULE OFRunLoopTimers --------------------------
(***************************************************************************)
(* The timer half of a run loop (src/OFRunLoop.m) with OFTimer's fire,     *)
(* fireDate and invalidate (src/OFTimer.m): one thread runs the loop,      *)
(* others add timers to it, reschedule them and stop it.                   *)
(*                                                                         *)
(* Dates are relative to the present: Tick brings every fire date closer   *)
(* by one, and 0 stands for "due".  A section under _timersQueueMutex is   *)
(* one action, because nothing outside a section looks at the queue.       *)
(* What follows a section outside the mutex is an action of its own.       *)
(* -[cancel] writes one byte to a pipe that only the loop reads.           *)
(***************************************************************************)
EXTENDS Naturals, Sequences, FiniteSets, SequencesExt

CONSTANTS Timers,      (* the timers that can be created                   *)
          Others,      (* the threads other than the one of the loop       *)
          Loop,        (* the thread that runs the loop                    *)
          Repeating,   (* the timers that repeat                           *)
          Rescheduled, (* the timers other threads set a new fire date of  *)
          Waited,      (* the timers other threads wait for                *)
          Waiters,     (* the threads that wait for them                   *)
          MaxDelay,    (* bound: the latest fire date                      *)
          PipeSize,    (* bytes the pipe takes before a write blocks       *)
          NoTimer      (* no timer in hand                                 *)

ASSUME TimerAssumption == /\ Loop \notin Others
                          /\ Repeating \subseteq Timers
                          /\ Rescheduled \subseteq Timers
                          /\ Waited \subseteq Timers
                          /\ Waiters \subseteq Others
                          /\ NoTimer \notin Timers
                          /\ MaxDelay \in Nat \ {0} /\ PipeSize \in Nat \ {0}

Threads == Others \cup {Loop}
Forever == MaxDelay + 1

VARIABLES pc,        (* where each thread is                               *)
          hand,      (* the timer each thread works on                     *)
          cur,       (* the timer being fired                              *)
          queue,     (* _timersQueue                                       *)
          left,      (* how far away the fire date of a timer is           *)
          marked,    (* _inRunLoop is set                                  *)
          valid,     (* _valid                                             *)
          done,      (* _done of the timers other threads wait for         *)
          owned,     (* who has created a timer and still refers to it     *)
          unborn,    (* the timers not created yet                         *)
          timeout,   (* how long the observer waits                        *)
          pipe,      (* bytes in the cancel pipe                           *)
          stop       (* _stop                                              *)

vars == <<pc, hand, cur, queue, left, marked, valid, owned, unborn, timeout,
          pipe, stop, done>>

Init == /\ pc = [t \in Threads |-> "idle"]
        /\ hand = [t \in Threads |-> NoTimer]
        /\ cur = NoTimer
        /\ queue = <<>>
        /\ left = [t \in Timers |-> 0]
        /\ marked = [t \in Timers |-> FALSE]
        /\ valid = [t \in Timers |-> TRUE]
        /\ done = [t \in Waited |-> FALSE]
        /\ owned = [t \in Timers |-> FALSE]
        /\ unborn = Timers
        /\ timeout = 0
        /\ pipe = 0
        /\ stop = FALSE

Goto(t, l) == pc' = [pc EXCEPT ![t] = l]

Queued == ToSet(queue)

(* Variants of the definition that follows them, here and below: the slips *)
(* of the code the properties are validated against.                       *)
InsertedAtEnd(q, t, date) == {Append(q, t)}

(* -[OFSortedList insertObject:]: after the last timer that is not later,  *)
(* the one place n with this timer before it and none from it on.          *)
Inserted(q, t, date) ==
    {InsertAt(q, n, t) : n \in {n \in 1..Len(q) + 1 :
                                   /\ n > 1 => date[q[n - 1]] <= date[t]
                                   /\ \A m \in n..Len(q) : date[q[m]] > date[t]}}

(* -[of_removeTimer:forMode:]: without the first such timer, if any.       *)
Removed(q, t) ==
    {RemoveAt(q, n) : n \in {n \in 1..Len(q) : /\ q[n] = t
                                               /\ \A m \in 1..n - 1 : q[m] # t}}

-----------------------------------------------------------------------------
(* -[addTimer:forMode:], by any thread: insert under the mutex, then mark  *)
(* the timer, then wake the loop up.                                       *)

InsertUnderMutex(t, date) == queue' \in Inserted(queue, hand[t], date)

Mark(t) == /\ pc[t] = "mark"
           /\ marked' = [marked EXCEPT ![hand[t]] = TRUE]
           /\ Goto(t, "cancel")
           /\ UNCHANGED <<hand, cur, queue, left, valid, owned, unborn, timeout,
                          pipe, stop, done>>

ForgetToCancel(t) ==
    /\ pc[t] = "cancel"
    /\ hand' = [hand EXCEPT ![t] = NoTimer]
    /\ Goto(t, IF t = Loop THEN "callback" ELSE "idle")
    /\ UNCHANGED <<cur, queue, left, marked, valid, owned, unborn, timeout, pipe,
                   stop, done>>

(* -[OFKernelEventObserver cancel]: a blocking write.                      *)
CancelObserver(t) ==
    /\ pc[t] = "cancel"
    /\ pipe < PipeSize
    /\ pipe' = pipe + 1
    /\ hand' = [hand EXCEPT ![t] = NoTimer]
    /\ Goto(t, IF t = Loop THEN "callback" ELSE "idle")
    /\ UNCHANGED <<cur, queue, left, marked, valid, owned, unborn, timeout, stop, done>>

(* A thread, or a callback of the loop, creates a timer and adds it.       *)
Add(t) == /\ pc[t] = IF t = Loop THEN "callback" ELSE "idle"
          /\ \E n \in unborn, d \in 0..MaxDelay :
                /\ unborn' = unborn \ {n}
                /\ hand' = [hand EXCEPT ![t] = n]
                /\ left' = [left EXCEPT ![n] = d]
                /\ owned' = [owned EXCEPT ![n] = TRUE]
                /\ queue' \in Inserted(queue, n, left')
          /\ Goto(t, "mark")
          /\ UNCHANGED <<cur, marked, valid, timeout, pipe, stop, done>>

(* The creator drops its reference, after -[addTimer:] has returned.       *)
Release(n) == /\ owned[n]
              /\ \A t \in Threads : hand[t] # n
              /\ owned' = [owned EXCEPT ![n] = FALSE]
              /\ UNCHANGED <<pc, hand, cur, queue, left, marked, valid, unborn,
                             timeout, pipe, stop, done>>

(* Others know a timer once the -[addTimer:] that made it has returned.    *)
Known(n) == /\ owned[n]
            /\ \A t \in Others : hand[t] = n => pc[t] = "waiting"
            /\ hand[Loop] = n => cur = n

-----------------------------------------------------------------------------
(* -[setFireDate:] by another thread: remove the timer if it is in a run   *)
(* loop, set the date, add the timer if it is (still) in a run loop.  It   *)
(* is synchronized on the timer, which the loop's own -[addTimer:] is not. *)

BeginReschedule(t) ==
    /\ pc[t] = "idle" /\ t \in Others
    /\ \E n \in Rescheduled : /\ Known(n)
                              /\ hand' = [hand EXCEPT ![t] = n]
                              /\ IF marked[n] /\ n \in Queued
                                   THEN queue' \in Removed(queue, n)
                                   ELSE UNCHANGED queue
    /\ Goto(t, "setDate")
    /\ UNCHANGED <<cur, left, marked, valid, owned, unborn, timeout, pipe, stop, done>>

SetDate(t) ==
    /\ pc[t] = "setDate"
    /\ \E d \in 0..MaxDelay : left' = [left EXCEPT ![hand[t]] = d]
    /\ Goto(t, "readd")
    /\ UNCHANGED <<hand, cur, queue, marked, valid, owned, unborn, timeout, pipe,
                   stop, done>>

Readd(t) ==
    /\ pc[t] = "readd"
    /\ IF marked[hand[t]]
         THEN /\ InsertUnderMutex(t, left)
              /\ Goto(t, "mark")
              /\ UNCHANGED hand
         ELSE /\ Goto(t, "idle")
              /\ hand' = [hand EXCEPT ![t] = NoTimer]
              /\ UNCHANGED queue
    /\ UNCHANGED <<cur, left, marked, valid, owned, unborn, timeout, pipe, stop, done>>

-----------------------------------------------------------------------------
(* -[waitUntilDone] by another thread: it returns at once if the timer has *)
(* fired since it last did so, and after the first wake-up otherwise, one  *)
(* for no reason included: it does not look at the flag again.             *)
FindDone(t) ==
    /\ t \in Waiters /\ pc[t] = "idle"
    /\ \E n \in Waited : /\ Known(n) /\ done[n]
                         /\ done' = [done EXCEPT ![n] = FALSE]
    /\ UNCHANGED <<pc, hand, cur, queue, left, marked, valid, owned, unborn,
                   timeout, pipe, stop>>

WaitUntilDone(t) ==
    /\ t \in Waiters /\ pc[t] = "idle"
    /\ \E n \in Waited : /\ Known(n) /\ ~done[n]
                         /\ hand' = [hand EXCEPT ![t] = n]
    /\ Goto(t, "waiting")
    /\ UNCHANGED <<cur, queue, left, marked, valid, owned, unborn, timeout, pipe,
                   stop, done>>

WakeForNoReason(t) ==
    /\ pc[t] = "waiting"
    /\ hand' = [hand EXCEPT ![t] = NoTimer]
    /\ Goto(t, "idle")
    /\ UNCHANGED <<cur, queue, left, marked, valid, owned, unborn, timeout, pipe,
                   stop, done>>

-----------------------------------------------------------------------------
(* -[runUntilDate:] without a deadline.                                    *)
Run == /\ pc[Loop] = "idle"
       /\ stop' = FALSE
       /\ Goto(Loop, "check")
       /\ UNCHANGED <<hand, cur, queue, left, marked, valid, owned, unborn,
                      timeout, pipe, done>>

CheckStop == /\ pc[Loop] = "check"
             /\ Goto(Loop, IF stop THEN "done" ELSE "scan")
             /\ UNCHANGED <<hand, cur, queue, left, marked, valid, owned, unborn,
                            timeout, pipe, stop, done>>

(* -[runMode:beforeDate:]: the first timer, if due, leaves the queue and,  *)
(* if still valid, fires; a timer that is not valid is dropped.            *)
TakeDue == /\ pc[Loop] = "scan"
           /\ queue # <<>>
           /\ left[Head(queue)] = 0
           /\ queue' = Tail(queue)
           /\ marked' = [marked EXCEPT ![Head(queue)] = FALSE]
           /\ cur' = IF valid[Head(queue)] THEN Head(queue) ELSE NoTimer
           /\ Goto(Loop, IF valid[Head(queue)] THEN "fire" ELSE "scan")
           /\ UNCHANGED <<hand, left, valid, owned, unborn, timeout, pipe, stop, done>>

NoneDue == /\ pc[Loop] = "scan"
           /\ queue # <<>> => left[Head(queue)] > 0
           /\ Goto(Loop, "next")
           /\ UNCHANGED <<hand, cur, queue, left, marked, valid, owned, unborn,
                          timeout, pipe, stop, done>>

(* A second section reads when the next timer is due.                      *)
NextTimer == /\ pc[Loop] = "next"
             /\ timeout' = IF queue = <<>> THEN Forever ELSE left[Head(queue)]
             /\ Goto(Loop, "observe")
             /\ UNCHANGED <<hand, cur, queue, left, marked, valid, owned, unborn,
                            pipe, stop, done>>

ReadAlways == /\ pc[Loop] = "observe"
              /\ pipe > 0 \/ timeout = 0
              /\ pipe' = pipe - 1
              /\ Goto(Loop, "check")
              /\ UNCHANGED <<hand, cur, queue, left, marked, valid, owned, unborn,
                             timeout, stop, done>>

(* The observer returns when cancelled, reading one byte, or in time.      *)
Observe == /\ pc[Loop] = "observe"
           /\ pipe > 0 \/ timeout = 0
           /\ pipe' = IF pipe > 0 THEN pipe - 1 ELSE pipe
           /\ Goto(Loop, "check")
           /\ UNCHANGED <<hand, cur, queue, left, marked, valid, owned, unborn,
                          timeout, stop, done>>

(* -[OFTimer fire]: a repeating timer is given its next date, after the    *)
(* present, and is added again; another one is invalidated.                *)
Fire == /\ pc[Loop] = "fire"
        /\ IF cur \in Repeating
             THEN /\ \E d \in 1..MaxDelay : left' = [left EXCEPT ![cur] = d]
                  /\ hand' = [hand EXCEPT ![Loop] = cur]
                  /\ Goto(Loop, "insert")
                  /\ UNCHANGED valid
             ELSE /\ valid' = [valid EXCEPT ![cur] = FALSE]
                  /\ Goto(Loop, "callback")
                  /\ UNCHANGED <<left, hand>>
        /\ UNCHANGED <<cur, queue, marked, owned, unborn, timeout, pipe, stop, done>>

InsertAgain == /\ pc[Loop] = "insert"
               /\ InsertUnderMutex(Loop, left)
               /\ Goto(Loop, "mark")
               /\ UNCHANGED <<hand, cur, left, marked, valid, owned, unborn,
                              timeout, pipe, stop, done>>

(* The target of a timer may invalidate any timer of the loop.             *)
Invalidate == /\ pc[Loop] = "callback"
              /\ \E n \in Timers \ unborn : /\ valid[n]
                                            /\ valid' = [valid EXCEPT ![n] = FALSE]
              /\ UNCHANGED <<pc, hand, cur, queue, left, marked, owned, unborn,
                             timeout, pipe, stop, done>>

(* The end of -[fire]: under the mutex of the timer's condition it is done *)
(* and one of the threads that wait for it, if any does, is woken.         *)
Waiting(n) == {t \in Waiters : pc[t] = "waiting" /\ hand[t] = n}

Woken(t) == /\ pc' = [pc EXCEPT ![Loop] = "check", ![t] = "idle"]
            /\ hand' = [hand EXCEPT ![t] = NoTimer]

SignalNobody == Goto(Loop, "check") /\ UNCHANGED hand

Signal == IF Waiting(cur) = {} THEN Goto(Loop, "check") /\ UNCHANGED hand
          ELSE \E t \in Waiting(cur) : Woken(t)

UnmarkLate == /\ pc[Loop] = "callback"
              /\ cur' = NoTimer
              /\ done' = [n \in Waited |-> done[n] \/ n = cur]
              /\ Signal
              /\ marked' = [marked EXCEPT ![cur] = FALSE]
              /\ UNCHANGED <<queue, left, valid, owned, unborn, timeout, pipe, stop>>

Fired == /\ pc[Loop] = "callback"
         /\ cur' = NoTimer
         /\ done' = [n \in Waited |-> done[n] \/ n = cur]
         /\ Signal
         /\ UNCHANGED <<queue, left, marked, valid, owned, unborn, timeout, pipe,
                        stop>>

-----------------------------------------------------------------------------
(* -[stop], by another thread: the flag, then the wake-up.  Bound: a loop  *)
(* that has been stopped is not stopped once more.                         *)
Stop(t) == /\ t \in Others
           /\ pc[t] = "idle"
           /\ ~stop
           /\ stop' = TRUE
           /\ Goto(t, "cancel")
           /\ UNCHANGED <<hand, cur, queue, left, marked, valid, owned, unborn,
                          timeout, pipe, done>>

(* Time passes.                                                            *)
Tick == LET Closer(n) == IF n > 0 THEN n - 1 ELSE 0
        IN  /\ \E n \in Queued : left[n] > 0
            /\ left' = [n \in Timers |-> Closer(left[n])]
            /\ timeout' = IF timeout = Forever THEN Forever ELSE Closer(timeout)
            /\ UNCHANGED <<pc, hand, cur, queue, marked, valid, owned, unborn,
                           pipe, stop, done>>

LoopStep == \/ Run \/ CheckStop \/ TakeDue \/ NoneDue \/ NextTimer \/ Observe
            \/ Fire \/ InsertAgain \/ Mark(Loop) \/ CancelObserver(Loop) \/ Fired

Callback == Add(Loop) \/ Invalidate

Call(t) == \/ Add(t) \/ BeginReschedule(t) \/ Stop(t)
           \/ FindDone(t) \/ WaitUntilDone(t) \/ WakeForNoReason(t)

Continue(t) == SetDate(t) \/ Readd(t) \/ Mark(t) \/ CancelObserver(t)

Next == \/ LoopStep \/ Callback \/ Tick
        \/ \E t \in Others : Call(t) \/ Continue(t)
        \/ \E n \in Timers : Release(n)

Spec == Init /\ [][Next]_vars

(* Every thread goes on with what it has begun, and time passes.           *)
Fairness == /\ WF_vars(LoopStep) /\ WF_vars(Tick)
            /\ \A t \in Others : WF_vars(Continue(t))

FairSpec == Spec /\ Fairness

-----------------------------------------------------------------------------
TypeOK ==
    /\ pc \in [Threads -> {"idle", "mark", "cancel", "setDate", "readd", "check",
                           "scan", "next", "observe", "fire", "insert",
                           "callback", "done", "waiting"}]
    /\ hand \in [Threads -> Timers \cup {NoTimer}]
    /\ cur \in Timers \cup {NoTimer}
    /\ queue \in Seq(Timers)
    /\ left \in [Timers -> 0..MaxDelay]
    /\ marked \in [Timers -> BOOLEAN]
    /\ valid \in [Timers -> BOOLEAN]
    /\ done \in [Waited -> BOOLEAN]
    /\ owned \in [Timers -> BOOLEAN]
    /\ unborn \subseteq Timers
    /\ timeout \in 0..Forever
    /\ pipe \in 0..PipeSize
    /\ stop \in BOOLEAN

(* The queue is in the order of the fire dates and holds no timer twice,   *)
(* whoever adds what and when: the loop looks at the first timer only.     *)
Sorted == \A m, n \in 1..Len(queue) :
             m < n => queue[m] # queue[n] /\ left[queue[m]] <= left[queue[n]]

(* Whatever thread is between queueing and marking, a timer that is queued *)
(* is marked or about to be: -[setFireDate:] would not find it otherwise.  *)
QueuedIsMarked == \A n \in Queued :
                     marked[n] \/ \E t \in Threads : hand[t] = n /\ pc[t] = "mark"

(* "The run loop references the timer, so it should never be deallocated   *)
(* if it is still in a run loop" (OFTimer.m:488-491): a timer nobody       *)
(* refers to any more has no run loop set.                                 *)
FreedNotInRunLoop ==
    \A n \in Timers : n \notin unborn /\ ~owned[n] /\ n \notin Queued /\ cur # n
                         => ~marked[n]

(* Under FairSpec.  A timer added from any thread fires once it is due, or *)
(* is invalidated, or the loop is stopped: no wake-up of the observer is   *)
(* lost between reading the next date and waiting for it.  Two things can  *)
(* keep it from firing: rescheduling it again and again, and the pipe of   *)
(* the observer filling up (OFKernelEventObserver.m:272).                  *)
AddedTimerFires ==
    \A n \in Timers \ Rescheduled :
        n \in Queued ~> cur = n \/ ~valid[n] \/ stop \/ pipe = PipeSize

(* Under FairSpec.  A thread that waits for a timer while it fires comes   *)
(* back (OFTimer.h:471 "Waits until the timer fired"), whatever waits      *)
(* before it left behind.  That takes the loop not to block on the pipe,   *)
(* and, as only one thread is woken, Waiters to be a single thread.        *)
WaitReturns ==
    \A n \in Waited, t \in Waiters :
        t \in Waiting(n) /\ cur = n
            ~> t \notin Waiting(n) \/ pipe = PipeSize

(* Under FairSpec.  A loop that is running ends when another thread stops  *)
(* it, after the operation in progress (OFRunLoop.h:199), unless the pipe  *)
(* fills up.                                                               *)
StopEndsLoop ==
    pc[Loop] # "idle" /\ stop ~> pc[Loop] = "done" \/ pipe = PipeSize
=============================================================================
