------------------------------ MODULE JobPool ------------------------------
(***************************************************************************)
(* What OFThreadPool promises, with no thread, mutex or condition in it:   *)
(* every accepted job is run at most once, at most one job runs per worker *)
(* at a time, a caller of -[waitUntilDone] comes back only when no         *)
(* accepted job is unfinished, and nothing is accepted after the pool is   *)
(* gone.  (src/OFThreadPool.h: "Executes the specified selector on the     *)
(* target with the specified object as soon as a thread is ready",         *)
(* "Waits until all jobs are done".)                                       *)
(***************************************************************************)
EXTENDS Naturals, FiniteSets

CONSTANTS Jobs,      (* the jobs that can be handed to the pool            *)
          Callers,   (* the threads that use the pool                      *)
          Size       (* how many jobs can run at once                      *)

VARIABLES status,    (* the life of each job                               *)
          waiting,   (* the callers inside -[waitUntilDone]                *)
          closed     (* the pool has been released by everybody            *)

vars == <<status, waiting, closed>>

Running == {j \in Jobs : status[j] = "running"}

AllDone == \A j \in Jobs : status[j] \in {"new", "done"}

Init == /\ status = [j \in Jobs |-> "new"]
        /\ waiting = {}
        /\ closed = FALSE

Accept(j) == /\ ~closed
             /\ status[j] = "new"
             /\ status' = [status EXCEPT ![j] = "accepted"]
             /\ UNCHANGED <<waiting, closed>>

Start(j) == /\ status[j] = "accepted"
            /\ Cardinality(Running) < Size
            /\ status' = [status EXCEPT ![j] = "running"]
            /\ UNCHANGED <<waiting, closed>>

Finish(j) == /\ status[j] = "running"
             /\ status' = [status EXCEPT ![j] = "done"]
             /\ UNCHANGED <<waiting, closed>>

BeginWait(c) == /\ ~closed
                /\ c \notin waiting
                /\ waiting' = waiting \cup {c}
                /\ UNCHANGED <<status, closed>>

EndWait(c) == /\ c \in waiting
              /\ AllDone
              /\ waiting' = waiting \ {c}
              /\ UNCHANGED <<status, closed>>

Close == /\ ~closed
         /\ waiting = {}
         /\ closed' = TRUE
         /\ UNCHANGED <<status, waiting>>

Next == \/ \E j \in Jobs : Accept(j) \/ Start(j) \/ Finish(j)
        \/ \E c \in Callers : BeginWait(c) \/ EndWait(c)
        \/ Close

Spec == Init /\ [][Next]_vars
=============================================================================
