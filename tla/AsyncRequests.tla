--------------------------- MODULE AsyncRequests ---------------------------
(***************************************************************************)
(* What the asynchronous methods of streams and sockets promise, with no   *)
(* kernel, dictionary or run loop in it: the requests of one object in one *)
(* direction form a queue, only the oldest one is handed to its delegate,  *)
(* one delegate runs at a time, a request leaves the queue when its        *)
(* delegate is done with it, and cancelling drops every request of an      *)
(* object for good (src/OFStream.h:1413 "Cancels all pending asynchronous  *)
(* requests on the stream").                                               *)
(***************************************************************************)
EXTENDS Sequences, FiniteSets

CONSTANTS Objects,     (* the streams and sockets                          *)
          Dirs,        (* reading and writing                              *)
          Items,       (* the requests                                     *)
          NoItem       (* no delegate is running                           *)

VARIABLES pending,     (* the requests of an object in a direction         *)
          fresh,       (* requests not made yet                            *)
          calling      (* the request whose delegate is running            *)

vars == <<pending, fresh, calling>>

Init == /\ pending = [d \in Dirs |-> [o \in Objects |-> <<>>]]
        /\ fresh = Items
        /\ calling = NoItem

(* A request is accepted at the end of its queue, or refused.              *)
Submit(o, d, i) == /\ i \in fresh
                   /\ fresh' = fresh \ {i}
                   /\ \/ pending' = [pending EXCEPT ![d][o] = Append(@, i)]
                      \/ UNCHANGED pending
                   /\ UNCHANGED calling

Call(o, d) == /\ calling = NoItem
              /\ pending[d][o] # <<>>
              /\ calling' = Head(pending[d][o])
              /\ UNCHANGED <<pending, fresh>>

(* The request is done, without its delegate having been called.           *)
Drop(o, d) == /\ calling = NoItem
              /\ pending[d][o] # <<>>
              /\ pending' = [pending EXCEPT ![d][o] = Tail(@)]
              /\ UNCHANGED <<fresh, calling>>

(* The delegate returns and wants to be called again, or has thrown.       *)
Again == /\ calling # NoItem
         /\ calling' = NoItem
         /\ UNCHANGED <<pending, fresh>>

(* The delegate is done: its request goes, unless it was cancelled.        *)
Finish == /\ calling # NoItem
          /\ calling' = NoItem
          /\ pending' = [d \in Dirs |-> [o \in Objects |->
                           IF pending[d][o] # <<>> /\ Head(pending[d][o]) = calling
                               THEN Tail(pending[d][o]) ELSE pending[d][o]]]
          /\ UNCHANGED fresh

(* One direction at a time: the second may be left alone by an exception.  *)
Cancel(o, ds) == /\ pending' = [d \in Dirs |->
                       IF d \in ds THEN [pending[d] EXCEPT ![o] = <<>>]
                                   ELSE pending[d]]
                 /\ UNCHANGED <<fresh, calling>>

Next == \/ \E o \in Objects, d \in Dirs : \/ Call(o, d) \/ Drop(o, d)
                                          \/ \E i \in Items : Submit(o, d, i)
        \/ \E o \in Objects, ds \in SUBSET Dirs : Cancel(o, ds)
        \/ Again \/ Finish

Spec == Init /\ [][Next]_vars
=============================================================================
