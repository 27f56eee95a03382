------------------------------ MODULE Monitors ------------------------------
(***************************************************************************)
(* What @synchronized promises (src/runtime/synchronized.m): a thread is   *)
(* inside an object, as often as it entered it, only while no other is.    *)
(***************************************************************************)
EXTENDS Integers

CONSTANTS Threads, Objects

VARIABLE held    (* how often each thread is inside each object            *)

Init == held = [t \in Threads |-> [o \in Objects |-> 0]]

Enter(t, o) ==
    /\ \A u \in Threads \ {t} : held[u][o] = 0
    /\ held' = [held EXCEPT ![t][o] = @ + 1]

Leave(t, o) ==
    /\ held[t][o] > 0
    /\ held' = [held EXCEPT ![t][o] = @ - 1]

Next == \E t \in Threads, o \in Objects : Enter(t, o) \/ Leave(t, o)

Spec == Init /\ [][Next]_held
=============================================================================
