---------------------------- MODULE OFRunLoopIO ----------------------------
(***************************************************************************)
(* The I/O half of a run loop: the request queues of OFRunLoopState        *)
(* (src/OFRunLoop.m) and the kernel event observer that feeds them, with   *)
(* epoll (src/OFEpollKernelEventObserver.m) or poll                        *)
(* (src/OFPollKernelEventObserver.m) underneath.                           *)
(*                                                                         *)
(* Everything here runs in the thread of the run loop.  What makes it hard *)
(* is that a delegate runs in the middle of a batch of events and may      *)
(* submit, cancel, open and close at will, its own object included; the    *)
(* batch goes on with what the kernel reported before.                     *)
(*                                                                         *)
(* A failed assertion ends the program: "aborted" records which one.       *)
(***************************************************************************)
EXTENDS Naturals, Sequences, FiniteSets, SequencesExt

CONSTANTS Objects,      (* the streams and sockets                         *)
          FDs,          (* the file descriptors the kernel hands out       *)
          Items,        (* the requests that can be made                   *)
          Files,        (* objects the kernel refuses to observe           *)
          Backends,     (* the observers built: "epoll", "poll"            *)
          Disciplined,  (* TRUE: requests on open objects only, and        *)
                        (* cancelled before their object is closed         *)
          NoFD,         (* the descriptor of a closed object               *)
          NoItem,       (* no delegate is running                          *)
          NoQueue       (* the dictionary has no queue                     *)

ASSUME ObjectAssumption == /\ Files \subseteq Objects
                           /\ Backends \subseteq {"epoll", "poll"} /\ Backends # {}
                           /\ Disciplined \in BOOLEAN
                           /\ NoFD \notin FDs /\ NoItem \notin Items \cup Objects
                           /\ NoQueue \notin [items : Seq(Items), count : Nat]
                           /\ IsFiniteSet(Objects) /\ IsFiniteSet(FDs)

Dirs == {"read", "write"}

VARIABLES fd,        (* the descriptor of each object                      *)
          observer,  (* the kernel event observer                          *)
          queues,    (* _readQueues and _writeQueues                       *)
          fresh,     (* requests not made yet                              *)
          kind,      (* what a request was made for                        *)
          batch,     (* events reported, not yet delivered                 *)
          frame,     (* the delegate call in progress                      *)
          aborted,   (* the assertion that failed                          *)
          touched    (* a request was written to after it was freed        *)

vars == <<fd, observer, queues, fresh, kind, batch, frame, aborted, touched>>

Kinds(d) == IF d = "read" THEN {"plain", "rearming"} ELSE {"connect", "rearming"}

NoFrame == [item |-> NoItem, obj |-> NoItem, dir |-> "read",
            freed |-> FALSE, detached |-> FALSE]

Init == /\ fd = [o \in Objects |-> NoFD]
        /\ \E b \in Backends :
              observer = [backend |-> b,
                          objects |-> [d \in Dirs |-> [o \in Objects |-> 0]],
                          events  |-> [f \in FDs |-> {}],
                          kernel  |-> [f \in FDs |-> {}],
                          target  |-> [f \in FDs |-> NoItem]]
        /\ queues = [d \in Dirs |-> [o \in Objects |-> NoQueue]]
        /\ fresh = Items
        /\ kind = [i \in Items |-> "plain"]
        /\ batch = <<>>
        /\ frame = NoFrame
        /\ aborted = "no"
        /\ touched = FALSE

(* Variants of the definition that follows them, here and below: the slips *)
(* of the code the properties are validated against.                       *)

(* An OFList: its objects, and its _count, which -[removeAllObjects] does  *)
(* not reset (OFList.m:277-291).                                           *)
EmptyList == [items |-> <<>>, count |-> 0]
Appended(l, i) == [items |-> Append(l.items, i), count |-> l.count + 1]
RemovedTwice(l) == [items |-> Tail(l.items), count |-> l.count - 2]
RemovedUncounted(l) == [l EXCEPT !.items = Tail(@)]
FirstRemoved(l) == [items |-> Tail(l.items), count |-> l.count - 1]
AllRemoved(l) == [l EXCEPT !.items = <<>>]

Pending(d, o) == IF queues[d][o] = NoQueue THEN <<>> ELSE queues[d][o].items

Running == aborted = "no"

Epoll == observer.backend = "epoll"

-----------------------------------------------------------------------------
(* The kernel event observer.  "events" is what the observer believes it   *)
(* watches (_FDToEvents, or the entries of _FDs), "kernel" what epoll      *)
(* really watches, "target" the object an event is delivered to (the       *)
(* data.ptr of epoll, or _FDToObject).                                     *)

(* -[of_addObject:fileDescriptor:events:] throws: epoll_ctl cannot add     *)
(* what is there, modify what is not, or watch a regular file.             *)
AddFails(o) == LET f == fd[o] IN
    \/ f = NoFD
    \/ Epoll /\ (o \in Files \/ (observer.events[f] = {}) # (observer.kernel[f] = {}))

WithoutTarget(s, o, d) ==
    [s EXCEPT !.objects[d][o] = @ + 1,
              !.events[fd[o]] = @ \cup {d},
              !.kernel[fd[o]] = s.events[fd[o]] \cup {d}]

Added(s, o, d) ==
    [s EXCEPT !.objects[d][o] = @ + 1,
              !.events[fd[o]] = @ \cup {d},
              !.kernel[fd[o]] = s.events[fd[o]] \cup {d},
              !.target[fd[o]] = IF Epoll \/ s.events[fd[o]] = {} THEN o ELSE @]

(* -[of_removeObject:fileDescriptor:events:] throws; epoll forgives the    *)
(* deletion of what the kernel has forgotten, not its modification.        *)
RemoveFails(s, o, d) == LET f == fd[o] IN
    \/ f = NoFD
    \/ Epoll /\ s.events[f] \ {d} # {} /\ s.kernel[f] = {}

RemoveNothing(s, o, d) == s

Removed(s, o, d) == LET f == fd[o]
                        left == s.events[f] \ {d}
                    IN  [s EXCEPT !.objects[d][o] = IF @ > 0 THEN @ - 1 ELSE @,
                                  !.events[f] = left,
                                  !.kernel[f] = left,
                                  !.target[f] = IF Epoll /\ left # {} THEN o ELSE @]

(* What a wait can report for a descriptor.  poll reports a hang-up        *)
(* whatever was asked for, and it is delivered as readiness to write.      *)
Reportable(f) ==
    IF Epoll THEN observer.kernel[f]
    ELSE IF observer.events[f] = {} \/ ~\E o \in Objects : fd[o] = f THEN {}
    ELSE observer.events[f] \cup {"write"}

-----------------------------------------------------------------------------
(* What the program may do between two events and inside a delegate.       *)

UserCode == Running /\ (frame # NoFrame \/ batch = <<>>)

Open(o) == /\ UserCode
           /\ fd[o] = NoFD
           /\ \E f \in FDs : /\ \A p \in Objects : fd[p] # f
                             /\ fd' = [fd EXCEPT ![o] = f]
           /\ UNCHANGED <<observer, queues, fresh, kind, batch, frame, aborted,
                          touched>>

(* -[close]: the kernel forgets the descriptor, the observer does not.     *)
Close(o) == /\ UserCode
            /\ fd[o] # NoFD
            /\ Disciplined => \A d \in Dirs : queues[d][o] = NoQueue
            /\ fd' = [fd EXCEPT ![o] = NoFD]
            /\ observer' = [observer EXCEPT !.kernel[fd[o]] = IF Epoll THEN {} ELSE @]
            /\ UNCHANGED <<queues, fresh, kind, batch, frame, aborted, touched>>

(* NEW_READ or NEW_WRITE, then QUEUE_ITEM.  The queue is in the dictionary *)
(* before the observer is asked, and stays there if the observer throws.   *)
Submit(o, d, i) ==
    /\ UserCode
    /\ Disciplined => fd[o] # NoFD
    /\ i \in fresh
    /\ fresh' = fresh \ {i}
    /\ \E k \in Kinds(d) : kind' = [kind EXCEPT ![i] = k]
    /\ LET list == IF queues[d][o] = NoQueue THEN EmptyList ELSE queues[d][o]
           first == list.count = 0
           fails == first /\ AddFails(o)
       IN  /\ queues' = [queues EXCEPT ![d][o] =
                            IF fails THEN list ELSE Appended(list, i)]
           /\ observer' = IF first /\ ~fails THEN Added(observer, o, d) ELSE observer
    /\ UNCHANGED <<fd, batch, frame, aborted, touched>>

(* One half of +[of_cancelAsyncRequestsForObject:mode:], from the state s  *)
(* the other half left.  The requests are freed before the observer is     *)
(* asked; its exception leaves the queue, now empty, in the dictionary.    *)
CancelDir(s, o, d) ==
    IF s.queues[d][o] = NoQueue \/ s.thrown \/ s.aborted # "no" THEN s
    ELSE IF s.queues[d][o].count = 0 THEN [s EXCEPT !.aborted = "cancel"]
    ELSE LET fails == RemoveFails(s.observer, o, d)
         IN  [observer |-> IF fails THEN s.observer ELSE Removed(s.observer, o, d),
              queues   |-> [s.queues EXCEPT ![d][o] =
                               IF fails THEN AllRemoved(@) ELSE NoQueue],
              frame    |-> IF frame.obj = o /\ frame.dir = d
                             THEN [s.frame EXCEPT !.freed = TRUE,
                                                  !.detached = @ \/ ~fails]
                             ELSE s.frame,
              thrown   |-> fails,
              aborted  |-> s.aborted]

(* The write queue first, then the read queue.                             *)
Cancel(o) ==
    /\ UserCode
    /\ \E d \in Dirs : queues[d][o] # NoQueue
    /\ LET now == [observer |-> observer, queues |-> queues, thrown |-> FALSE,
                   frame |-> frame, aborted |-> aborted]
           end == CancelDir(CancelDir(now, o, "write"), o, "read")
       IN  /\ observer' = end.observer
           /\ queues' = end.queues
           /\ frame' = end.frame
           /\ aborted' = end.aborted
    /\ UNCHANGED <<fd, fresh, kind, batch, touched>>

-----------------------------------------------------------------------------
(* -[observeForTimeInterval:] and the delivery of what it reports.         *)

Idle == Running /\ frame = NoFrame

(* -[of_processReadBuffers]: data left in the read buffers of streams is   *)
(* reported first, from a copy of _readObjects, and nothing else is.       *)
ObserveBuffers ==
    /\ Idle /\ batch = <<>>
    /\ \E os \in SUBSET {o \in Objects : observer.objects["read"][o] > 0} \ {{}} :
          batch' \in {[n \in 1..Len(s) |-> [fd |-> NoFD, obj |-> s[n], dir |-> "read"]] :
                         s \in SetToSeqs(os)}
    /\ UNCHANGED <<fd, observer, queues, fresh, kind, frame, aborted, touched>>

(* The events a wait can report, each with the object it is delivered to.  *)
Reports == {e \in [fd : FDs, obj : Objects, dir : Dirs] :
               e.dir \in Reportable(e.fd) /\ e.obj = observer.target[e.fd]}

(* The events of a descriptor are delivered together, reading first.       *)
ReadingFirst(s) ==
    \A n, k \in 1..Len(s) :
       s[n].fd = s[k].fd /\ s[n].dir = "read" /\ s[k].dir = "write" => k = n + 1

ObserveKernel ==
    /\ Idle /\ batch = <<>>
    /\ \E ready \in SUBSET Reports \ {{}} :
          batch' \in {s \in SetToSeqs(ready) : ReadingFirst(s)}
    /\ UNCHANGED <<fd, observer, queues, fresh, kind, frame, aborted, touched>>

(* The object the next event goes to: poll looks it up only now.           *)
NextObject == LET e == Head(batch)
              IN  IF e.fd # NoFD /\ ~Epoll THEN observer.target[e.fd] ELSE e.obj

Deliver == Idle /\ batch # <<>>

(* assert(queue != nil) in -[objectIsReadyForReading:] and its twin.       *)
DeliverToNobody ==
    /\ Deliver
    /\ queues[Head(batch).dir][NextObject] = NoQueue
    /\ aborted' = "ready"
    /\ UNCHANGED <<fd, observer, queues, fresh, kind, batch, frame, touched>>

(* -[handleObject:] has not got all its data yet, or the queue is empty.   *)
DeliverPartly ==
    /\ Deliver
    /\ LET q == queues[Head(batch).dir][NextObject]
       IN  q # NoQueue /\ (q.items # <<>> => kind[Head(q.items)] # "connect")
    /\ batch' = Tail(batch)
    /\ UNCHANGED <<fd, observer, queues, fresh, kind, frame, aborted, touched>>

(* -[handleObject:] calls the delegate.                                    *)
DeliverToDelegate ==
    /\ Deliver
    /\ LET d == Head(batch).dir
           q == Pending(d, NextObject)
       IN  /\ q # <<>>
           /\ kind[Head(q)] # "connect"
           /\ frame' = [item |-> Head(q), obj |-> NextObject, dir |-> d,
                          freed |-> FALSE, detached |-> FALSE]
    /\ batch' = Tail(batch)
    /\ UNCHANGED <<fd, observer, queues, fresh, kind, aborted, touched>>

DropFirstOnly(o, d, otherwise) ==
    /\ queues' = [queues EXCEPT ![d][o] = FirstRemoved(@)]
    /\ observer' = IF FirstRemoved(queues[d][o]).count = 0
                     THEN Removed(observer, o, d) ELSE observer
    /\ batch' = otherwise

(* The first request of a queue leaves it, and with the last one the queue *)
(* leaves the dictionary, once the observer has let go of the object.      *)
DropFirst(o, d, otherwise) ==
    LET rest == FirstRemoved(queues[d][o])
        last == rest.count = 0
        fails == last /\ RemoveFails(observer, o, d)
    IN  /\ queues' = [queues EXCEPT ![d][o] = IF last /\ ~fails THEN NoQueue ELSE rest]
        /\ observer' = IF last /\ ~fails THEN Removed(observer, o, d) ELSE observer
        /\ batch' = IF fails THEN <<>> ELSE otherwise

(* -[handleObject:] returns false on its own: a connection was established *)
(* or refused, or the delegate does not implement the method.              *)
DeliverDone ==
    /\ Deliver
    /\ Pending(Head(batch).dir, NextObject) # <<>>
    /\ DropFirst(NextObject, Head(batch).dir, Tail(batch))
    /\ UNCHANGED <<fd, fresh, kind, frame, aborted, touched>>

HandlerDoneAnyway ==
    /\ Running /\ frame # NoFrame
    /\ IF Pending(frame.dir, frame.obj) = <<>>
          THEN UNCHANGED <<queues, observer, batch>>
          ELSE DropFirst(frame.obj, frame.dir, batch)
    /\ frame' = NoFrame
    /\ UNCHANGED <<fd, fresh, kind, aborted, touched>>

(* The delegate returns false or nil.  The list it was called for was      *)
(* retained: if cancelled, it is empty and nothing is left to do.          *)
HandlerDone ==
    /\ Running /\ frame # NoFrame
    /\ IF frame.detached \/ Pending(frame.dir, frame.obj) = <<>>
          THEN UNCHANGED <<queues, observer, batch>>
          ELSE DropFirst(frame.obj, frame.dir, batch)
    /\ frame' = NoFrame
    /\ UNCHANGED <<fd, fresh, kind, aborted, touched>>

(* The delegate returns true or new data; an exact read and every kind of  *)
(* write then reset themselves for the next round.                         *)
HandlerContinue ==
    /\ Running /\ frame # NoFrame
    /\ touched' = (touched \/ (frame.freed /\ kind[frame.item] = "rearming"))
    /\ frame' = NoFrame
    /\ UNCHANGED <<fd, observer, queues, fresh, kind, batch, aborted>>

(* An exception of the delegate leaves the run loop; the rest of the batch *)
(* is gone, and whoever runs the loop again starts with a new one.         *)
HandlerThrows ==
    /\ Running /\ frame # NoFrame
    /\ frame' = NoFrame
    /\ batch' = <<>>
    /\ UNCHANGED <<fd, observer, queues, fresh, kind, aborted, touched>>

-----------------------------------------------------------------------------
Observe == ObserveBuffers \/ ObserveKernel

DeliverEvent == \/ DeliverToNobody \/ DeliverPartly \/ DeliverToDelegate
                \/ DeliverDone

Return == HandlerDone \/ HandlerContinue \/ HandlerThrows

User(o) == \/ Open(o) \/ Close(o) \/ Cancel(o)
           \/ \E d \in Dirs, i \in Items : Submit(o, d, i)

Next == Observe \/ DeliverEvent \/ Return \/ \E o \in Objects : User(o)

Spec == Init /\ [][Next]_vars

-----------------------------------------------------------------------------
TypeOK ==
    /\ fd \in [Objects -> FDs \cup {NoFD}]
    /\ observer \in [backend : Backends,
                     objects : [Dirs -> [Objects -> Nat]],
                     events : [FDs -> SUBSET Dirs],
                     kernel : [FDs -> SUBSET Dirs],
                     target : [FDs -> Objects \cup {NoItem}]]
    /\ \A d \in Dirs, o \in Objects :
          \/ queues[d][o] = NoQueue
          \/ queues[d][o] \in [items : Seq(Items), count : Nat]
    /\ fresh \subseteq Items
    /\ kind \in [Items -> {"plain", "rearming", "connect"}]
    /\ batch \in Seq([fd : FDs \cup {NoFD}, obj : Objects, dir : Dirs])
    /\ frame \in [item : Items \cup {NoItem}, obj : Objects \cup {NoItem},
                  dir : Dirs, freed : BOOLEAN, detached : BOOLEAN]
    /\ aborted \in {"no", "ready", "cancel"}
    /\ touched \in BOOLEAN

(* As long as requests are cancelled before their object is closed, the    *)
(* queues, the arrays of observed objects, the observer's book of          *)
(* descriptors and the kernel say the same of every object: it is watched  *)
(* in a direction exactly when a request is pending, and events of its     *)
(* descriptor come to it and not to a former owner of the number.          *)
WatchedIffPending ==
    \A o \in Objects :
      /\ \A d \in Dirs : observer.objects[d][o] = IF Pending(d, o) = <<>> THEN 0 ELSE 1
      /\ fd[o] # NoFD =>
           LET ds == {d \in Dirs : Pending(d, o) # <<>>}
           IN  /\ observer.events[fd[o]] = ds
               /\ observer.kernel[fd[o]] = ds
               /\ ds # {} => observer.target[fd[o]] = o

(* The count of a list, which -[removeAllObjects] does not reset           *)
(* (OFList.m:277-291), against its requests.  Whatever the program does, a *)
(* list never counts less than it holds, so that no list leaves the        *)
(* dictionary with requests in it and no count wraps below zero.  It may   *)
(* count more, after a cancellation the observer threw out of; a program   *)
(* that cancels before it closes meets no such cancellation, and its lists *)
(* count what they hold.                                                   *)
CountsAgree == \A d \in Dirs, o \in Objects :
    LET q == queues[d][o]
    IN  q # NoQueue => /\ Len(q.items) <= q.count
                       /\ Disciplined => q.count = Len(q.items)

(* "assert(queue != nil)" (OFRunLoop.m:283, 326): an object reported ready *)
(* has a queue of requests.                                                *)
ReadyHasQueue == aborted # "ready"

(* "assert(queue.count > 0)" (OFRunLoop.m:1308, 1321), for what is left of *)
(* a request the observer refused: only an object epoll cannot observe has *)
(* an empty queue in the dictionary, so that cancelling can only abort for *)
(* such an object.                                                         *)
OnlyRefusedLeaveEmptyQueues ==
    /\ \A d \in Dirs, o \in Objects :
          queues[d][o] = EmptyList => Epoll /\ o \in Files
    /\ aborted = "cancel" => Epoll

(* A delegate that has cancelled the requests of its own object may return *)
(* whatever it likes: nothing is done to the request any more              *)
(* (OFRunLoop.m:289-293 "in which case we should do nothing").             *)
FreedUntouched == ~touched

-----------------------------------------------------------------------------
(* The queues implement AsyncRequests: first come, first served, one       *)
(* delegate at a time, nothing after a cancellation.                       *)
Requests == INSTANCE AsyncRequests WITH
                pending <- [d \in Dirs |-> [o \in Objects |-> Pending(d, o)]],
                calling <- frame.item

ImplementsAsyncRequests == Requests!Spec
=============================================================================
