------------------------- MODULE OFRunLoopIO_proofs -------------------------
(***************************************************************************)
(* Theorems about OFRunLoopIO, for every set of objects, descriptors and   *)
(* requests, for epoll and poll.  All but a part of CountsAreRight are for *)
(* programs that are Disciplined: they make requests of open objects only  *)
(* and cancel before they close.                                           *)
(***************************************************************************)
EXTENDS OFRunLoopIO, SequenceTheorems, FiniteSetTheorems, TLAPS

Lists == [items : Seq(Items), count : Nat]

Dictionaries == [Dirs -> [Objects -> Lists \cup {NoQueue}]]

Observers == [backend : Backends,
              objects : [Dirs -> [Objects -> Nat]],
              events  : [FDs -> SUBSET Dirs],
              kernel  : [FDs -> SUBSET Dirs],
              target  : [FDs -> Objects \cup {NoItem}]]

Events == [fd : FDs \cup {NoFD}, obj : Objects, dir : Dirs]

ItemsOf(l) == IF l = NoQueue THEN <<>> ELSE l.items

(* An object has one descriptor, and a descriptor at most one object.      *)
Descriptors ==
    /\ fd \in [Objects -> FDs \cup {NoFD}]
    /\ \A o, p \in Objects : fd[o] = fd[p] /\ fd[o] # NoFD => o = p

(* The dictionaries qs, whatever step they are in the middle of: only open *)
(* objects have queues, a queue counts what it holds, and holds something  *)
(* unless epoll refused its object.                                        *)
SoundQueues(qs, backend) ==
    /\ qs \in Dictionaries
    /\ \A d \in Dirs, o \in Objects : qs[d][o] # NoQueue =>
          /\ fd[o] # NoFD
          /\ qs[d][o].count = Len(qs[d][o].items)
          /\ qs[d][o].items = <<>> => backend = "epoll" /\ o \in Files

Wanted(qs, o) == {d \in Dirs : ItemsOf(qs[d][o]) # <<>>}

(* The observer ob watches what the queues qs want, descriptors without an *)
(* object not at all.                                                      *)
Watches(ob, qs) ==
    /\ \A d \in Dirs, o \in Objects :
          ob.objects[d][o] = IF ItemsOf(qs[d][o]) = <<>> THEN 0 ELSE 1
    /\ \A o \in Objects : fd[o] # NoFD =>
          /\ ob.events[fd[o]] = Wanted(qs, o)
          /\ ob.kernel[fd[o]] = Wanted(qs, o)
          /\ Wanted(qs, o) # {} => ob.target[fd[o]] = o
    /\ \A f \in FDs : (\A o \in Objects : fd[o] # f) =>
          ob.events[f] = {} /\ ob.kernel[f] = {}

Sound(ob, qs) == ob \in Observers /\ SoundQueues(qs, ob.backend) /\ Watches(ob, qs)

(* A request is unmade or in at most one place of one queue.               *)
Once(qs, unmade) == \A d, e \in Dirs, o, p \in Objects :
    \A m \in 1..Len(ItemsOf(qs[d][o])), n \in 1..Len(ItemsOf(qs[e][p])) :
       /\ ItemsOf(qs[d][o])[m] \notin unmade
       /\ ItemsOf(qs[d][o])[m] = ItemsOf(qs[e][p])[n] => d = e /\ o = p /\ m = n

(* The delegate call in progress is for the first request of a queue, or,  *)
(* once that queue was cancelled, for a request that is in none.           *)
Calling(qs, fr, unmade) ==
    \/ fr = NoFrame
    \/ /\ fr \in [item : Items, obj : Objects, dir : Dirs, freed : BOOLEAN,
                  detached : BOOLEAN]
       /\ fr.item \notin unmade
       /\ ~fr.detached => /\ ItemsOf(qs[fr.dir][fr.obj]) # <<>>
                          /\ Head(ItemsOf(qs[fr.dir][fr.obj])) = fr.item
       /\ fr.detached => \A d \in Dirs, o \in Objects :
                            \A n \in 1..Len(ItemsOf(qs[d][o])) : ItemsOf(qs[d][o])[n] # fr.item

(* The object of an event that poll will look up is there.                 *)
Targets == \A n \in 1..Len(batch) :
    batch[n].fd # NoFD => batch[n].fd \in FDs /\ observer.target[batch[n].fd] \in Objects

Typed == /\ fresh \in SUBSET Items
         /\ kind \in [Items -> {"plain", "rearming", "connect"}]
         /\ batch \in Seq(Events)
         /\ aborted \in {"no", "ready", "cancel"}
         /\ aborted = "cancel" => Epoll
         /\ touched \in BOOLEAN

IInv == /\ Descriptors
        /\ Sound(observer, queues)
        /\ Once(queues, fresh)
        /\ Calling(queues, frame, fresh)
        /\ Targets
        /\ Typed

-----------------------------------------------------------------------------
(* Dictionaries, and what one step does to one of their queues.            *)

LEMMA ListsAreNotNoQueue == NoQueue \notin Lists
  BY ObjectAssumption DEF Lists

(* What a step does to one queue of one object.                            *)
LEMMA OneQueue ==
    ASSUME NEW qs \in Dictionaries, NEW d \in Dirs, NEW o \in Objects,
           NEW l \in Lists \cup {NoQueue}
    PROVE  LET new == [qs EXCEPT ![d][o] = l]
           IN  /\ new \in Dictionaries
               /\ new[d][o] = l
               /\ \A e \in Dirs, p \in Objects : e # d \/ p # o => new[e][p] = qs[e][p]
BY DEF Dictionaries

(* Lists: what appending, removing the first and removing all do.          *)
LEMMA ListOps ==
    ASSUME NEW l \in Lists, l.count = Len(l.items), NEW i \in Items
    PROVE  /\ Appended(l, i) \in Lists /\ Appended(l, i) # NoQueue
           /\ Appended(l, i).items = Append(l.items, i)
           /\ Appended(l, i).count = Len(Appended(l, i).items)
           /\ Appended(l, i).items # <<>>
<1>1. l.items \in Seq(Items) /\ l.count \in Nat BY DEF Lists
<1>2. /\ Append(l.items, i) \in Seq(Items) /\ Len(Append(l.items, i)) = Len(l.items) + 1
      /\ Len(l.items) \in Nat
  BY <1>1
<1>3. Append(l.items, i) # <<>> BY <1>2
<1>4. Appended(l, i) = [items |-> Append(l.items, i), count |-> l.count + 1]
  BY DEF Appended
<1>5. l.count + 1 \in Nat BY <1>1
<1>6. Appended(l, i) \in Lists BY <1>2, <1>4, <1>5 DEF Lists
<1>7. Appended(l, i) # NoQueue BY <1>6, ListsAreNotNoQueue
<1>8. /\ Appended(l, i).items = Append(l.items, i)
      /\ Appended(l, i).count = l.count + 1
  BY <1>4
<1>9. Appended(l, i).count = Len(Appended(l, i).items) BY <1>2, <1>8
<1> QED BY <1>3, <1>6, <1>7, <1>8, <1>9

LEMMA FirstOps ==
    ASSUME NEW l \in Lists, l.count = Len(l.items), l.items # <<>>
    PROVE  /\ FirstRemoved(l) \in Lists /\ FirstRemoved(l) # NoQueue
           /\ FirstRemoved(l).items = Tail(l.items)
           /\ FirstRemoved(l).count = Len(FirstRemoved(l).items)
           /\ FirstRemoved(l).count = 0 <=> Tail(l.items) = <<>>
<1>1. l.items \in Seq(Items) /\ l.count \in Nat BY DEF Lists
<1>2. /\ Tail(l.items) \in Seq(Items) /\ Len(Tail(l.items)) = Len(l.items) - 1
      /\ Len(l.items) \in Nat
  BY <1>1, HeadTailProperties
<1>3. Len(Tail(l.items)) = 0 <=> Tail(l.items) = <<>> BY <1>2, EmptySeq
<1>4. FirstRemoved(l) = [items |-> Tail(l.items), count |-> l.count - 1]
  BY DEF FirstRemoved
<1>5. l.count - 1 = Len(Tail(l.items)) /\ l.count - 1 \in Nat BY <1>2
<1>6. FirstRemoved(l) \in Lists BY <1>2, <1>4, <1>5 DEF Lists
<1>7. FirstRemoved(l).items = Tail(l.items) /\ FirstRemoved(l).count = l.count - 1
  BY <1>4
<1>8. FirstRemoved(l) # NoQueue BY <1>6, ListsAreNotNoQueue
<1>9. l.count - 1 = 0 <=> Tail(l.items) = <<>> BY <1>3, <1>5
<1> QED BY <1>5, <1>6, <1>7, <1>8, <1>9

(* What asking the observer to watch an object does to its books.          *)
LEMMA AddedBooks ==
    ASSUME NEW s \in Observers, NEW o \in Objects, NEW d \in Dirs, fd[o] \in FDs
    PROVE  LET r == Added(s, o, d)
           IN  /\ r \in Observers /\ r.backend = s.backend
               /\ r.objects[d][o] = s.objects[d][o] + 1
               /\ \A e \in Dirs, p \in Objects :
                     e # d \/ p # o => r.objects[e][p] = s.objects[e][p]
               /\ r.events[fd[o]] = s.events[fd[o]] \cup {d}
               /\ r.kernel[fd[o]] = s.events[fd[o]] \cup {d}
               /\ r.target[fd[o]] = IF Epoll \/ s.events[fd[o]] = {} THEN o
                                    ELSE s.target[fd[o]]
               /\ \A f \in FDs : f # fd[o] => /\ r.events[f] = s.events[f]
                                              /\ r.kernel[f] = s.kernel[f]
                                              /\ r.target[f] = s.target[f]
<1> DEFINE r == Added(s, o, d)
<1>1. /\ s.objects \in [Dirs -> [Objects -> Nat]]
      /\ s.events \in [FDs -> SUBSET Dirs] /\ s.kernel \in [FDs -> SUBSET Dirs]
      /\ s.target \in [FDs -> Objects \cup {NoItem}]
      /\ DOMAIN s = {"backend", "objects", "events", "kernel", "target"}
  BY DEF Observers
<1>2. /\ r.backend = s.backend
      /\ r.objects = [s.objects EXCEPT ![d][o] = @ + 1]
      /\ r.events = [s.events EXCEPT ![fd[o]] = @ \cup {d}]
      /\ r.kernel = [s.kernel EXCEPT ![fd[o]] = s.events[fd[o]] \cup {d}]
      /\ r.target = [s.target EXCEPT ![fd[o]] =
                        IF Epoll \/ s.events[fd[o]] = {} THEN o ELSE @]
  BY <1>1 DEF Added
<1>3. [s.objects EXCEPT ![d][o] = @ + 1] \in [Dirs -> [Objects -> Nat]] BY <1>1
<1>4. r \in Observers BY <1>3 DEF Observers, Added
<1> HIDE DEF r
<1>5. /\ r.objects[d][o] = s.objects[d][o] + 1
      /\ \A e \in Dirs, p \in Objects : e # d \/ p # o => r.objects[e][p] = s.objects[e][p]
  BY <1>1, <1>2
<1>6. /\ r.events[fd[o]] = s.events[fd[o]] \cup {d}
      /\ r.kernel[fd[o]] = s.events[fd[o]] \cup {d}
      /\ r.target[fd[o]] = IF Epoll \/ s.events[fd[o]] = {} THEN o ELSE s.target[fd[o]]
      /\ \A f \in FDs : f # fd[o] => /\ r.events[f] = s.events[f]
                                     /\ r.kernel[f] = s.kernel[f]
                                     /\ r.target[f] = s.target[f]
  BY <1>1, <1>2
<1> QED BY <1>2, <1>4, <1>5, <1>6 DEF r

LEMMA RemovedBooks ==
    ASSUME NEW s \in Observers, NEW o \in Objects, NEW d \in Dirs, fd[o] \in FDs
    PROVE  LET r == Removed(s, o, d)
           IN  /\ r \in Observers /\ r.backend = s.backend
               /\ r.objects[d][o] = IF s.objects[d][o] > 0 THEN s.objects[d][o] - 1 ELSE 0
               /\ \A e \in Dirs, p \in Objects :
                     e # d \/ p # o => r.objects[e][p] = s.objects[e][p]
               /\ r.events[fd[o]] = s.events[fd[o]] \ {d}
               /\ r.kernel[fd[o]] = s.events[fd[o]] \ {d}
               /\ r.target[fd[o]] = IF Epoll /\ s.events[fd[o]] \ {d} # {} THEN o
                                    ELSE s.target[fd[o]]
               /\ \A f \in FDs : f # fd[o] => /\ r.events[f] = s.events[f]
                                              /\ r.kernel[f] = s.kernel[f]
                                              /\ r.target[f] = s.target[f]
<1> DEFINE r == Removed(s, o, d)
           n == IF s.objects[d][o] > 0 THEN s.objects[d][o] - 1 ELSE 0
<1>1. /\ s.objects \in [Dirs -> [Objects -> Nat]]
      /\ s.events \in [FDs -> SUBSET Dirs] /\ s.kernel \in [FDs -> SUBSET Dirs]
      /\ s.target \in [FDs -> Objects \cup {NoItem}]
      /\ DOMAIN s = {"backend", "objects", "events", "kernel", "target"}
  BY DEF Observers
<1>2. /\ r.backend = s.backend
      /\ r.objects = [s.objects EXCEPT ![d][o] = IF @ > 0 THEN @ - 1 ELSE @]
      /\ r.events = [s.events EXCEPT ![fd[o]] = @ \ {d}]
      /\ r.kernel = [s.kernel EXCEPT ![fd[o]] = s.events[fd[o]] \ {d}]
      /\ r.target = [s.target EXCEPT ![fd[o]] =
                        IF Epoll /\ s.events[fd[o]] \ {d} # {} THEN o ELSE @]
  BY <1>1 DEF Removed
<1>3. s.objects[d][o] \in Nat /\ n \in Nat BY <1>1
<1>4. n = IF s.objects[d][o] > 0 THEN s.objects[d][o] - 1 ELSE s.objects[d][o] BY <1>3
<1> HIDE DEF n
<1>5. [s.objects EXCEPT ![d][o] = IF @ > 0 THEN @ - 1 ELSE @] \in [Dirs -> [Objects -> Nat]]
  BY <1>1, <1>3, <1>4
<1>6. r \in Observers BY <1>5 DEF Observers, Removed
<1> HIDE DEF r
<1>7. /\ r.objects[d][o] = n
      /\ \A e \in Dirs, p \in Objects : e # d \/ p # o => r.objects[e][p] = s.objects[e][p]
  BY <1>1, <1>2, <1>4
<1>8. /\ r.events[fd[o]] = s.events[fd[o]] \ {d}
      /\ r.kernel[fd[o]] = s.events[fd[o]] \ {d}
      /\ r.target[fd[o]] = IF Epoll /\ s.events[fd[o]] \ {d} # {} THEN o
                           ELSE s.target[fd[o]]
      /\ \A f \in FDs : f # fd[o] => /\ r.events[f] = s.events[f]
                                     /\ r.kernel[f] = s.kernel[f]
                                     /\ r.target[f] = s.target[f]
  BY <1>1, <1>2
<1> QED BY <1>2, <1>6, <1>7, <1>8 DEF n, r

-----------------------------------------------------------------------------
(* The queues and the observer's books stay sound.                         *)

LEMMA ObserverTypes ==
    ASSUME NEW ob \in Observers, NEW d \in Dirs, NEW o \in Objects, NEW f \in FDs
    PROVE  /\ ob.objects[d][o] \in Nat /\ ob.events[f] \subseteq Dirs
           /\ ob.kernel[f] \subseteq Dirs /\ ob.target[f] \in Objects \cup {NoItem}
           /\ ob.backend \in Backends
BY DEF Observers

(* The books of o in direction d follow its queue, which becomes l.        *)
Follows(ob, ob2, qs, d, o, l) ==
    /\ ob2 \in Observers /\ ob2.backend = ob.backend
    /\ ob2.objects[d][o] = IF ItemsOf(l) = <<>> THEN 0 ELSE 1
    /\ \A e \in Dirs, p \in Objects :
          e # d \/ p # o => ob2.objects[e][p] = ob.objects[e][p]
    /\ \A f \in FDs : f # fd[o] => /\ ob2.events[f] = ob.events[f]
                                   /\ ob2.kernel[f] = ob.kernel[f]
                                   /\ ob2.target[f] = ob.target[f]
    /\ LET ev == IF ItemsOf(l) = <<>> THEN Wanted(qs, o) \ {d} ELSE Wanted(qs, o) \cup {d}
       IN  /\ ob2.events[fd[o]] = ev /\ ob2.kernel[fd[o]] = ev
           /\ ev # {} => ob2.target[fd[o]] = o

SoundList(l, backend, o) ==
    l # NoQueue => /\ l.count = Len(l.items)
                   /\ l.items = <<>> => backend = "epoll" /\ o \in Files

LEMMA SoundUpdate ==
    ASSUME Descriptors, NEW ob, NEW qs, Sound(ob, qs),
           NEW d \in Dirs, NEW o \in Objects, fd[o] # NoFD,
           NEW l \in Lists \cup {NoQueue}, SoundList(l, ob.backend, o),
           NEW ob2, Follows(ob, ob2, qs, d, o, l)
    PROVE  Sound(ob2, [qs EXCEPT ![d][o] = l])
<1> USE DEF SoundList, Follows
<1> DEFINE new == [qs EXCEPT ![d][o] = l]
           ev == IF ItemsOf(l) = <<>> THEN Wanted(qs, o) \ {d} ELSE Wanted(qs, o) \cup {d}
<1>0. qs \in Dictionaries BY DEF Sound, SoundQueues
<1>1. /\ new \in Dictionaries /\ new[d][o] = l
      /\ \A e \in Dirs, p \in Objects : e # d \/ p # o => new[e][p] = qs[e][p]
  BY <1>0, OneQueue
<1> HIDE DEF new
<1>2. SoundQueues(new, ob2.backend)
  BY <1>1 DEF Sound, SoundQueues
<1>3. Wanted(new, o) = ev
  BY <1>1 DEF Wanted
<1>4. \A p \in Objects : p # o => Wanted(new, p) = Wanted(qs, p)
  BY <1>1 DEF Wanted
<1>5. \A e \in Dirs, p \in Objects :
         ob2.objects[e][p] = IF ItemsOf(new[e][p]) = <<>> THEN 0 ELSE 1
  BY <1>1 DEF Sound, Watches
<1>6. ASSUME NEW p \in Objects, fd[p] # NoFD
      PROVE  /\ ob2.events[fd[p]] = Wanted(new, p)
             /\ ob2.kernel[fd[p]] = Wanted(new, p)
             /\ Wanted(new, p) # {} => ob2.target[fd[p]] = p
  <2>1. CASE p = o BY <1>3, <2>1
  <2>2. CASE p # o
    <3>1. fd[p] # fd[o] /\ fd[p] \in FDs BY <1>6, <2>2 DEF Descriptors
    <3> QED BY <1>4, <1>6, <2>2, <3>1 DEF Sound, Watches
  <2> QED BY <2>1, <2>2
<1>7. ASSUME NEW f \in FDs, \A p \in Objects : fd[p] # f
      PROVE  ob2.events[f] = {} /\ ob2.kernel[f] = {}
  BY <1>7 DEF Sound, Watches
<1>8. Watches(ob2, new) BY <1>5, <1>6, <1>7 DEF Watches
<1> QED BY <1>2, <1>8 DEF Sound, new

(* A queue that goes on wanting, or not wanting, its events.               *)
LEMMA SoundQuietly ==
    ASSUME Descriptors, NEW ob, NEW qs, Sound(ob, qs),
           NEW d \in Dirs, NEW o \in Objects, fd[o] # NoFD,
           NEW l \in Lists, l.count = Len(l.items),
           l.items = <<>> => ob.backend = "epoll" /\ o \in Files,
           (l.items = <<>>) <=> (ItemsOf(qs[d][o]) = <<>>)
    PROVE  Sound(ob, [qs EXCEPT ![d][o] = l])
<1> DEFINE ev == IF ItemsOf(l) = <<>> THEN Wanted(qs, o) \ {d} ELSE Wanted(qs, o) \cup {d}
<1>1. l # NoQueue /\ ItemsOf(l) = l.items BY ListsAreNotNoQueue DEF ItemsOf
<1>2. ev = Wanted(qs, o) BY <1>1 DEF Wanted
<1>3. Follows(ob, ob, qs, d, o, l)
  BY <1>1, <1>2 DEF Sound, Watches, Follows
<1>4. SoundList(l, ob.backend, o) BY DEF SoundList
<1> QED BY <1>3, <1>4, SoundUpdate

(* A request is appended to a queue the observer watches already.          *)
LEMMA SoundMore ==
    ASSUME Descriptors, NEW ob, NEW qs, Sound(ob, qs),
           NEW d \in Dirs, NEW o \in Objects, NEW i \in Items,
           ItemsOf(qs[d][o]) # <<>>
    PROVE  Sound(ob, [qs EXCEPT ![d][o] = Appended(qs[d][o], i)])
<1>1. qs[d][o] \in Lists /\ fd[o] # NoFD /\ qs[d][o].count = Len(qs[d][o].items)
  BY DEF Sound, SoundQueues, Dictionaries, ItemsOf
<1>2. /\ Appended(qs[d][o], i) \in Lists /\ Appended(qs[d][o], i).items # <<>>
      /\ Appended(qs[d][o], i).count = Len(Appended(qs[d][o], i).items)
  BY <1>1, ListOps
<1> QED BY <1>1, <1>2, SoundQuietly

(* The first request of a queue: the observer is asked to watch.           *)
LEMMA SoundFirst ==
    ASSUME Descriptors, NEW ob, NEW qs, Sound(ob, qs), ob.backend = observer.backend,
           NEW d \in Dirs, NEW o \in Objects, NEW i \in Items, fd[o] # NoFD,
           ItemsOf(qs[d][o]) = <<>>,
           NEW l \in Lists, l.items = <<>>, l.count = 0
    PROVE  Sound(Added(ob, o, d), [qs EXCEPT ![d][o] = Appended(l, i)])
<1> DEFINE m == Appended(l, i)
           ob2 == Added(ob, o, d)
           ev == Wanted(qs, o) \cup {d}
<1>1. l.count = Len(l.items) OBVIOUS
<1>2. m \in Lists /\ m # NoQueue /\ m.items # <<>> /\ m.count = Len(m.items)
  BY <1>1, ListOps
<1>3. ob \in Observers /\ fd[o] \in FDs BY DEF Sound, Descriptors
<1>4. /\ ob2 \in Observers /\ ob2.backend = ob.backend
      /\ ob2.objects[d][o] = ob.objects[d][o] + 1
      /\ \A e \in Dirs, p \in Objects :
            e # d \/ p # o => ob2.objects[e][p] = ob.objects[e][p]
      /\ ob2.events[fd[o]] = ob.events[fd[o]] \cup {d}
      /\ ob2.kernel[fd[o]] = ob.events[fd[o]] \cup {d}
      /\ ob2.target[fd[o]] = IF Epoll \/ ob.events[fd[o]] = {} THEN o
                             ELSE ob.target[fd[o]]
      /\ \A f \in FDs : f # fd[o] => /\ ob2.events[f] = ob.events[f]
                                     /\ ob2.kernel[f] = ob.kernel[f]
                                     /\ ob2.target[f] = ob.target[f]
  BY <1>3, AddedBooks
<1>5. /\ ob.objects[d][o] = 0 /\ ob.events[fd[o]] = Wanted(qs, o)
      /\ Wanted(qs, o) # {} => ob.target[fd[o]] = o
  BY DEF Sound, Watches
<1>6. ItemsOf(m) = m.items BY <1>2 DEF ItemsOf
<1>10. SoundList(m, ob.backend, o) BY <1>2 DEF SoundList
<1> HIDE DEF m, ob2
<1>7. ev = IF ItemsOf(m) = <<>> THEN Wanted(qs, o) \ {d} ELSE Wanted(qs, o) \cup {d}
  BY <1>2, <1>6
<1>8. /\ ob2.objects[d][o] = IF ItemsOf(m) = <<>> THEN 0 ELSE 1
      /\ ob2.events[fd[o]] = ev /\ ob2.kernel[fd[o]] = ev /\ ob2.target[fd[o]] = o
  BY <1>2, <1>4, <1>5, <1>6
<1>9. Follows(ob, ob2, qs, d, o, m) BY <1>4, <1>7, <1>8 DEF Follows
<1> QED
  <2>1. Sound(ob2, [qs EXCEPT ![d][o] = m]) BY <1>2, <1>9, <1>10, SoundUpdate
  <2> QED BY <2>1 DEF m, ob2

(* A queue leaves the dictionary, and the observer lets go of the object.  *)
LEMMA SoundLast ==
    ASSUME Descriptors, NEW ob, NEW qs, Sound(ob, qs), ob.backend = observer.backend,
           NEW d \in Dirs, NEW o \in Objects, ItemsOf(qs[d][o]) # <<>>
    PROVE  Sound(Removed(ob, o, d), [qs EXCEPT ![d][o] = NoQueue])
<1> DEFINE ob2 == Removed(ob, o, d)
           ev == Wanted(qs, o) \ {d}
<1>1. qs[d][o] # NoQueue /\ fd[o] # NoFD
  BY DEF Sound, SoundQueues, ItemsOf
<1>2. ob \in Observers /\ fd[o] \in FDs BY <1>1 DEF Sound, Descriptors
<1>3. /\ ob2 \in Observers /\ ob2.backend = ob.backend
      /\ ob2.objects[d][o] = IF ob.objects[d][o] > 0 THEN ob.objects[d][o] - 1 ELSE 0
      /\ \A e \in Dirs, p \in Objects :
            e # d \/ p # o => ob2.objects[e][p] = ob.objects[e][p]
      /\ ob2.events[fd[o]] = ob.events[fd[o]] \ {d}
      /\ ob2.kernel[fd[o]] = ob.events[fd[o]] \ {d}
      /\ ob2.target[fd[o]] = IF Epoll /\ ob.events[fd[o]] \ {d} # {} THEN o
                             ELSE ob.target[fd[o]]
      /\ \A f \in FDs : f # fd[o] => /\ ob2.events[f] = ob.events[f]
                                     /\ ob2.kernel[f] = ob.kernel[f]
                                     /\ ob2.target[f] = ob.target[f]
  BY <1>2, RemovedBooks
<1>4. /\ ob.objects[d][o] = 1 /\ ob.events[fd[o]] = Wanted(qs, o)
      /\ Wanted(qs, o) # {} => ob.target[fd[o]] = o
  BY <1>1 DEF Sound, Watches
<1>5. ItemsOf(NoQueue) = <<>> BY DEF ItemsOf
<1>6. d \in Wanted(qs, o) BY DEF Wanted
<1> HIDE DEF ob2
<1>7. ev = IF ItemsOf(NoQueue) = <<>> THEN Wanted(qs, o) \ {d} ELSE Wanted(qs, o) \cup {d}
  BY <1>5
<1>8. /\ ob2.objects[d][o] = IF ItemsOf(NoQueue) = <<>> THEN 0 ELSE 1
      /\ ob2.events[fd[o]] = ev /\ ob2.kernel[fd[o]] = ev
      /\ ev # {} => ob2.target[fd[o]] = o
  BY <1>3, <1>4, <1>5, <1>6
<1>9. Follows(ob, ob2, qs, d, o, NoQueue) BY <1>3, <1>7, <1>8 DEF Follows
<1>10. SoundList(NoQueue, ob.backend, o) BY DEF SoundList
<1> QED
  <2>1. Sound(ob2, [qs EXCEPT ![d][o] = NoQueue]) BY <1>1, <1>9, <1>10, SoundUpdate
  <2> QED BY <2>1 DEF ob2

(* While that holds, the observer never refuses to let go.                 *)
LEMMA NoRefusal ==
    ASSUME Descriptors, NEW ob, NEW qs, Sound(ob, qs),
           NEW d \in Dirs, NEW o \in Objects, qs[d][o] # NoQueue
    PROVE  ~RemoveFails(ob, o, d)
BY DEF Sound, SoundQueues, Watches, RemoveFails

-----------------------------------------------------------------------------
(* Where the requests are.                                                 *)

LEMMA ItemsAreSequences ==
    ASSUME NEW qs \in Dictionaries, NEW d \in Dirs, NEW o \in Objects
    PROVE  ItemsOf(qs[d][o]) \in Seq(Items)
BY DEF Dictionaries, Lists, ItemsOf

(* A queue loses k requests at its head, or all of them.                   *)
LEMMA OnceDropped ==
    ASSUME NEW qs \in Dictionaries, NEW F, Once(qs, F),
           NEW d \in Dirs, NEW o \in Objects, NEW l \in Lists \cup {NoQueue}, NEW k \in Nat,
           \A n \in 1..Len(ItemsOf(l)) :
              /\ n + k \in 1..Len(ItemsOf(qs[d][o]))
              /\ ItemsOf(l)[n] = ItemsOf(qs[d][o])[n + k]
    PROVE  Once([qs EXCEPT ![d][o] = l], F)
<1> DEFINE new == [qs EXCEPT ![d][o] = l]
<1>1. /\ new \in Dictionaries /\ new[d][o] = l
      /\ \A e \in Dirs, p \in Objects : e # d \/ p # o => new[e][p] = qs[e][p]
  BY OneQueue
<1> HIDE DEF new
<1> DEFINE Back(e, p, m) == IF e = d /\ p = o THEN m + k ELSE m
<1>2. ASSUME NEW e \in Dirs, NEW p \in Objects, NEW m \in 1..Len(ItemsOf(new[e][p]))
      PROVE  /\ Back(e, p, m) \in 1..Len(ItemsOf(qs[e][p]))
             /\ ItemsOf(new[e][p])[m] = ItemsOf(qs[e][p])[Back(e, p, m)]
  BY <1>1
<1>3. ASSUME NEW e \in Dirs, NEW p \in Objects, NEW f \in Dirs, NEW q \in Objects,
             NEW m \in 1..Len(ItemsOf(new[e][p])), NEW n \in 1..Len(ItemsOf(new[f][q]))
      PROVE  /\ ItemsOf(new[e][p])[m] \notin F
             /\ ItemsOf(new[e][p])[m] = ItemsOf(new[f][q])[n] => e = f /\ p = q /\ m = n
  <2>1. ItemsOf(new[e][p])[m] \notin F
    <3>1. PICK b \in 1..Len(ItemsOf(qs[e][p])) : ItemsOf(new[e][p])[m] = ItemsOf(qs[e][p])[b]
      <4>1. /\ Back(e, p, m) \in 1..Len(ItemsOf(qs[e][p]))
            /\ ItemsOf(new[e][p])[m] = ItemsOf(qs[e][p])[Back(e, p, m)]
        BY <1>2
      <4> HIDE DEF Back
      <4> QED BY <4>1
    <3>2. ItemsOf(qs[e][p])[b] \notin F BY <3>1 DEF Once
    <3> QED BY <3>1, <3>2
  <2>2. ASSUME ItemsOf(new[e][p])[m] = ItemsOf(new[f][q])[n]
        PROVE  e = f /\ p = q /\ Back(e, p, m) = Back(f, q, n)
    <3>1. /\ Back(e, p, m) \in 1..Len(ItemsOf(qs[e][p]))
          /\ ItemsOf(new[e][p])[m] = ItemsOf(qs[e][p])[Back(e, p, m)]
      BY <1>2
    <3>2. /\ Back(f, q, n) \in 1..Len(ItemsOf(qs[f][q]))
          /\ ItemsOf(new[f][q])[n] = ItemsOf(qs[f][q])[Back(f, q, n)]
      BY <1>2
    <3> HIDE DEF Back
    <3>3. ItemsOf(qs[e][p])[Back(e, p, m)] = ItemsOf(qs[f][q])[Back(f, q, n)]
      BY <2>2, <3>1, <3>2
    <3> QED BY <3>1, <3>2, <3>3 DEF Once
  <2>3. ASSUME e = f, p = q, Back(e, p, m) = Back(f, q, n) PROVE m = n
    BY <2>3
  <2> QED BY <2>1, <2>2, <2>3
<1>4. Once(new, F) BY <1>3 DEF Once
<1> QED BY <1>4 DEF new

(* A request that was unmade goes to the end of a queue.                   *)
LEMMA OnceAppended ==
    ASSUME NEW qs \in Dictionaries, NEW F, Once(qs, F), NEW i \in F,
           NEW d \in Dirs, NEW o \in Objects, NEW l \in Lists,
           ItemsOf(l) = Append(ItemsOf(qs[d][o]), i)
    PROVE  Once([qs EXCEPT ![d][o] = l], F \ {i})
<1> DEFINE new == [qs EXCEPT ![d][o] = l]
           old == ItemsOf(qs[d][o])
<1>1. /\ new \in Dictionaries /\ new[d][o] = l
      /\ \A e \in Dirs, p \in Objects : e # d \/ p # o => new[e][p] = qs[e][p]
  BY OneQueue
<1>2. old \in Seq(Items) BY ItemsAreSequences
<1>3. /\ Len(old) \in Nat /\ Len(ItemsOf(l)) = Len(old) + 1
      /\ ItemsOf(l)[Len(old) + 1] = i
      /\ \A n \in 1..Len(old) : ItemsOf(l)[n] = old[n]
      /\ \A n \in 1..Len(old) + 1 : n \in 1..Len(old) \/ n = Len(old) + 1
  BY <1>2, AppendProperties
<1> HIDE DEF new
<1>4. ASSUME NEW e \in Dirs, NEW p \in Objects, NEW m \in 1..Len(ItemsOf(new[e][p]))
      PROVE  \/ /\ m \in 1..Len(ItemsOf(qs[e][p]))
                /\ ItemsOf(new[e][p])[m] = ItemsOf(qs[e][p])[m]
             \/ e = d /\ p = o /\ m = Len(old) + 1 /\ ItemsOf(new[e][p])[m] = i
  <2>1. CASE e = d /\ p = o BY <1>1, <1>3, <2>1
  <2>2. CASE e # d \/ p # o BY <1>1, <2>2
  <2> QED BY <2>1, <2>2
<1>5. \A e \in Dirs, p \in Objects : \A m \in 1..Len(ItemsOf(qs[e][p])) :
         ItemsOf(qs[e][p])[m] \notin F
  BY DEF Once
<1> HIDE DEF old
<1>6. ASSUME NEW e \in Dirs, NEW p \in Objects, NEW f \in Dirs, NEW q \in Objects,
             NEW m \in 1..Len(ItemsOf(new[e][p])), NEW n \in 1..Len(ItemsOf(new[f][q]))
      PROVE  /\ ItemsOf(new[e][p])[m] \notin F \ {i}
             /\ ItemsOf(new[e][p])[m] = ItemsOf(new[f][q])[n] => e = f /\ p = q /\ m = n
  <2>1. CASE /\ m \in 1..Len(ItemsOf(qs[e][p]))
             /\ ItemsOf(new[e][p])[m] = ItemsOf(qs[e][p])[m]
    <3>1. CASE /\ n \in 1..Len(ItemsOf(qs[f][q]))
               /\ ItemsOf(new[f][q])[n] = ItemsOf(qs[f][q])[n]
      BY <1>5, <2>1, <3>1 DEF Once
    <3>2. CASE ItemsOf(new[f][q])[n] = i BY <1>5, <2>1, <3>2
    <3> QED BY <1>4, <3>1, <3>2
  <2>2. CASE e = d /\ p = o /\ m = Len(old) + 1 /\ ItemsOf(new[e][p])[m] = i
    <3>1. CASE /\ n \in 1..Len(ItemsOf(qs[f][q]))
               /\ ItemsOf(new[f][q])[n] = ItemsOf(qs[f][q])[n]
      BY <1>5, <2>2, <3>1
    <3>2. CASE f = d /\ q = o /\ n = Len(old) + 1 BY <2>2, <3>2
    <3> QED BY <1>4, <3>1, <3>2, <2>2
  <2> QED BY <1>4, <2>1, <2>2
<1>7. Once(new, F \ {i}) BY <1>6 DEF Once
<1> QED BY <1>7 DEF new

(* The delegate in progress keeps its place when a request is appended.    *)
LEMMA CallingAppended ==
    ASSUME NEW qs \in Dictionaries, NEW F, NEW fr, Calling(qs, fr, F), NEW i \in F,
           NEW d \in Dirs, NEW o \in Objects, NEW l \in Lists,
           ItemsOf(l) = Append(ItemsOf(qs[d][o]), i)
    PROVE  Calling([qs EXCEPT ![d][o] = l], fr, F \ {i})
<1> DEFINE new == [qs EXCEPT ![d][o] = l]
           old == ItemsOf(qs[d][o])
<1>1. /\ new \in Dictionaries /\ new[d][o] = l
      /\ \A e \in Dirs, p \in Objects : e # d \/ p # o => new[e][p] = qs[e][p]
  BY OneQueue
<1>2. old \in Seq(Items) BY ItemsAreSequences
<1>3. /\ Len(old) \in Nat /\ Len(ItemsOf(l)) = Len(old) + 1
      /\ ItemsOf(l)[Len(old) + 1] = i
      /\ \A n \in 1..Len(old) : ItemsOf(l)[n] = old[n]
      /\ \A n \in 1..Len(old) + 1 : n \in 1..Len(old) \/ n = Len(old) + 1
      /\ old # <<>> => ItemsOf(l) # <<>> /\ Head(ItemsOf(l)) = Head(old)
  <2>1. old # <<>> => Len(old) > 0 BY <1>2, EmptySeq
  <2> QED BY <1>2, <2>1, AppendProperties
<1> HIDE DEF new, old
<1>4. CASE fr = NoFrame BY <1>4 DEF Calling
<1>5. CASE fr # NoFrame
  <2>1. /\ fr \in [item : Items, obj : Objects, dir : Dirs, freed : BOOLEAN,
                   detached : BOOLEAN]
        /\ fr.item \notin F
        /\ ~fr.detached => /\ ItemsOf(qs[fr.dir][fr.obj]) # <<>>
                           /\ Head(ItemsOf(qs[fr.dir][fr.obj])) = fr.item
        /\ fr.detached => \A e \in Dirs, p \in Objects :
                            \A n \in 1..Len(ItemsOf(qs[e][p])) : ItemsOf(qs[e][p])[n] # fr.item
    BY <1>5 DEF Calling
  <2>2. ASSUME ~fr.detached
        PROVE  /\ ItemsOf(new[fr.dir][fr.obj]) # <<>>
               /\ Head(ItemsOf(new[fr.dir][fr.obj])) = fr.item
    BY <1>1, <1>3, <2>1, <2>2 DEF old
  <2>3. ASSUME fr.detached, NEW e \in Dirs, NEW p \in Objects,
               NEW n \in 1..Len(ItemsOf(new[e][p]))
        PROVE  ItemsOf(new[e][p])[n] # fr.item
    BY <1>1, <1>3, <2>1, <2>3 DEF old
  <2> QED BY <2>1, <2>2, <2>3 DEF Calling, new
<1> QED BY <1>4, <1>5

(* When a queue is cancelled, the delegate called for it is detached.      *)
LEMMA CallingCancelled ==
    ASSUME NEW qs \in Dictionaries, NEW F, NEW fr, Once(qs, F), Calling(qs, fr, F),
           NEW d \in Dirs, NEW o \in Objects,
           NEW fr2, fr2 = IF fr.obj = o /\ fr.dir = d
                            THEN [fr EXCEPT !.freed = TRUE, !.detached = TRUE] ELSE fr
    PROVE  Calling([qs EXCEPT ![d][o] = NoQueue], fr2, F)
<1> DEFINE new == [qs EXCEPT ![d][o] = NoQueue]
<1>0. /\ new \in Dictionaries /\ new[d][o] = NoQueue
      /\ \A e \in Dirs, p \in Objects : e # d \/ p # o => new[e][p] = qs[e][p]
  BY OneQueue
<1>1. /\ ItemsOf(new[d][o]) = <<>>
      /\ \A e \in Dirs, p \in Objects : e # d \/ p # o => new[e][p] = qs[e][p]
  BY <1>0 DEF ItemsOf
<1> HIDE DEF new
<1>2. CASE fr = NoFrame
  <2>1. fr2 = NoFrame BY <1>2, ObjectAssumption DEF NoFrame
  <2> QED BY <2>1 DEF Calling
<1>3. CASE fr # NoFrame
  <2>1. /\ fr \in [item : Items, obj : Objects, dir : Dirs, freed : BOOLEAN,
                   detached : BOOLEAN]
        /\ fr.item \notin F
        /\ ~fr.detached => /\ ItemsOf(qs[fr.dir][fr.obj]) # <<>>
                           /\ Head(ItemsOf(qs[fr.dir][fr.obj])) = fr.item
        /\ fr.detached => \A e \in Dirs, p \in Objects :
                            \A n \in 1..Len(ItemsOf(qs[e][p])) : ItemsOf(qs[e][p])[n] # fr.item
    BY <1>3 DEF Calling
  <2>2. /\ fr2 \in [item : Items, obj : Objects, dir : Dirs, freed : BOOLEAN,
                    detached : BOOLEAN]
        /\ fr2.item = fr.item /\ fr2.obj = fr.obj /\ fr2.dir = fr.dir
        /\ fr2.detached = IF fr.obj = o /\ fr.dir = d THEN TRUE ELSE fr.detached
    BY <2>1
  <2>3. ASSUME ~fr2.detached
        PROVE  /\ ItemsOf(new[fr2.dir][fr2.obj]) # <<>>
               /\ Head(ItemsOf(new[fr2.dir][fr2.obj])) = fr2.item
    BY <1>1, <2>1, <2>2, <2>3
  <2>4. ASSUME fr2.detached, NEW e \in Dirs, NEW p \in Objects,
               NEW n \in 1..Len(ItemsOf(new[e][p]))
        PROVE  ItemsOf(new[e][p])[n] # fr2.item
    <3>1. e # d \/ p # o BY <1>1, <2>4
    <3>2. CASE fr.detached BY <1>1, <2>1, <2>2, <3>1, <3>2
    <3>3. CASE ~fr.detached
      <4>1. fr.obj = o /\ fr.dir = d BY <2>2, <2>4, <3>3
      <4>2. ItemsOf(qs[d][o]) # <<>> /\ Head(ItemsOf(qs[d][o])) = fr.item
        BY <2>1, <3>3, <4>1
      <4>3. ItemsOf(qs[d][o]) \in Seq(Items) BY ItemsAreSequences
      <4>4. 1 \in 1..Len(ItemsOf(qs[d][o])) /\ ItemsOf(qs[d][o])[1] = fr.item
        BY <4>2, <4>3, EmptySeq
      <4>5. n \in 1..Len(ItemsOf(qs[e][p])) /\ ItemsOf(new[e][p])[n] = ItemsOf(qs[e][p])[n]
        BY <1>1, <2>4, <3>1
      <4>6. ItemsOf(qs[e][p])[n] # ItemsOf(qs[d][o])[1] BY <3>1, <4>4, <4>5 DEF Once
      <4> QED BY <2>2, <4>4, <4>5, <4>6
    <3> QED BY <3>2, <3>3
  <2>5. Calling(new, fr2, F) BY <2>1, <2>2, <2>3, <2>4 DEF Calling
  <2> QED BY <2>5 DEF new
<1> QED BY <1>2, <1>3

-----------------------------------------------------------------------------
(* Cancellation: one direction after the other.                            *)

Good(ob, qs, fr, unmade) ==
    Sound(ob, qs) /\ Once(qs, unmade) /\ Calling(qs, fr, unmade)

(* The observer never forgets that a descriptor was somebody's.            *)
Keeps(ob, ob2) ==
    /\ ob2.backend = ob.backend
    /\ \A f \in FDs : ob.target[f] \in Objects => ob2.target[f] \in Objects

(* The requests of o may have gone, the others have not.                   *)
Prunes(qs, new, o) == \A d \in Dirs, p \in Objects :
    \/ ItemsOf(new[d][p]) = ItemsOf(qs[d][p])
    \/ p = o /\ ItemsOf(new[d][p]) = <<>>

LEMMA AddedKeeps ==
    ASSUME NEW s \in Observers, NEW o \in Objects, NEW d \in Dirs, fd[o] \in FDs
    PROVE  Keeps(s, Added(s, o, d))
BY AddedBooks DEF Keeps

LEMMA RemovedKeeps ==
    ASSUME NEW s \in Observers, NEW o \in Objects, NEW d \in Dirs, fd[o] \in FDs
    PROVE  Keeps(s, Removed(s, o, d))
BY RemovedBooks DEF Keeps

CancelState(s) ==
    /\ DOMAIN s = {"observer", "queues", "thrown", "frame", "aborted"}
    /\ s.thrown = FALSE
    /\ Good(s.observer, s.queues, s.frame, fresh)
    /\ Keeps(observer, s.observer)
    /\ s.frame.obj = frame.obj /\ s.frame.dir = frame.dir /\ s.frame.item = frame.item
    /\ s.aborted \in {"no", "ready", "cancel"}
    /\ s.aborted = "cancel" => Epoll

LEMMA CancelOne ==
    ASSUME Descriptors, NEW s, CancelState(s), NEW o \in Objects, NEW d \in Dirs
    PROVE  /\ CancelState(CancelDir(s, o, d))
           /\ Prunes(s.queues, CancelDir(s, o, d).queues, o)
<1> DEFINE q == s.queues[d][o]
<1>1. CASE q = NoQueue \/ s.aborted # "no"
  <2>1. CancelDir(s, o, d) = s BY <1>1 DEF CancelDir
  <2> QED BY <2>1 DEF Prunes
<1>2. CASE q # NoQueue /\ s.aborted = "no" /\ q.count = 0
  <2>1. CancelDir(s, o, d) = [s EXCEPT !.aborted = "cancel"]
    BY <1>2 DEF CancelDir, CancelState
  <2>2. Epoll
    <3>1. q \in Lists /\ q.count = Len(q.items)
      BY <1>2 DEF CancelState, Good, Sound, SoundQueues, Dictionaries
    <3>2. q.items = <<>> BY <1>2, <3>1, EmptySeq DEF Lists
    <3>3. s.observer.backend = "epoll"
      BY <1>2, <3>2 DEF CancelState, Good, Sound, SoundQueues
    <3> QED BY <3>3 DEF CancelState, Keeps, Epoll
  <2> HIDE DEF q
  <2> DEFINE t == [s EXCEPT !.aborted = "cancel"]
  <2>3. /\ DOMAIN t = DOMAIN s /\ t.aborted = "cancel"
        /\ t.observer = s.observer /\ t.queues = s.queues
        /\ t.thrown = s.thrown /\ t.frame = s.frame
    BY DEF CancelState
  <2> HIDE DEF t
  <2>4. CancelState(t) BY <2>2, <2>3 DEF CancelState
  <2>5. Prunes(s.queues, t.queues, o) BY <2>3 DEF Prunes
  <2> QED BY <2>1, <2>4, <2>5 DEF t
<1>3. CASE q # NoQueue /\ s.aborted = "no" /\ q.count # 0
  <2>0. PICK Q : Q = s.queues OBVIOUS
  <2> DEFINE ob == Removed(s.observer, o, d)
             qs == [Q EXCEPT ![d][o] = NoQueue]
             fr == IF frame.obj = o /\ frame.dir = d
                     THEN [s.frame EXCEPT !.freed = TRUE, !.detached = @ \/ TRUE]
                     ELSE s.frame
             t == [observer |-> ob, queues |-> qs, frame |-> fr, thrown |-> FALSE,
                   aborted |-> s.aborted]
  <2>1. /\ Sound(s.observer, Q) /\ Once(Q, fresh)
        /\ Calling(Q, s.frame, fresh) /\ s.observer.backend = observer.backend
        /\ Q \in Dictionaries /\ s.observer \in Observers
    BY <2>0 DEF CancelState, Good, Keeps, Sound, SoundQueues
  <2>2. RemoveFails(s.observer, o, d) = FALSE
    BY <1>3, <2>0, <2>1, NoRefusal DEF RemoveFails
  <2>3. CancelDir(s, o, d) = t
    <3>1. ~(s.queues[d][o] = NoQueue \/ s.thrown \/ s.aborted # "no")
      BY <1>3 DEF CancelState
    <3>2. s.queues[d][o].count # 0 BY <1>3
    <3> QED BY <2>0, <2>2, <3>1, <3>2, Zenon DEF CancelDir
  <2>4. ItemsOf(q) # <<>> /\ fd[o] \in FDs
    BY <1>3, <2>0, <2>1 DEF Sound, SoundQueues, ItemsOf, Descriptors
  <2>5. Sound(ob, qs) BY <2>0, <2>1, <2>4, SoundLast
  <2>6. Once(qs, fresh)
    <3>1. \A n \in 1..Len(ItemsOf(NoQueue)) :
             /\ n + 0 \in 1..Len(ItemsOf(Q[d][o]))
             /\ ItemsOf(NoQueue)[n] = ItemsOf(Q[d][o])[n + 0]
      BY DEF ItemsOf
    <3>2. NoQueue \in Lists \cup {NoQueue} /\ 0 \in Nat OBVIOUS
    <3> QED BY <2>1, <3>1, <3>2, OnceDropped
  <2>7. /\ fr = IF s.frame.obj = o /\ s.frame.dir = d
                  THEN [s.frame EXCEPT !.freed = TRUE, !.detached = TRUE] ELSE s.frame
        /\ fr.obj = frame.obj /\ fr.dir = frame.dir /\ fr.item = frame.item
    <3>1. s.frame.obj = frame.obj /\ s.frame.dir = frame.dir /\ s.frame.item = frame.item
      BY DEF CancelState
    <3>2. DOMAIN s.frame = {"item", "obj", "dir", "freed", "detached"}
      BY <2>1 DEF Calling, NoFrame
    <3> QED BY <3>1, <3>2
  <2>8. Calling(qs, fr, fresh) BY <2>1, <2>7, CallingCancelled
  <2>9. Keeps(observer, ob) BY <2>1, <2>4, RemovedKeeps DEF CancelState, Keeps
  <2>10. Prunes(Q, qs, o)
    <3>1. /\ qs \in Dictionaries /\ qs[d][o] = NoQueue
          /\ \A e \in Dirs, p \in Objects : e # d \/ p # o => qs[e][p] = Q[e][p]
      BY ONLY <2>1, OneQueue
    <3> HIDE DEF qs
    <3> QED BY <3>1 DEF Prunes, ItemsOf
  <2> HIDE DEF ob, qs, fr
  <2>11. /\ DOMAIN t = {"observer", "queues", "thrown", "frame", "aborted"}
         /\ t.observer = ob /\ t.queues = qs /\ t.frame = fr /\ t.thrown = FALSE
         /\ t.aborted = s.aborted
    OBVIOUS
  <2> HIDE DEF t
  <2>12. CancelState(t)
    BY <2>5, <2>6, <2>7, <2>8, <2>9, <2>11 DEF CancelState, Good
  <2> QED BY <2>0, <2>3, <2>10, <2>11, <2>12
<1> QED BY <1>1, <1>2, <1>3

(* +[of_cancelAsyncRequestsForObject:mode:] as a whole.                    *)
LEMMA CancelKeeps ==
    ASSUME IInv, NEW o \in Objects, Cancel(o)
    PROVE  /\ Good(observer', queues', frame', fresh) /\ Keeps(observer, observer')
           /\ frame'.item = frame.item
           /\ Prunes(queues, queues', o)
           /\ aborted' \in {"no", "ready", "cancel"} /\ (aborted' = "cancel" => Epoll)
<1> DEFINE s == [observer |-> observer, queues |-> queues, thrown |-> FALSE,
                 frame |-> frame, aborted |-> aborted]
           t == CancelDir(s, o, "write")
           u == CancelDir(t, o, "read")
<1>1. CancelState(s)
  <2>1. /\ DOMAIN s = {"observer", "queues", "thrown", "frame", "aborted"}
        /\ s.observer = observer /\ s.queues = queues /\ s.thrown = FALSE
        /\ s.frame = frame /\ s.aborted = aborted
    OBVIOUS
  <2> HIDE DEF s
  <2> QED BY <2>1 DEF CancelState, IInv, Typed, Good, Keeps
<1>2. s.queues = queues OBVIOUS
<1>3. /\ observer' = u.observer /\ queues' = u.queues
      /\ frame' = u.frame /\ aborted' = u.aborted
  BY DEF Cancel
<1> HIDE DEF s
<1>4. CancelState(t) /\ Prunes(queues, t.queues, o)
  BY <1>1, <1>2, CancelOne DEF IInv, Dirs
<1> HIDE DEF t
<1>5. CancelState(u) /\ Prunes(t.queues, u.queues, o)
  BY <1>4, CancelOne DEF IInv, Dirs
<1> HIDE DEF u
<1>6. Prunes(queues, queues', o) BY <1>3, <1>4, <1>5 DEF Prunes
<1> QED BY <1>3, <1>5, <1>6 DEF CancelState

-----------------------------------------------------------------------------
(* The steps of the run loop.                                              *)

LEMMA SoundNext ==
    ASSUME fd' = fd, Sound(observer', queues')
    PROVE  Sound(observer, queues)'
BY DEF Sound, SoundQueues, Watches

LEMMA OnceNext == ASSUME Once(queues', fresh') PROVE Once(queues, fresh)'
BY DEF Once, ItemsOf

LEMMA CallingNext == ASSUME Calling(queues', frame', fresh') PROVE Calling(queues, frame, fresh)'
BY DEF Calling, ItemsOf, NoFrame

LEMMA TargetsKept ==
    ASSUME IInv, Keeps(observer, observer'), batch' = batch
    PROVE  Targets'
BY DEF IInv, Targets, Keeps

(* Where the next event goes.                                              *)
LEMMA NextEvent ==
    ASSUME IInv, batch # <<>>
    PROVE  /\ NextObject \in Objects /\ Head(batch).dir \in Dirs
           /\ Tail(batch) \in Seq(Events)
           /\ \A n \in 1..Len(Tail(batch)) : Tail(batch)[n].fd # NoFD =>
                 /\ Tail(batch)[n].fd \in FDs
                 /\ observer.target[Tail(batch)[n].fd] \in Objects
<1>1. batch \in Seq(Events) BY DEF IInv, Typed
<1>2. /\ Head(batch) \in Events /\ Head(batch) = batch[1] /\ 1 \in 1..Len(batch)
      /\ Tail(batch) \in Seq(Events) /\ Len(Tail(batch)) = Len(batch) - 1
      /\ Len(batch) \in Nat
      /\ \A n \in 1..Len(Tail(batch)) : Tail(batch)[n] = batch[n + 1]
  BY <1>1, HeadTailProperties, EmptySeq
<1>3. NextObject \in Objects /\ Head(batch).dir \in Dirs
  BY <1>2 DEF NextObject, Events, IInv, Targets
<1>4. ASSUME NEW n \in 1..Len(Tail(batch)), Tail(batch)[n].fd # NoFD
      PROVE  /\ Tail(batch)[n].fd \in FDs
             /\ observer.target[Tail(batch)[n].fd] \in Objects
  <2>1. n + 1 \in 1..Len(batch) /\ Tail(batch)[n] = batch[n + 1] BY <1>2
  <2> QED BY <1>4, <2>1 DEF IInv, Targets
<1> QED BY <1>2, <1>3, <1>4

(* The first request leaves its queue, and nothing else moves.             *)
LEMMA DropKeeps ==
    ASSUME IInv, NEW o \in Objects, NEW d \in Dirs, ItemsOf(queues[d][o]) # <<>>,
           NEW otherwise, DropFirst(o, d, otherwise)
    PROVE  /\ Sound(observer', queues') /\ Once(queues', fresh)
           /\ Keeps(observer, observer') /\ batch' = otherwise
           /\ ItemsOf(queues'[d][o]) = Tail(ItemsOf(queues[d][o]))
           /\ \A e \in Dirs, p \in Objects : e # d \/ p # o =>
                 ItemsOf(queues'[e][p]) = ItemsOf(queues[e][p])
<1> DEFINE l == queues[d][o]
           rest == FirstRemoved(l)
           m == IF rest.count = 0 THEN NoQueue ELSE rest
<1>1. /\ Descriptors /\ Sound(observer, queues) /\ Once(queues, fresh)
      /\ queues \in Dictionaries /\ observer \in Observers
  BY DEF IInv, Sound, SoundQueues
<1>2. /\ l \in Lists /\ l # NoQueue /\ l.count = Len(l.items) /\ l.items # <<>>
      /\ fd[o] # NoFD /\ fd[o] \in FDs /\ ItemsOf(l) = l.items
  BY <1>1 DEF Sound, SoundQueues, Dictionaries, ItemsOf, Descriptors
<1>3. /\ rest \in Lists /\ rest # NoQueue /\ rest.items = Tail(l.items)
      /\ rest.count = Len(rest.items)
      /\ rest.count = 0 <=> Tail(l.items) = <<>>
  BY <1>2, FirstOps
<1>4. ~RemoveFails(observer, o, d) BY <1>1, <1>2, NoRefusal
<1>5. /\ queues' = [queues EXCEPT ![d][o] = m]
      /\ observer' = IF rest.count = 0 THEN Removed(observer, o, d) ELSE observer
      /\ batch' = otherwise
  BY <1>4 DEF DropFirst
<1>6. m \in Lists \cup {NoQueue} /\ ItemsOf(m) = Tail(ItemsOf(l))
  BY <1>2, <1>3 DEF ItemsOf
<1>7. ItemsOf(l) \in Seq(Items) BY <1>1, ItemsAreSequences
<1> HIDE DEF l, rest, m
<1>8. Sound(observer', queues')
  <2>1. CASE rest.count = 0
    <3>1. queues' = [queues EXCEPT ![d][o] = NoQueue] /\ observer' = Removed(observer, o, d)
      BY <1>5, <2>1 DEF m
    <3> QED BY <1>1, <3>1, SoundLast
  <2>2. CASE rest.count # 0
    <3>1. queues' = [queues EXCEPT ![d][o] = rest] /\ observer' = observer
      BY <1>5, <2>2 DEF m
    <3>2. rest.items # <<>> BY <1>3, <2>2
    <3> QED BY <1>1, <1>2, <1>3, <3>1, <3>2, SoundQuietly DEF l
  <2> QED BY <2>1, <2>2
<1>9. Once(queues', fresh)
  <2>1. \A n \in 1..Len(ItemsOf(m)) : /\ n + 1 \in 1..Len(ItemsOf(l))
                                      /\ ItemsOf(m)[n] = ItemsOf(l)[n + 1]
    BY <1>2, <1>6, <1>7, HeadTailProperties
  <2>2. \A n \in 1..Len(ItemsOf(m)) : /\ n + 1 \in 1..Len(ItemsOf(queues[d][o]))
                                      /\ ItemsOf(m)[n] = ItemsOf(queues[d][o])[n + 1]
    BY <2>1 DEF l
  <2>3. 1 \in Nat OBVIOUS
  <2>4. Once([queues EXCEPT ![d][o] = m], fresh)
    BY <1>1, <1>6, <2>2, <2>3, OnceDropped
  <2> QED BY <1>5, <2>4
<1>10. Keeps(observer, observer')
  BY <1>1, <1>2, <1>5, RemovedKeeps DEF Keeps
<1>11. /\ queues'[d][o] = m
       /\ \A e \in Dirs, p \in Objects : e # d \/ p # o => queues'[e][p] = queues[e][p]
  BY <1>1, <1>5, <1>6, OneQueue
<1> QED BY <1>5, <1>6, <1>8, <1>9, <1>10, <1>11 DEF l

LEMMA OpenStep ==
    ASSUME IInv, NEW o \in Objects, Open(o)
    PROVE  IInv'
<1>1. PICK f \in FDs : (\A p \in Objects : fd[p] # f) /\ fd' = [fd EXCEPT ![o] = f]
  BY DEF Open
<1>2. /\ fd[o] = NoFD
      /\ UNCHANGED <<observer, queues, fresh, kind, batch, frame, aborted, touched>>
  BY DEF Open
<1>3. /\ fd'[o] = f /\ f # NoFD /\ \A p \in Objects : p # o => fd'[p] = fd[p]
  BY <1>1, ObjectAssumption DEF IInv, Descriptors
<1>4. Descriptors' BY <1>1, <1>3 DEF IInv, Descriptors
<1>5. \A d \in Dirs : queues[d][o] = NoQueue
  BY <1>2 DEF IInv, Sound, SoundQueues
<1>6. SoundQueues(queues, observer.backend)'
  BY <1>2, <1>3, <1>5 DEF IInv, Sound, SoundQueues
<1>7. Wanted(queues, o) = {} BY <1>5 DEF Wanted, ItemsOf
<1>8. observer.events[f] = {} /\ observer.kernel[f] = {}
  BY <1>1 DEF IInv, Sound, Watches
<1>9. Watches(observer, queues)'
  <2>1. ASSUME NEW p \in Objects, fd'[p] # NoFD
        PROVE  /\ observer.events[fd'[p]] = Wanted(queues, p)
               /\ observer.kernel[fd'[p]] = Wanted(queues, p)
               /\ Wanted(queues, p) # {} => observer.target[fd'[p]] = p
    <3>1. CASE p = o BY <1>3, <1>7, <1>8, <3>1
    <3>2. CASE p # o BY <1>3, <2>1, <3>2 DEF IInv, Sound, Watches
    <3> QED BY <3>1, <3>2
  <2>2. ASSUME NEW g \in FDs, \A p \in Objects : fd'[p] # g
        PROVE  observer.events[g] = {} /\ observer.kernel[g] = {}
    <3>1. \A p \in Objects : fd[p] # g
      BY <1>2, <1>3, <2>2, ObjectAssumption
    <3> QED BY <3>1 DEF IInv, Sound, Watches
  <2>3. \A d \in Dirs, p \in Objects :
           observer.objects[d][p] = IF ItemsOf(queues[d][p]) = <<>> THEN 0 ELSE 1
    BY DEF IInv, Sound, Watches
  <2>4. UNCHANGED <<observer, queues>> BY <1>2
  <2> QED BY <2>1, <2>2, <2>3, <2>4 DEF Watches, Wanted, ItemsOf
<1>10. Sound(observer, queues)' BY <1>2, <1>6, <1>9 DEF IInv, Sound
<1>11. Once(queues, fresh)' /\ Calling(queues, frame, fresh)'
  BY <1>2, OnceNext, CallingNext DEF IInv
<1>12. Targets' /\ Typed' BY <1>2 DEF IInv, Targets, Typed, Epoll
<1> QED BY <1>4, <1>10, <1>11, <1>12 DEF IInv

LEMMA CloseStep ==
    ASSUME Disciplined, IInv, NEW o \in Objects, Close(o)
    PROVE  IInv' /\ observer' = observer
<1> DEFINE f == fd[o]
<1>1. /\ f # NoFD /\ fd' = [fd EXCEPT ![o] = NoFD]
      /\ \A d \in Dirs : queues[d][o] = NoQueue
      /\ observer' = [observer EXCEPT !.kernel[f] = IF Epoll THEN {} ELSE @]
      /\ UNCHANGED <<queues, fresh, kind, batch, frame, aborted, touched>>
  BY DEF Close
<1>2. /\ f \in FDs /\ fd'[o] = NoFD /\ \A p \in Objects : p # o => fd'[p] = fd[p]
      /\ \A p \in Objects : p # o => fd[p] # f
  BY <1>1 DEF IInv, Descriptors
<1>3. Wanted(queues, o) = {} BY <1>1 DEF Wanted, ItemsOf
<1>4. observer.events[f] = {} /\ observer.kernel[f] = {}
  BY <1>1, <1>3 DEF IInv, Sound, Watches
<1>5. observer' = observer
  <2>1. observer \in Observers BY DEF IInv, Sound
  <2>2. [observer.kernel EXCEPT ![f] = IF Epoll THEN {} ELSE @] = observer.kernel
    BY <1>2, <1>4, <2>1 DEF Observers
  <2> QED BY <1>1, <2>1, <2>2 DEF Observers
<1> HIDE DEF f
<1>6. Descriptors' BY <1>1, <1>2 DEF IInv, Descriptors
<1>7. SoundQueues(queues, observer.backend)'
  BY <1>1, <1>2, <1>5 DEF IInv, Sound, SoundQueues
<1>8. Watches(observer, queues)'
  <2>1. ASSUME NEW p \in Objects, fd'[p] # NoFD
        PROVE  /\ observer.events[fd'[p]] = Wanted(queues, p)
               /\ observer.kernel[fd'[p]] = Wanted(queues, p)
               /\ Wanted(queues, p) # {} => observer.target[fd'[p]] = p
    BY <1>2, <2>1 DEF IInv, Sound, Watches
  <2>2. ASSUME NEW g \in FDs, \A p \in Objects : fd'[p] # g
        PROVE  observer.events[g] = {} /\ observer.kernel[g] = {}
    <3>1. CASE g = f BY <1>4, <3>1
    <3>2. CASE g # f
      <4>1. \A p \in Objects : fd[p] # g BY <1>2, <2>2, <3>2 DEF f
      <4> QED BY <4>1 DEF IInv, Sound, Watches
    <3> QED BY <3>1, <3>2
  <2>3. \A d \in Dirs, p \in Objects :
           observer.objects[d][p] = IF ItemsOf(queues[d][p]) = <<>> THEN 0 ELSE 1
    BY DEF IInv, Sound, Watches
  <2>4. UNCHANGED <<observer, queues>> BY <1>1, <1>5
  <2> QED BY <2>1, <2>2, <2>3, <2>4 DEF Watches, Wanted, ItemsOf
<1>9. Sound(observer, queues)' BY <1>5, <1>7, <1>8 DEF IInv, Sound
<1>10. Once(queues, fresh)' /\ Calling(queues, frame, fresh)'
  BY <1>1, OnceNext, CallingNext DEF IInv
<1>11. Targets' /\ Typed' BY <1>1, <1>5 DEF IInv, Targets, Typed, Epoll
<1> QED BY <1>5, <1>6, <1>9, <1>10, <1>11 DEF IInv

(* A step that leaves the queues and the observer alone.                   *)
LEMMA QuietStep ==
    ASSUME IInv, UNCHANGED <<fd, observer, queues, fresh, kind>>,
           Calling(queues, frame', fresh), Targets', batch' \in Seq(Events),
           aborted' \in {"no", "ready", "cancel"}, aborted' = "cancel" => Epoll,
           touched' \in BOOLEAN
    PROVE  IInv'
<1>1. Descriptors' BY DEF IInv, Descriptors
<1>2. Sound(observer, queues)' BY SoundNext DEF IInv
<1>3. Once(queues, fresh)' BY OnceNext DEF IInv
<1>4. Calling(queues, frame, fresh)' BY CallingNext
<1>5. Typed' BY DEF IInv, Typed, Epoll
<1> QED BY <1>1, <1>2, <1>3, <1>4, <1>5 DEF IInv

LEMMA SubmitStep ==
    ASSUME Disciplined, IInv, NEW o \in Objects, NEW d \in Dirs, NEW i \in Items,
           Submit(o, d, i)
    PROVE  IInv'
<1> DEFINE list == IF queues[d][o] = NoQueue THEN EmptyList ELSE queues[d][o]
           first == list.count = 0
           fails == first /\ AddFails(o)
           l == IF fails THEN list ELSE Appended(list, i)
<1>1. /\ Descriptors /\ Sound(observer, queues) /\ Once(queues, fresh)
      /\ Calling(queues, frame, fresh) /\ queues \in Dictionaries
      /\ observer \in Observers /\ Targets /\ Typed
  BY DEF IInv, Sound, SoundQueues
<1>2. /\ fd[o] # NoFD /\ i \in fresh /\ fresh' = fresh \ {i}
      /\ queues' = [queues EXCEPT ![d][o] = l]
      /\ observer' = IF first /\ ~fails THEN Added(observer, o, d) ELSE observer
      /\ UNCHANGED <<fd, batch, frame, aborted, touched>>
  BY DEF Submit
<1>3. kind' \in [Items -> {"plain", "rearming", "connect"}]
  <2>1. kind \in [Items -> {"plain", "rearming", "connect"}] BY <1>1 DEF Typed
  <2>2. PICK k \in Kinds(d) : kind' = [kind EXCEPT ![i] = k] BY DEF Submit
  <2>3. k \in {"plain", "rearming", "connect"} BY DEF Kinds
  <2> QED BY <2>1, <2>2, <2>3
<1>4. /\ list \in Lists /\ list.count = Len(list.items)
      /\ list.items = ItemsOf(queues[d][o]) /\ list # NoQueue
      /\ list.items = <<>> /\ queues[d][o] # NoQueue
            => observer.backend = "epoll" /\ o \in Files
  <2>1. CASE queues[d][o] = NoQueue
    <3>1. EmptyList \in Lists /\ EmptyList.count = 0 /\ EmptyList.items = <<>>
      BY DEF EmptyList, Lists
    <3> QED BY <2>1, <3>1, ListsAreNotNoQueue DEF ItemsOf
  <2>2. CASE queues[d][o] # NoQueue
    BY <1>1, <2>2 DEF Sound, SoundQueues, Dictionaries, ItemsOf
  <2> QED BY <2>1, <2>2
<1>5. first <=> (list.items = <<>>)
  BY <1>4, EmptySeq DEF Lists
<1>6. fd[o] \in FDs BY <1>1, <1>2 DEF Descriptors
<1>7. AddFails(o) <=> Epoll /\ o \in Files
  BY <1>1, <1>2, <1>6 DEF AddFails, Sound, Watches
<1>8. /\ Appended(list, i) \in Lists /\ Appended(list, i) # NoQueue
      /\ Appended(list, i).items = Append(list.items, i)
      /\ ItemsOf(Appended(list, i)) = Append(ItemsOf(queues[d][o]), i)
  <2>1. /\ Appended(list, i) \in Lists /\ Appended(list, i) # NoQueue
        /\ Appended(list, i).items = Append(list.items, i)
    BY <1>4, ListOps
  <2> QED BY <1>4, <2>1 DEF ItemsOf
<1> HIDE DEF list
<1>9. Sound(observer', queues') /\ Keeps(observer, observer')
  <2>1. CASE fails
    <3>1. queues' = [queues EXCEPT ![d][o] = list] /\ observer' = observer
      BY <1>2, <2>1
    <3>2. list.items = <<>> => observer.backend = "epoll" /\ o \in Files
      BY <1>7, <2>1 DEF Epoll
    <3>3. (list.items = <<>>) <=> (ItemsOf(queues[d][o]) = <<>>) BY <1>4
    <3>4. Sound(observer, [queues EXCEPT ![d][o] = list])
      BY <1>1, <1>2, <1>4, <3>2, <3>3, SoundQuietly
    <3> QED BY <3>1, <3>4 DEF Keeps
  <2>2. CASE first /\ ~fails
    <3>1. /\ queues' = [queues EXCEPT ![d][o] = Appended(list, i)]
          /\ observer' = Added(observer, o, d)
      BY <1>2, <2>2
    <3>2. ItemsOf(queues[d][o]) = <<>> /\ list.items = <<>> /\ list.count = 0
      BY <1>4, <1>5, <2>2
    <3>3. Sound(Added(observer, o, d), [queues EXCEPT ![d][o] = Appended(list, i)])
      BY <1>1, <1>2, <1>4, <3>2, SoundFirst
    <3> QED BY <1>1, <1>6, <3>1, <3>3, AddedKeeps
  <2>3. CASE ~first
    <3>1. ItemsOf(queues[d][o]) # <<>> /\ queues[d][o] = list
      BY <1>4, <1>5, <2>3 DEF list, EmptyList
    <3>2. queues' = [queues EXCEPT ![d][o] = Appended(queues[d][o], i)] /\ observer' = observer
      BY <1>2, <2>3, <3>1
    <3>3. Sound(observer, [queues EXCEPT ![d][o] = Appended(queues[d][o], i)])
      BY <1>1, <3>1, SoundMore
    <3> QED BY <3>2, <3>3 DEF Keeps
  <2> QED BY <2>1, <2>2, <2>3
<1>10. Once(queues', fresh') /\ Calling(queues', frame', fresh')
  <2>1. CASE fails
    <3>1. queues' = [queues EXCEPT ![d][o] = list] /\ ItemsOf(list) = ItemsOf(queues[d][o])
      BY <1>2, <1>4, <2>1 DEF ItemsOf
    <3>2. \A e \in Dirs, p \in Objects : ItemsOf(queues'[e][p]) = ItemsOf(queues[e][p])
      BY <1>1, <1>4, <3>1, OneQueue
    <3>3. Once(queues', fresh') BY <1>1, <1>2, <3>2 DEF Once
    <3>4. Calling(queues', frame, fresh') BY <1>1, <1>2, <3>2 DEF Calling
    <3> QED BY <1>2, <3>3, <3>4
  <2>2. CASE ~fails
    <3>1. queues' = [queues EXCEPT ![d][o] = Appended(list, i)] BY <1>2, <2>2
    <3>2. Once([queues EXCEPT ![d][o] = Appended(list, i)], fresh \ {i})
      BY <1>1, <1>2, <1>8, OnceAppended
    <3>3. Calling([queues EXCEPT ![d][o] = Appended(list, i)], frame, fresh \ {i})
      BY <1>1, <1>2, <1>8, CallingAppended
    <3> QED BY <1>2, <3>1, <3>2, <3>3
  <2> QED BY <2>1, <2>2
<1> HIDE DEF l
<1>11. Descriptors' BY <1>1, <1>2 DEF Descriptors
<1>12. Targets' BY <1>2, <1>9, TargetsKept
<1>13. Typed' BY <1>1, <1>2, <1>3, <1>9 DEF Typed, Epoll, Keeps
<1> QED BY <1>2, <1>9, <1>10, <1>11, <1>12, <1>13, SoundNext, OnceNext, CallingNext DEF IInv

LEMMA CancelStep ==
    ASSUME IInv, NEW o \in Objects, Cancel(o)
    PROVE  IInv'
<1>1. /\ Good(observer', queues', frame', fresh) /\ Keeps(observer, observer')
      /\ aborted' \in {"no", "ready", "cancel"} /\ (aborted' = "cancel" => Epoll)
  BY CancelKeeps
<1>2. UNCHANGED <<fd, fresh, kind, batch, touched>> BY DEF Cancel
<1>3. Descriptors' BY <1>2 DEF IInv, Descriptors
<1>4. Sound(observer, queues)' BY <1>1, <1>2, SoundNext DEF Good
<1>5. Once(queues, fresh)' BY <1>1, <1>2, OnceNext DEF Good
<1>6. Calling(queues, frame, fresh)' BY <1>1, <1>2, CallingNext DEF Good
<1>7. Targets' BY <1>1, <1>2, TargetsKept
<1>8. Typed' BY <1>1, <1>2 DEF IInv, Typed, Epoll, Keeps
<1> QED BY <1>3, <1>4, <1>5, <1>6, <1>7, <1>8 DEF IInv

(* The events of a wait, in whatever order, are events.                    *)
LEMMA Arrangements ==
    ASSUME NEW S, IsFiniteSet(S), NEW s \in SetToSeqs(S)
    PROVE  s \in Seq(S)
<1>1. Cardinality(S) \in Nat BY FS_CardinalityType
<1>2. s \in [1..Cardinality(S) -> S] BY DEF SetToSeqs
<1> QED BY <1>1, <1>2

LEMMA ObserveBuffersStep ==
    ASSUME IInv, ObserveBuffers
    PROVE  IInv'
<1>1. PICK os \in SUBSET {o \in Objects : observer.objects["read"][o] > 0} \ {{}} :
         batch' \in {[n \in 1..Len(s) |-> [fd |-> NoFD, obj |-> s[n], dir |-> "read"]] :
                        s \in SetToSeqs(os)}
  BY DEF ObserveBuffers
<1>2. PICK s \in SetToSeqs(os) :
         batch' = [n \in 1..Len(s) |-> [fd |-> NoFD, obj |-> s[n], dir |-> "read"]]
  BY <1>1
<1>3. os \subseteq Objects /\ IsFiniteSet(os) BY ObjectAssumption, FS_Subset
<1>4. s \in Seq(Objects)
  <2>1. s \in Seq(os) BY <1>3, Arrangements
  <2> QED BY <1>3, <2>1
<1>5. batch' \in Seq(Events) /\ \A n \in 1..Len(batch') : batch'[n].fd = NoFD
  BY <1>2, <1>4 DEF Events, Dirs
<1>6. UNCHANGED <<fd, observer, queues, fresh, kind, frame, aborted, touched>>
  BY DEF ObserveBuffers
<1>7. Targets' BY <1>5 DEF Targets
<1>8. Calling(queues, frame', fresh) BY <1>6 DEF IInv
<1>9. /\ aborted' \in {"no", "ready", "cancel"} /\ touched' \in BOOLEAN
      /\ aborted' = "cancel" => Epoll
  BY <1>6 DEF IInv, Typed
<1> QED BY <1>5, <1>6, <1>7, <1>8, <1>9, QuietStep

LEMMA ReportsAreSound ==
    ASSUME IInv
    PROVE  /\ Reports \subseteq Events /\ IsFiniteSet(Reports)
           /\ \A e \in Reports : e.fd \in FDs /\ observer.target[e.fd] \in Objects
<1>1. Reports \subseteq [fd : FDs, obj : Objects, dir : Dirs] BY DEF Reports
<1>2. IsFiniteSet([fd : FDs, obj : Objects, dir : Dirs])
  <2> DEFINE E == [fd : FDs, obj : Objects, dir : Dirs]
             P == (FDs \X Objects) \X Dirs
             code == [e \in E |-> <<<<e.fd, e.obj>>, e.dir>>]
  <2>1. IsFiniteSet({} \cup {"read"}) BY FS_EmptySet, FS_AddElement
  <2>2. IsFiniteSet(({} \cup {"read"}) \cup {"write"}) BY <2>1, FS_AddElement
  <2>3. Dirs = ({} \cup {"read"}) \cup {"write"} BY DEF Dirs
  <2>4. IsFiniteSet(FDs \X Objects) BY ObjectAssumption, FS_Product
  <2>5. IsFiniteSet(P) BY <2>2, <2>3, <2>4, FS_Product
  <2>6. \A x, y \in E : code[x] = code[y] => x = y OBVIOUS
  <2>7. code \in [E -> P] OBVIOUS
  <2> HIDE DEF code, E, P
  <2>8. code \in Injection(E, P) BY <2>6, <2>7 DEF Injection, IsInjective
  <2>9. IsFiniteSet(E) BY <2>5, <2>8, FS_Injection
  <2> QED BY <2>9 DEF E
<1>3. \A e \in Reports : e.fd \in FDs /\ e.obj \in Objects /\ e.obj = observer.target[e.fd]
  BY DEF Reports
<1> QED BY <1>1, <1>2, <1>3, FS_Subset DEF Events

LEMMA ObserveKernelStep ==
    ASSUME IInv, ObserveKernel
    PROVE  IInv'
<1>1. PICK ready \in SUBSET Reports \ {{}} : batch' \in SetToSeqs(ready)
  BY DEF ObserveKernel
<1>2. batch' \in Seq(Events) /\ \A n \in 1..Len(batch') : batch'[n] \in Reports
  <2>1. IsFiniteSet(ready) BY ReportsAreSound, FS_Subset
  <2>2. batch' \in Seq(ready) BY <1>1, <2>1, Arrangements
  <2> QED BY <2>2, ReportsAreSound
<1>3. UNCHANGED <<fd, observer, queues, fresh, kind, frame, aborted, touched>>
  BY DEF ObserveKernel
<1>4. Targets' BY <1>2, <1>3, ReportsAreSound DEF Targets
<1>5. Calling(queues, frame', fresh) BY <1>3 DEF IInv
<1>6. /\ aborted' \in {"no", "ready", "cancel"} /\ touched' \in BOOLEAN
      /\ aborted' = "cancel" => Epoll
  BY <1>3 DEF IInv, Typed
<1> QED BY <1>2, <1>3, <1>4, <1>5, <1>6, QuietStep

(* The first request of a queue leaves it while no delegate is called for  *)
(* it: after the call in progress, fr becomes NoFrame.                     *)
LEMMA DropStep ==
    ASSUME IInv, NEW o \in Objects, NEW d \in Dirs, ItemsOf(queues[d][o]) # <<>>,
           NEW otherwise, DropFirst(o, d, otherwise), otherwise \in Seq(Events),
           \A n \in 1..Len(otherwise) : otherwise[n].fd # NoFD =>
              otherwise[n].fd \in FDs /\ observer.target[otherwise[n].fd] \in Objects,
           frame' = NoFrame, UNCHANGED <<fd, fresh, kind, aborted, touched>>
    PROVE  IInv'
<1>1. /\ Sound(observer', queues') /\ Once(queues', fresh)
      /\ Keeps(observer, observer') /\ batch' = otherwise
  BY DropKeeps
<1>2. Descriptors' BY DEF IInv, Descriptors
<1>3. Sound(observer, queues)' BY <1>1, SoundNext
<1>4. Once(queues, fresh)' BY <1>1, OnceNext
<1>5. Calling(queues, frame, fresh)' BY DEF Calling, NoFrame
<1>6. Targets' BY <1>1 DEF Targets, Keeps
<1>7. Typed' BY <1>1 DEF IInv, Typed, Epoll, Keeps
<1> QED BY <1>2, <1>3, <1>4, <1>5, <1>6, <1>7 DEF IInv

LEMMA DeliverStep ==
    ASSUME IInv, DeliverEvent
    PROVE  IInv'
<1>1. CASE DeliverToNobody
  <2>1. /\ UNCHANGED <<fd, observer, queues, fresh, kind, batch, frame, touched>>
        /\ aborted' = "ready"
    BY <1>1 DEF DeliverToNobody
  <2>2. Targets' BY <2>1 DEF IInv, Targets
  <2>3. Calling(queues, frame', fresh) /\ batch' \in Seq(Events) /\ touched' \in BOOLEAN
    BY <2>1 DEF IInv, Typed
  <2> QED BY <2>1, <2>2, <2>3, QuietStep
<1>2. CASE DeliverPartly
  <2>1. /\ UNCHANGED <<fd, observer, queues, fresh, kind, frame, aborted, touched>>
        /\ batch' = Tail(batch) /\ batch # <<>>
    BY <1>2 DEF DeliverPartly, Deliver
  <2>2. Targets' /\ batch' \in Seq(Events) BY <2>1, NextEvent DEF Targets
  <2>3. Calling(queues, frame', fresh) BY <2>1 DEF IInv
  <2>4. /\ aborted' \in {"no", "ready", "cancel"} /\ touched' \in BOOLEAN
        /\ aborted' = "cancel" => Epoll
    BY <2>1 DEF IInv, Typed
  <2> QED BY <2>1, <2>2, <2>3, <2>4, QuietStep
<1>3. CASE DeliverToDelegate
  <2> DEFINE d == Head(batch).dir
             q == Pending(d, NextObject)
  <2>1. /\ UNCHANGED <<fd, observer, queues, fresh, kind, aborted, touched>>
        /\ batch' = Tail(batch) /\ batch # <<>> /\ q # <<>>
        /\ frame' = [item |-> Head(q), obj |-> NextObject, dir |-> d,
                     freed |-> FALSE, detached |-> FALSE]
    BY <1>3 DEF DeliverToDelegate, Deliver
  <2>2. NextObject \in Objects /\ d \in Dirs BY <2>1, NextEvent
  <2>3. Targets' /\ batch' \in Seq(Events) BY <2>1, NextEvent DEF Targets
  <2>4. q = ItemsOf(queues[d][NextObject]) BY DEF Pending, ItemsOf
  <2>5. q \in Seq(Items)
    BY <2>2, <2>4, ItemsAreSequences DEF IInv, Sound, SoundQueues
  <2> HIDE DEF q, d
  <2>6. Head(q) = q[1] /\ 1 \in 1..Len(q) /\ Head(q) \in Items
    BY <2>1, <2>5, EmptySeq, HeadTailProperties
  <2>7. Head(q) \notin fresh
    BY <2>2, <2>4, <2>6 DEF IInv, Once
  <2>8. /\ frame' \in [item : Items, obj : Objects, dir : Dirs, freed : BOOLEAN,
                       detached : BOOLEAN]
        /\ frame'.item = Head(q) /\ frame'.obj = NextObject /\ frame'.dir = d
        /\ frame'.detached = FALSE
    BY <2>1, <2>2, <2>6
  <2>9. Calling(queues, frame', fresh)
    BY <2>1, <2>4, <2>7, <2>8 DEF Calling
  <2>10. /\ aborted' \in {"no", "ready", "cancel"} /\ touched' \in BOOLEAN
         /\ aborted' = "cancel" => Epoll
    BY <2>1 DEF IInv, Typed
  <2> QED BY <2>1, <2>3, <2>9, <2>10, QuietStep
<1>4. CASE DeliverDone
  <2>1. /\ UNCHANGED <<fd, fresh, kind, frame, aborted, touched>>
        /\ batch # <<>> /\ frame = NoFrame
        /\ Pending(Head(batch).dir, NextObject) # <<>>
        /\ DropFirst(NextObject, Head(batch).dir, Tail(batch))
    BY <1>4 DEF DeliverDone, Deliver, Idle
  <2>2. ItemsOf(queues[Head(batch).dir][NextObject]) # <<>>
    BY <2>1 DEF Pending, ItemsOf
  <2> QED BY <2>1, <2>2, NextEvent, DropStep
<1> QED BY <1>1, <1>2, <1>3, <1>4 DEF DeliverEvent

LEMMA ReturnStep ==
    ASSUME IInv, Return
    PROVE  IInv'
<1>1. CASE HandlerDone
  <2>1. frame # NoFrame /\ frame' = NoFrame /\ UNCHANGED <<fd, fresh, kind, aborted, touched>>
    BY <1>1 DEF HandlerDone
  <2>2. CASE frame.detached \/ Pending(frame.dir, frame.obj) = <<>>
    <3>1. UNCHANGED <<queues, observer, batch>> BY <1>1, <2>2 DEF HandlerDone
    <3>2. Targets' /\ batch' \in Seq(Events) BY <3>1 DEF IInv, Targets, Typed
    <3>3. Calling(queues, frame', fresh) BY <2>1 DEF Calling
    <3>4. /\ aborted' \in {"no", "ready", "cancel"} /\ touched' \in BOOLEAN
          /\ aborted' = "cancel" => Epoll
      BY <2>1 DEF IInv, Typed
    <3> QED BY <2>1, <3>1, <3>2, <3>3, <3>4, QuietStep
  <2>3. CASE ~(frame.detached \/ Pending(frame.dir, frame.obj) = <<>>)
    <3>1. DropFirst(frame.obj, frame.dir, batch) BY <1>1, <2>3 DEF HandlerDone
    <3>2. frame.obj \in Objects /\ frame.dir \in Dirs
      BY <2>1 DEF IInv, Calling
    <3>3. ItemsOf(queues[frame.dir][frame.obj]) # <<>> BY <2>3 DEF Pending, ItemsOf
    <3>4. /\ batch \in Seq(Events)
          /\ \A n \in 1..Len(batch) : batch[n].fd # NoFD =>
                batch[n].fd \in FDs /\ observer.target[batch[n].fd] \in Objects
      BY DEF IInv, Typed, Targets
    <3> QED BY <2>1, <3>1, <3>2, <3>3, <3>4, DropStep
  <2> QED BY <2>2, <2>3
<1>2. CASE HandlerContinue
  <2>1. /\ UNCHANGED <<fd, observer, queues, fresh, kind, batch, aborted>>
        /\ frame' = NoFrame /\ frame # NoFrame
        /\ touched' = (touched \/ (frame.freed /\ kind[frame.item] = "rearming"))
    BY <1>2 DEF HandlerContinue
  <2>2. Targets' /\ batch' \in Seq(Events) BY <2>1 DEF IInv, Targets, Typed
  <2>3. Calling(queues, frame', fresh) BY <2>1 DEF Calling
  <2>4. frame.freed \in BOOLEAN BY <2>1 DEF IInv, Calling
  <2>5. aborted' \in {"no", "ready", "cancel"} /\ (aborted' = "cancel" => Epoll)
    BY <2>1 DEF IInv, Typed
  <2>6. touched' \in BOOLEAN BY <2>1, <2>4 DEF IInv, Typed
  <2> QED BY <2>1, <2>2, <2>3, <2>5, <2>6, QuietStep
<1>3. CASE HandlerThrows
  <2>1. /\ UNCHANGED <<fd, observer, queues, fresh, kind, aborted, touched>>
        /\ frame' = NoFrame /\ batch' = <<>>
    BY <1>3 DEF HandlerThrows
  <2>2. Targets' /\ batch' \in Seq(Events) BY <2>1 DEF Targets
  <2>3. Calling(queues, frame', fresh) BY <2>1 DEF Calling
  <2>4. /\ aborted' \in {"no", "ready", "cancel"} /\ touched' \in BOOLEAN
        /\ aborted' = "cancel" => Epoll
    BY <2>1 DEF IInv, Typed
  <2> QED BY <2>1, <2>2, <2>3, <2>4, QuietStep
<1> QED BY <1>1, <1>2, <1>3 DEF Return

LEMMA StepKeeps ==
    ASSUME Disciplined, IInv, [Next]_vars
    PROVE  IInv'
<1>1. CASE Observe BY <1>1, ObserveBuffersStep, ObserveKernelStep DEF Observe
<1>2. CASE DeliverEvent BY <1>2, DeliverStep
<1>3. CASE Return BY <1>3, ReturnStep
<1>4. ASSUME NEW o \in Objects, User(o)
      PROVE  IInv'
  <2>1. CASE \E d \in Dirs, i \in Items : Submit(o, d, i) BY <2>1, SubmitStep
  <2> QED BY <1>4, <2>1, OpenStep, CloseStep, CancelStep DEF User
<1>5. CASE UNCHANGED vars
  <2>1. UNCHANGED <<fd, observer, queues, fresh, kind, batch, frame, aborted, touched>>
    BY <1>5 DEF vars
  <2>2. Targets' /\ batch' \in Seq(Events) BY <2>1 DEF IInv, Targets, Typed
  <2>3. Calling(queues, frame', fresh) BY <2>1 DEF IInv
  <2>4. /\ aborted' \in {"no", "ready", "cancel"} /\ touched' \in BOOLEAN
        /\ aborted' = "cancel" => Epoll
    BY <2>1 DEF IInv, Typed
  <2> QED BY <2>1, <2>2, <2>3, <2>4, QuietStep
<1> QED BY <1>1, <1>2, <1>3, <1>4, <1>5 DEF Next

LEMMA InitHolds == Init => IInv
<1> SUFFICES ASSUME Init PROVE IInv OBVIOUS
<1>1. PICK b \in Backends :
         observer = [backend |-> b,
                     objects |-> [d \in Dirs |-> [o \in Objects |-> 0]],
                     events  |-> [f \in FDs |-> {}],
                     kernel  |-> [f \in FDs |-> {}],
                     target  |-> [f \in FDs |-> NoItem]]
  BY DEF Init
<1>2. /\ observer \in Observers
      /\ \A d \in Dirs, o \in Objects : observer.objects[d][o] = 0
      /\ \A f \in FDs : observer.events[f] = {} /\ observer.kernel[f] = {}
  BY <1>1 DEF Observers
<1>3. /\ queues \in Dictionaries
      /\ \A d \in Dirs, o \in Objects : /\ queues[d][o] = NoQueue
                                        /\ ItemsOf(queues[d][o]) = <<>>
  BY DEF Init, Dictionaries, ItemsOf
<1>4. Descriptors BY DEF Init, Descriptors
<1>5. Sound(observer, queues)
  <2>1. SoundQueues(queues, observer.backend) BY <1>3 DEF SoundQueues
  <2>2. Watches(observer, queues)
    BY <1>2, <1>3, <1>4 DEF Watches, Wanted, Init
  <2> QED BY <1>2, <2>1, <2>2 DEF Sound
<1>6. Once(queues, fresh) BY <1>3 DEF Once
<1>7. Calling(queues, frame, fresh) BY DEF Init, Calling
<1>8. Targets /\ Typed
  <2>1. batch = <<>> /\ batch \in Seq(Events) BY DEF Init
  <2>2. fresh \in SUBSET Items /\ kind \in [Items -> {"plain", "rearming", "connect"}]
    BY DEF Init
  <2>3. aborted = "no" /\ touched \in BOOLEAN BY DEF Init
  <2>4. Targets BY <2>1 DEF Targets
  <2> QED BY <2>1, <2>2, <2>3, <2>4 DEF Typed
<1> QED BY <1>4, <1>5, <1>6, <1>7, <1>8 DEF IInv

-----------------------------------------------------------------------------
(* Programs that are Disciplined.                                          *)

LEMMA Inductive == Disciplined => (Spec => []IInv)
<1> SUFFICES ASSUME Disciplined PROVE Spec => []IInv OBVIOUS
<1>1. Init => IInv BY InitHolds
<1>2. IInv /\ [Next]_vars => IInv' BY StepKeeps
<1> QED BY <1>1, <1>2, PTL DEF Spec

(* Every variable keeps its type, whatever the delegates do in the middle  *)
(* of a batch: in particular the program never ends up with a delegate     *)
(* call, a batch or a dictionary that is none (OFRunLoop.m:274-360).       *)
THEOREM TypeCorrect == Disciplined => (Spec => []TypeOK)
<1> SUFFICES ASSUME Disciplined PROVE Spec => []TypeOK OBVIOUS
<1>1. ASSUME IInv PROVE TypeOK
  <2>1. \A d \in Dirs, o \in Objects :
           \/ queues[d][o] = NoQueue
           \/ queues[d][o] \in [items : Seq(Items), count : Nat]
    BY <1>1 DEF IInv, Sound, SoundQueues, Dictionaries, Lists
  <2>2. frame \in [item : Items \cup {NoItem}, obj : Objects \cup {NoItem},
                   dir : Dirs, freed : BOOLEAN, detached : BOOLEAN]
    <3>1. NoFrame \in [item : Items \cup {NoItem}, obj : Objects \cup {NoItem},
                       dir : Dirs, freed : BOOLEAN, detached : BOOLEAN]
      BY DEF NoFrame, Dirs
    <3> QED BY <1>1, <3>1 DEF IInv, Calling
  <2> QED BY <1>1, <2>1, <2>2
        DEF TypeOK, IInv, Descriptors, Sound, Observers, Events, Typed
<1> QED BY <1>1, Inductive, PTL

(* For any number of objects, descriptors and requests, with epoll as with *)
(* poll: as long as requests are cancelled before their object is closed,  *)
(* an object is watched in a direction exactly when a request is pending   *)
(* for it, in the arrays of objects, the observer's book and the kernel    *)
(* alike, and the events of its descriptor come to it and not to a former  *)
(* owner of the number (OFKernelEventObserver.m:195-213,                   *)
(* OFEpollKernelEventObserver.m:93-190, OFPollKernelEventObserver.m:72-175).*)
THEOREM WatchedTruly == Disciplined => (Spec => []WatchedIffPending)
<1> SUFFICES ASSUME Disciplined PROVE Spec => []WatchedIffPending OBVIOUS
<1>1. ASSUME IInv PROVE WatchedIffPending
  BY <1>1 DEF IInv, Sound, Watches, Wanted, WatchedIffPending, Pending, ItemsOf
<1> QED BY <1>1, Inductive, PTL

(* In a program that is Disciplined,                                       *)
(* only an object epoll refuses to watch leaves an empty queue behind, and *)
(* only cancelling for such an object fails the assertion that its queue   *)
(* is not empty (OFRunLoop.m:1308, 1321).                                  *)
THEOREM RefusedOnly == Disciplined => (Spec => []OnlyRefusedLeaveEmptyQueues)
<1> SUFFICES ASSUME Disciplined PROVE Spec => []OnlyRefusedLeaveEmptyQueues OBVIOUS
<1>1. ASSUME IInv PROVE OnlyRefusedLeaveEmptyQueues
  <2>1. ASSUME NEW d \in Dirs, NEW o \in Objects, queues[d][o] = EmptyList
        PROVE  Epoll /\ o \in Files
    <3>1. EmptyList \in Lists /\ EmptyList.items = <<>> BY DEF EmptyList, Lists
    <3>2. queues[d][o] # NoQueue /\ queues[d][o].items = <<>>
      BY <2>1, <3>1, ListsAreNotNoQueue
    <3> QED BY <1>1, <3>2 DEF IInv, Sound, SoundQueues, Epoll
  <2> QED BY <1>1, <2>1 DEF IInv, Typed, OnlyRefusedLeaveEmptyQueues
<1> QED BY <1>1, Inductive, PTL

-----------------------------------------------------------------------------
(* Any program, Disciplined or not: whatever throws in the middle of what, *)
(* a list never counts less than it holds.                                 *)

Covering == {l \in Lists : Len(l.items) <= l.count}

CoveredQueues(qs) == qs \in [Dirs -> [Objects -> Covering \cup {NoQueue}]]

LEMMA CoveredUpdate ==
    ASSUME NEW qs, CoveredQueues(qs), NEW d, NEW o, NEW l,
           d \in Dirs /\ o \in Objects => l \in Covering \cup {NoQueue}
    PROVE  CoveredQueues([qs EXCEPT ![d][o] = l])
<1>1. CASE d \in Dirs /\ o \in Objects BY <1>1 DEF CoveredQueues
<1>2. CASE ~(d \in Dirs /\ o \in Objects) BY <1>2 DEF CoveredQueues
<1> QED BY <1>1, <1>2

LEMMA CoveredOps ==
    ASSUME NEW l \in Covering
    PROVE  /\ l # NoQueue
           /\ \A i \in Items : Appended(l, i) \in Covering
           /\ AllRemoved(l) \in Covering
           /\ l.items # <<>> => FirstRemoved(l) \in Covering
<1>1. /\ l.items \in Seq(Items) /\ l.count \in Nat /\ Len(l.items) <= l.count
      /\ l = [items |-> l.items, count |-> l.count]
  BY DEF Covering, Lists
<1>2. l # NoQueue BY ListsAreNotNoQueue DEF Covering
<1>3. ASSUME NEW i \in Items PROVE Appended(l, i) \in Covering
  <2>1. /\ Append(l.items, i) \in Seq(Items)
        /\ Len(Append(l.items, i)) = Len(l.items) + 1 /\ Len(l.items) \in Nat
    BY <1>1
  <2>2. l.count + 1 \in Nat /\ Len(Append(l.items, i)) <= l.count + 1 BY <1>1, <2>1
  <2> QED BY <2>1, <2>2 DEF Appended, Covering, Lists
<1>4. AllRemoved(l) \in Covering
  <2>1. AllRemoved(l) = [items |-> <<>>, count |-> l.count] BY <1>1 DEF AllRemoved
  <2>2. <<>> \in Seq(Items) /\ Len(<<>>) <= l.count BY <1>1
  <2> QED BY <1>1, <2>1, <2>2 DEF Covering, Lists
<1>5. ASSUME l.items # <<>> PROVE FirstRemoved(l) \in Covering
  <2>1. /\ Tail(l.items) \in Seq(Items) /\ Len(Tail(l.items)) = Len(l.items) - 1
        /\ Len(l.items) \in Nat /\ Len(l.items) # 0
    BY <1>1, <1>5, HeadTailProperties, EmptySeq
  <2>2. l.count - 1 \in Nat /\ Len(Tail(l.items)) <= l.count - 1 BY <1>1, <2>1
  <2> QED BY <2>1, <2>2 DEF FirstRemoved, Covering, Lists
<1> QED BY <1>2, <1>3, <1>4, <1>5

LEMMA CoveredQueue ==
    ASSUME NEW qs, CoveredQueues(qs), NEW d \in Dirs, NEW o \in Objects
    PROVE  qs[d][o] = NoQueue \/ qs[d][o] \in Covering
BY DEF CoveredQueues

LEMMA CoveredCancel ==
    ASSUME NEW s, CoveredQueues(s.queues), NEW d \in Dirs, NEW o \in Objects
    PROVE  CoveredQueues(CancelDir(s, o, d).queues)
<1> DEFINE same == s.queues[d][o] = NoQueue \/ s.thrown \/ s.aborted # "no"
           fails == RemoveFails(s.observer, o, d)
           left == IF fails THEN AllRemoved(s.queues[d][o]) ELSE NoQueue
<1>1. CASE same BY <1>1 DEF CancelDir
<1>2. CASE ~same /\ s.queues[d][o].count = 0
  <2>1. CancelDir(s, o, d) = [s EXCEPT !.aborted = "cancel"] BY <1>2 DEF CancelDir
  <2>2. [s EXCEPT !.aborted = "cancel"].queues = s.queues OBVIOUS
  <2> QED BY <2>1, <2>2
<1>3. CASE ~same /\ s.queues[d][o].count # 0
  <2>1. CancelDir(s, o, d).queues = [s.queues EXCEPT ![d][o] = left]
    BY <1>3 DEF CancelDir
  <2>2. left \in Covering \cup {NoQueue} BY <1>3, CoveredQueue, CoveredOps
  <2> DEFINE qs == s.queues
             new == [qs EXCEPT ![d][o] = left]
  <2> HIDE DEF left
  <2>3. CoveredQueues(qs) OBVIOUS
  <2> HIDE DEF qs
  <2>4. CoveredQueues(new) BY <2>2, <2>3, CoveredUpdate
  <2>5. CancelDir(s, o, d).queues = new BY <2>1 DEF qs
  <2> HIDE DEF new
  <2> QED BY <2>4, <2>5
<1> QED BY <1>1, <1>2, <1>3

LEMMA CoveredDrop ==
    ASSUME CoveredQueues(queues), NEW d, NEW o, NEW otherwise,
           Pending(d, o) # <<>>, DropFirst(o, d, otherwise)
    PROVE  CoveredQueues(queues')
<1> DEFINE rest == FirstRemoved(queues[d][o])
           last == rest.count = 0
           left == IF last /\ ~RemoveFails(observer, o, d) THEN NoQueue ELSE rest
<1>1. queues' = [queues EXCEPT ![d][o] = left] BY DEF DropFirst
<1>2. ASSUME d \in Dirs, o \in Objects PROVE left \in Covering \cup {NoQueue}
  <2>1. queues[d][o] # NoQueue /\ queues[d][o].items # <<>> BY DEF Pending
  <2>2. rest \in Covering BY <1>2, <2>1, CoveredQueue, CoveredOps
  <2> QED BY <2>2
<1> HIDE DEF left
<1> QED BY <1>1, <1>2, CoveredUpdate

LEMMA CoveredSubmit ==
    ASSUME CoveredQueues(queues), NEW o \in Objects, NEW d \in Dirs, NEW i \in Items,
           Submit(o, d, i)
    PROVE  CoveredQueues(queues')
<1> DEFINE list == IF queues[d][o] = NoQueue THEN EmptyList ELSE queues[d][o]
           fails == list.count = 0 /\ AddFails(o)
           l == IF fails THEN list ELSE Appended(list, i)
<1>1. queues' = [queues EXCEPT ![d][o] = l] BY DEF Submit
<1>2. EmptyList \in Covering
  <2>1. <<>> \in Seq(Items) /\ Len(<<>>) = 0 OBVIOUS
  <2> QED BY <2>1 DEF EmptyList, Covering, Lists
<1>3. list \in Covering BY <1>2, CoveredQueue
<1> HIDE DEF list
<1>4. l \in Covering BY <1>3, CoveredOps
<1> HIDE DEF l
<1> QED BY <1>1, <1>4, CoveredUpdate

LEMMA CoveredStep ==
    ASSUME CoveredQueues(queues), [Next]_vars
    PROVE  CoveredQueues(queues')
<1>1. ASSUME NEW o \in Objects, Cancel(o) PROVE CoveredQueues(queues')
  <2> DEFINE now == [observer |-> observer, queues |-> queues, thrown |-> FALSE,
                     frame |-> frame, aborted |-> aborted]
             half == CancelDir(now, o, "write")
  <2>1. queues' = CancelDir(half, o, "read").queues BY <1>1 DEF Cancel
  <2>2. "write" \in Dirs /\ "read" \in Dirs BY DEF Dirs
  <2>3. CoveredQueues(now.queues) OBVIOUS
  <2> HIDE DEF now
  <2>4. CoveredQueues(half.queues) BY <2>2, <2>3, CoveredCancel
  <2> HIDE DEF half
  <2> QED BY <2>1, <2>2, <2>4, CoveredCancel
<1>2. ASSUME NEW o \in Objects, User(o) PROVE CoveredQueues(queues')
  <2>1. CASE Open(o) BY <2>1 DEF Open
  <2>2. CASE Close(o) BY <2>2 DEF Close
  <2>3. CASE Cancel(o) BY <1>1, <2>3
  <2>4. CASE \E d \in Dirs, i \in Items : Submit(o, d, i) BY <2>4, CoveredSubmit
  <2> QED BY <1>2, <2>1, <2>2, <2>3, <2>4 DEF User
<1>3. ASSUME Observe PROVE CoveredQueues(queues')
  BY <1>3 DEF Observe, ObserveBuffers, ObserveKernel
<1>4. ASSUME DeliverEvent PROVE CoveredQueues(queues')
  <2>1. CASE DeliverToNobody BY <2>1 DEF DeliverToNobody
  <2>2. CASE DeliverPartly BY <2>2 DEF DeliverPartly
  <2>3. CASE DeliverToDelegate BY <2>3 DEF DeliverToDelegate
  <2>4. CASE DeliverDone
    <3>1. /\ Pending(Head(batch).dir, NextObject) # <<>>
          /\ DropFirst(NextObject, Head(batch).dir, Tail(batch))
      BY <2>4 DEF DeliverDone
    <3> QED BY <3>1, CoveredDrop
  <2> QED BY <1>4, <2>1, <2>2, <2>3, <2>4 DEF DeliverEvent
<1>5. ASSUME Return PROVE CoveredQueues(queues')
  <2>1. CASE HandlerDone
    <3>1. CASE frame.detached \/ Pending(frame.dir, frame.obj) = <<>>
      BY <2>1, <3>1 DEF HandlerDone
    <3>2. CASE ~(frame.detached \/ Pending(frame.dir, frame.obj) = <<>>)
      <4>1. DropFirst(frame.obj, frame.dir, batch) BY <2>1, <3>2 DEF HandlerDone
      <4> QED BY <3>2, <4>1, CoveredDrop
    <3> QED BY <3>1, <3>2
  <2>2. CASE HandlerContinue BY <2>2 DEF HandlerContinue
  <2>3. CASE HandlerThrows BY <2>3 DEF HandlerThrows
  <2> QED BY <1>5, <2>1, <2>2, <2>3 DEF Return
<1>6. ASSUME UNCHANGED vars PROVE CoveredQueues(queues') BY <1>6 DEF vars
<1> QED BY <1>2, <1>3, <1>4, <1>5, <1>6 DEF Next

LEMMA AlwaysCovered == Spec => []CoveredQueues(queues)
<1>1. Init => CoveredQueues(queues) BY DEF Init, CoveredQueues
<1>2. CoveredQueues(queues) /\ [Next]_vars => CoveredQueues(queues)'
  <2>1. CoveredQueues(queues)' <=> CoveredQueues(queues') BY DEF CoveredQueues
  <2> QED BY <2>1, CoveredStep
<1> QED BY <1>1, <1>2, PTL DEF Spec

(* For any program, with whatever exceptions out of a cancellation: a list *)
(* in a dictionary never counts less than it holds, although removing all  *)
(* its requests does not reset the count (OFList.m:277-291), so that it    *)
(* leaves the dictionary only when it is empty and its count does not wrap *)
(* (OFRunLoop.m:290-310).  For a Disciplined program it counts exactly     *)
(* what it holds.                                                          *)
THEOREM CountsAreRight == Spec => []CountsAgree
<1>1. CASE Disciplined
  <2>1. ASSUME IInv PROVE CountsAgree
    <3>1. ASSUME NEW d \in Dirs, NEW o \in Objects, queues[d][o] # NoQueue
          PROVE  /\ Len(queues[d][o].items) <= queues[d][o].count
                 /\ queues[d][o].count = Len(queues[d][o].items)
      <4>1. queues[d][o].count = Len(queues[d][o].items) /\ queues[d][o] \in Lists
        BY <2>1, <3>1 DEF IInv, Sound, SoundQueues, Dictionaries
      <4> QED BY <4>1 DEF Lists
    <3> QED BY <3>1 DEF CountsAgree
  <2> QED BY <1>1, <2>1, Inductive, PTL
<1>2. CASE ~Disciplined
  <2>1. ASSUME CoveredQueues(queues) PROVE CountsAgree
    BY <1>2, <2>1, CoveredQueue DEF CountsAgree, Covering
  <2> QED BY <2>1, AlwaysCovered, PTL
<1> QED BY <1>1, <1>2

-----------------------------------------------------------------------------
(* The queues implement AsyncRequests.                                     *)

Mapped == [d \in Dirs |-> [o \in Objects |-> Pending(d, o)]]

LEMMA Places ==
    /\ \A d \in Dirs, o \in Objects : /\ Mapped[d][o] = ItemsOf(queues[d][o])
                                      /\ Mapped'[d][o] = ItemsOf(queues'[d][o])
    /\ Mapped = [d \in Dirs |-> [o \in Objects |-> ItemsOf(queues[d][o])]]
    /\ Mapped' = [d \in Dirs |-> [o \in Objects |-> ItemsOf(queues'[d][o])]]
BY DEF Mapped, Pending, ItemsOf

LEMMA SameMapped == queues' = queues => Mapped' = Mapped
BY Places

(* What a step does to the one queue that moves.                           *)
LEMMA OneMapped ==
    ASSUME NEW d \in Dirs, NEW o \in Objects,
           \A e \in Dirs, p \in Objects : e # d \/ p # o =>
              ItemsOf(queues'[e][p]) = ItemsOf(queues[e][p])
    PROVE  Mapped' = [Mapped EXCEPT ![d][o] = ItemsOf(queues'[d][o])]
<1>1. ASSUME NEW e \in Dirs, NEW p \in Objects
      PROVE  Mapped'[e][p] = [Mapped EXCEPT ![d][o] = ItemsOf(queues'[d][o])][e][p]
  <2>1. CASE e = d /\ p = o BY <2>1, Places
  <2>2. CASE e # d \/ p # o BY <2>2, Places
  <2> QED BY <2>1, <2>2
<1> QED BY <1>1, Places

LEMMA SubmitMoves ==
    ASSUME Disciplined, IInv, NEW o \in Objects, NEW d \in Dirs, NEW i \in Items,
           Submit(o, d, i)
    PROVE  \/ Mapped' = Mapped
           \/ Mapped' = [Mapped EXCEPT ![d][o] = Append(@, i)]
<1> DEFINE list == IF queues[d][o] = NoQueue THEN EmptyList ELSE queues[d][o]
           fails == list.count = 0 /\ AddFails(o)
           l == IF fails THEN list ELSE Appended(list, i)
<1>1. queues \in Dictionaries BY DEF IInv, Sound, SoundQueues
<1>2. queues' = [queues EXCEPT ![d][o] = l] BY DEF Submit
<1>3. /\ list \in Lists /\ list # NoQueue /\ list.items = ItemsOf(queues[d][o])
      /\ list.count = Len(list.items)
  <2>1. CASE queues[d][o] = NoQueue
    <3>1. EmptyList \in Lists /\ EmptyList.count = 0 /\ EmptyList.items = <<>>
      BY DEF EmptyList, Lists
    <3> QED BY <2>1, <3>1, ListsAreNotNoQueue DEF ItemsOf
  <2>2. CASE queues[d][o] # NoQueue
    BY <1>1, <2>2 DEF IInv, Sound, SoundQueues, Dictionaries, ItemsOf
  <2> QED BY <2>1, <2>2
<1>4. /\ Appended(list, i) \in Lists
      /\ ItemsOf(Appended(list, i)) = Append(list.items, i)
  BY <1>3, ListOps DEF ItemsOf
<1> HIDE DEF list
<1>5. /\ l \in Lists \cup {NoQueue}
      /\ ItemsOf(l) = list.items \/ ItemsOf(l) = Append(list.items, i)
  BY <1>3, <1>4 DEF ItemsOf
<1> HIDE DEF l
<1>6. /\ queues'[d][o] = l
      /\ \A e \in Dirs, p \in Objects : e # d \/ p # o => queues'[e][p] = queues[e][p]
  BY <1>1, <1>2, <1>5, OneQueue
<1>7. Mapped' = [Mapped EXCEPT ![d][o] = ItemsOf(queues'[d][o])]
  <2>1. \A e \in Dirs, p \in Objects : e # d \/ p # o =>
           ItemsOf(queues'[e][p]) = ItemsOf(queues[e][p])
    BY <1>6
  <2> QED BY <2>1, OneMapped
<1>8. Mapped[d][o] = list.items BY <1>3, Places
<1>9. CASE ItemsOf(l) = list.items
  <2>1. [Mapped EXCEPT ![d][o] = Mapped[d][o]] = Mapped BY Places
  <2> QED BY <1>6, <1>7, <1>8, <1>9, <2>1
<1>10. CASE ItemsOf(l) = Append(list.items, i)
  <2>1. Mapped' = [Mapped EXCEPT ![d][o] = Append(Mapped[d][o], i)]
    BY <1>6, <1>7, <1>8, <1>10
  <2>2. Mapped' = [Mapped EXCEPT ![d][o] = Append(@, i)] BY <2>1, Places
  <2> QED BY <2>2
<1> QED BY <1>5, <1>9, <1>10

LEMMA DropMoves ==
    ASSUME IInv, NEW o \in Objects, NEW d \in Dirs, ItemsOf(queues[d][o]) # <<>>,
           NEW otherwise, DropFirst(o, d, otherwise)
    PROVE  Mapped' = [Mapped EXCEPT ![d][o] = Tail(@)]
<1>1. /\ ItemsOf(queues'[d][o]) = Tail(ItemsOf(queues[d][o]))
      /\ \A e \in Dirs, p \in Objects : e # d \/ p # o =>
            ItemsOf(queues'[e][p]) = ItemsOf(queues[e][p])
  BY DropKeeps
<1>2. Mapped' = [Mapped EXCEPT ![d][o] = Tail(Mapped[d][o])]
  <2>1. Mapped' = [Mapped EXCEPT ![d][o] = ItemsOf(queues'[d][o])] BY <1>1, OneMapped
  <2>2. ItemsOf(queues'[d][o]) = Tail(Mapped[d][o]) BY <1>1, Places
  <2> QED BY <2>1, <2>2
<1> QED BY <1>2, Places

LEMMA CancelMoves ==
    ASSUME NEW o \in Objects, Prunes(queues, queues', o)
    PROVE  \E ds \in SUBSET Dirs :
              Mapped' = [d \in Dirs |-> IF d \in ds THEN [Mapped[d] EXCEPT ![o] = <<>>]
                                        ELSE Mapped[d]]
<1> DEFINE ds == {d \in Dirs : ItemsOf(queues'[d][o]) = <<>>}
           new == [d \in Dirs |-> IF d \in ds THEN [Mapped[d] EXCEPT ![o] = <<>>]
                                  ELSE Mapped[d]]
<1>1. ASSUME NEW d \in Dirs
      PROVE  Mapped'[d] = new[d]
  <2>1. Mapped[d] = [p \in Objects |-> ItemsOf(queues[d][p])]
    BY Places
  <2>2. Mapped'[d] = [p \in Objects |-> ItemsOf(queues'[d][p])]
    BY Places
  <2>3. ASSUME NEW p \in Objects
        PROVE  ItemsOf(queues'[d][p]) = new[d][p]
    BY <2>1 DEF Prunes
  <2>4. new[d] = [p \in Objects |-> new[d][p]] BY <2>1
  <2> HIDE DEF new
  <2> QED BY <2>2, <2>3, <2>4
<1>2. Mapped' = [d \in Dirs |-> Mapped'[d]] BY Places
<1>3. new = [d \in Dirs |-> new[d]] OBVIOUS
<1>4. Mapped' = new
  <2> HIDE DEF new
  <2> QED BY <1>1, <1>2, <1>3
<1> QED BY <1>4

(* The delegate is done with the request it was called for.                *)
LEMMA FinishMoves ==
    ASSUME IInv, HandlerDone
    PROVE  Mapped' = [d \in Dirs |-> [o \in Objects |->
                         IF Mapped[d][o] # <<>> /\ Head(Mapped[d][o]) = frame.item
                           THEN Tail(Mapped[d][o]) ELSE Mapped[d][o]]]
<1> DEFINE Done(d, o) == IF Mapped[d][o] # <<>> /\ Head(Mapped[d][o]) = frame.item
                           THEN Tail(Mapped[d][o]) ELSE Mapped[d][o]
<1>1. /\ frame.item \in Items /\ frame.obj \in Objects /\ frame.dir \in Dirs
      /\ frame.detached \in BOOLEAN
      /\ ~frame.detached => /\ ItemsOf(queues[frame.dir][frame.obj]) # <<>>
                            /\ Head(ItemsOf(queues[frame.dir][frame.obj])) = frame.item
      /\ frame.detached => \A d \in Dirs, o \in Objects :
            \A n \in 1..Len(ItemsOf(queues[d][o])) : ItemsOf(queues[d][o])[n] # frame.item
  BY DEF HandlerDone, IInv, Calling
<1>2. ASSUME NEW d \in Dirs, NEW o \in Objects, ItemsOf(queues[d][o]) # <<>>
      PROVE  /\ Head(ItemsOf(queues[d][o])) = ItemsOf(queues[d][o])[1]
             /\ 1 \in 1..Len(ItemsOf(queues[d][o]))
  <2>1. ItemsOf(queues[d][o]) \in Seq(Items)
    BY ItemsAreSequences DEF IInv, Sound, SoundQueues
  <2> QED BY <1>2, <2>1, EmptySeq, HeadTailProperties
<1>3. CASE frame.detached
  <2>1. Mapped' = Mapped BY <1>3, SameMapped DEF HandlerDone
  <2>2. \A d \in Dirs, o \in Objects : Done(d, o) = Mapped[d][o]
    BY <1>1, <1>2, <1>3, Places
  <2>3. Mapped = [d \in Dirs |-> [o \in Objects |-> Mapped[d][o]]] BY Places
  <2> QED BY <2>1, <2>2, <2>3
<1>4. CASE ~frame.detached
  <2> DEFINE e == frame.dir
             p == frame.obj
  <2>1. Pending(e, p) = ItemsOf(queues[e][p]) BY DEF Pending, ItemsOf
  <2>2. DropFirst(p, e, batch) BY <1>1, <1>4, <2>1 DEF HandlerDone
  <2>3. ItemsOf(queues[e][p]) # <<>> /\ Head(ItemsOf(queues[e][p])) = frame.item
    BY <1>1, <1>4
  <2>4. e \in Dirs /\ p \in Objects BY <1>1
  <2> HIDE DEF e, p
  <2>5. Mapped' = [Mapped EXCEPT ![e][p] = Tail(@)] BY <2>2, <2>3, <2>4, DropMoves
  <2>6. ASSUME NEW d \in Dirs, NEW o \in Objects
        PROVE  Done(d, o) = Mapped'[d][o]
    <3>1. CASE d = e /\ o = p
      <4>1. Mapped[d][o] # <<>> /\ Head(Mapped[d][o]) = frame.item
        BY <2>3, <2>4, <3>1, Places
      <4>2. Mapped'[d][o] = Tail(Mapped[d][o]) BY <2>4, <2>5, <3>1, Places
      <4> QED BY <4>1, <4>2
    <3>2. CASE d # e \/ o # p
      <4>1. Mapped'[d][o] = Mapped[d][o] BY <2>4, <2>5, <3>2, Places
      <4>2. ~(Mapped[d][o] # <<>> /\ Head(Mapped[d][o]) = frame.item)
        <5> SUFFICES ASSUME Mapped[d][o] # <<>>, Head(Mapped[d][o]) = frame.item
                     PROVE  FALSE
          OBVIOUS
        <5>1. ItemsOf(queues[d][o]) # <<>> /\ Head(ItemsOf(queues[d][o])) = frame.item
          BY Places
        <5>2. /\ 1 \in 1..Len(ItemsOf(queues[d][o])) /\ 1 \in 1..Len(ItemsOf(queues[e][p]))
              /\ ItemsOf(queues[d][o])[1] = ItemsOf(queues[e][p])[1]
          BY <1>2, <2>3, <2>4, <5>1
        <5> QED BY <2>4, <3>2, <5>2 DEF IInv, Once
      <4> QED BY <4>1, <4>2
    <3> QED BY <3>1, <3>2
  <2>7. Mapped' = [d \in Dirs |-> [o \in Objects |-> Mapped'[d][o]]] BY Places
  <2> HIDE DEF Done
  <2> QED BY <2>6, <2>7 DEF Done
<1> QED BY <1>1, <1>3, <1>4

LEMMA RequestsStep ==
    ASSUME Disciplined, IInv, [Next]_vars
    PROVE  [Requests!Next]_(Requests!vars)
<1> DEFINE Goal == [Requests!Next]_(Requests!vars)
<1>0. Mapped = [d \in Dirs |-> [o \in Objects |-> Pending(d, o)]] BY DEF Mapped
<1>1. ASSUME queues' = queues, fresh' = fresh, frame'.item = frame.item PROVE Goal
  <2>1. Mapped' = Mapped BY <1>1, SameMapped
  <2> QED BY <1>1, <2>1 DEF Requests!vars, Mapped
<1>2. ASSUME queues' = queues, fresh' = fresh, frame # NoFrame, frame' = NoFrame PROVE Goal
  <2>1. frame.item # NoItem /\ frame'.item = NoItem
    BY <1>2, ObjectAssumption DEF IInv, Calling, NoFrame
  <2>2. Mapped' = Mapped BY <1>2, SameMapped
  <2>3. Requests!Again BY <1>2, <2>1, <2>2 DEF Requests!Again, Mapped
  <2> QED BY <2>3 DEF Requests!Next
<1>3. CASE Observe BY <1>1, <1>3 DEF Observe, ObserveBuffers, ObserveKernel
<1>4. CASE DeliverToNobody \/ DeliverPartly
  BY <1>1, <1>4 DEF DeliverToNobody, DeliverPartly
<1>5. CASE DeliverToDelegate
  <2>1. /\ queues' = queues /\ fresh' = fresh /\ frame = NoFrame /\ batch # <<>>
        /\ Pending(Head(batch).dir, NextObject) # <<>>
        /\ frame'.item = Head(Pending(Head(batch).dir, NextObject))
    BY <1>5 DEF DeliverToDelegate, Deliver, Idle
  <2>2. PICK o \in Objects, d \in Dirs : o = NextObject /\ d = Head(batch).dir
    BY <2>1, NextEvent
  <2>3. Mapped' = Mapped /\ Mapped[d][o] = Pending(d, o)
    BY <2>1, <2>2, SameMapped DEF Mapped
  <2>4. frame.item = NoItem BY <2>1 DEF NoFrame
  <2>5. Requests!Call(o, d) BY <2>1, <2>2, <2>3, <2>4 DEF Requests!Call, Mapped
  <2> QED BY <2>5 DEF Requests!Next
<1>6. CASE DeliverDone
  <2>1. /\ fresh' = fresh /\ frame' = frame /\ frame = NoFrame /\ batch # <<>>
        /\ Pending(Head(batch).dir, NextObject) # <<>>
        /\ DropFirst(NextObject, Head(batch).dir, Tail(batch))
    BY <1>6 DEF DeliverDone, Deliver, Idle
  <2>2. PICK o \in Objects, d \in Dirs : o = NextObject /\ d = Head(batch).dir
    BY <2>1, NextEvent
  <2>3. ItemsOf(queues[d][o]) # <<>> /\ Mapped[d][o] # <<>>
    BY <2>1, <2>2, Places DEF Pending, ItemsOf
  <2>4. DropFirst(o, d, Tail(batch)) BY <2>1, <2>2
  <2>5. Mapped' = [Mapped EXCEPT ![d][o] = Tail(@)] BY <2>3, <2>4, DropMoves
  <2>6. frame.item = NoItem BY <2>1 DEF NoFrame
  <2>7. Requests!Drop(o, d) BY <2>1, <2>3, <2>5, <2>6 DEF Requests!Drop, Mapped
  <2> QED BY <2>7 DEF Requests!Next
<1>7. CASE HandlerDone
  <2>1. /\ fresh' = fresh /\ frame # NoFrame /\ frame' = NoFrame BY <1>7 DEF HandlerDone
  <2>2. frame.item # NoItem /\ frame'.item = NoItem
    BY <2>1, ObjectAssumption DEF IInv, Calling, NoFrame
  <2>3. Mapped' = [d \in Dirs |-> [o \in Objects |->
                     IF Mapped[d][o] # <<>> /\ Head(Mapped[d][o]) = frame.item
                       THEN Tail(Mapped[d][o]) ELSE Mapped[d][o]]]
    BY <1>7, FinishMoves
  <2>4. Requests!Finish BY <2>1, <2>2, <2>3 DEF Requests!Finish, Mapped
  <2> QED BY <2>4 DEF Requests!Next
<1>8. CASE HandlerContinue \/ HandlerThrows
  BY <1>2, <1>8 DEF HandlerContinue, HandlerThrows
<1>9. ASSUME NEW o \in Objects, Open(o) \/ Close(o) PROVE Goal
  BY <1>1, <1>9 DEF Open, Close
<1>10. ASSUME NEW o \in Objects, Cancel(o) PROVE Goal
  <2>1. PICK ds \in SUBSET Dirs :
           Mapped' = [d \in Dirs |-> IF d \in ds THEN [Mapped[d] EXCEPT ![o] = <<>>]
                                     ELSE Mapped[d]]
    BY <1>10, CancelKeeps, CancelMoves
  <2>2. frame'.item = frame.item /\ fresh' = fresh
    BY <1>10, CancelKeeps DEF Cancel
  <2>3. Requests!Cancel(o, ds) BY <2>1, <2>2 DEF Requests!Cancel, Mapped
  <2> QED BY <2>3 DEF Requests!Next
<1>11. ASSUME NEW o \in Objects, NEW d \in Dirs, NEW i \in Items, Submit(o, d, i)
       PROVE  Goal
  <2>1. i \in fresh /\ fresh' = fresh \ {i} /\ frame' = frame BY <1>11 DEF Submit
  <2>2. Mapped' = Mapped \/ Mapped' = [Mapped EXCEPT ![d][o] = Append(@, i)]
    BY <1>11, SubmitMoves
  <2>3. Requests!Submit(o, d, i) BY <2>1, <2>2 DEF Requests!Submit, Mapped
  <2> QED BY <2>3 DEF Requests!Next
<1>12. CASE UNCHANGED vars BY <1>1, <1>12 DEF vars
<1> HIDE DEF Goal
<1>13. ASSUME NEW o \in Objects, User(o) PROVE Goal
  <2>1. CASE \E d \in Dirs, i \in Items : Submit(o, d, i) BY <1>11, <2>1
  <2> QED BY <1>9, <1>10, <1>13, <2>1 DEF User
<1>14. Goal
  BY <1>3, <1>4, <1>5, <1>6, <1>7, <1>8, <1>12, <1>13 DEF Next, DeliverEvent, Return, Goal
<1> QED BY <1>14 DEF Goal

(* With descriptors, the observer and its batches hidden, the requests of  *)
(* an object in one direction are served first come, first served, one     *)
(* delegate at a time; a request leaves when its delegate is done with it, *)
(* and never comes back once it was cancelled (OFRunLoop.m:274-360,        *)
(* :1295-1333).                                                            *)
THEOREM RequestsImplemented == Disciplined => (Spec => ImplementsAsyncRequests)
<1> SUFFICES ASSUME Disciplined PROVE Spec => ImplementsAsyncRequests OBVIOUS
<1>1. Init => Requests!Init
  BY DEF Init, Requests!Init, Pending, NoFrame
<1>2. IInv /\ [Next]_vars => [Requests!Next]_(Requests!vars) BY RequestsStep
<1> QED BY <1>1, <1>2, Inductive, PTL DEF Spec, ImplementsAsyncRequests, Requests!Spec
=============================================================================
