------------------------- MODULE AutoreleasePools -------------------------
(***************************************************************************)
(* The autorelease pools of one thread (src/runtime/autorelease.m): one    *)
(* array of objects, in which a pool is the count at the time it was       *)
(* pushed, and popping it releases what lies above.  Releasing an object   *)
(* may deallocate it, and its -[dealloc] is code like any other: it may    *)
(* autorelease objects and push and pop pools while the outer pop is in    *)
(* the middle of its loop.                                                 *)
(***************************************************************************)
EXTENDS Integers, SequencesExt

CONSTANTS MaxObjects,   (* bound: calls of _objc_rootAutorelease           *)
          MaxDepth,     (* bound: pops that are under way                  *)
          MaxPools,     (* bound: pools one piece of code has open         *)
          FirstSize     (* the first size of the array, 16 in the code     *)

ASSUME PoolsAssumption == MaxObjects \in Nat /\ FirstSize \in Nat \ {0}

VARIABLES objects,      (* objects[p] is what lies at position p           *)
          count, size,  (* the variables of these names                    *)
          frames,       (* the code that runs, innermost last: the pop     *)
                        (* whose release it runs in, and its open pools    *)
          autoreleased, (* how many objects were autoreleased (history)    *)
          releases      (* how often each was released by a pop (history)  *)

poolVars == <<objects, count, size, frames, autoreleased, releases>>

(* The code of the thread itself runs in no pop.                           *)
Main == [from |-> -1, at |-> -1, free |-> FALSE, pools |-> << >>]

PoolInit ==
    /\ objects = << >>
    /\ count = 0
    /\ size = 0
    /\ frames = <<Main>>
    /\ autoreleased = 0
    /\ releases = [o \in 1..MaxObjects |-> 0]

Running == Last(frames)
Resume(f) == Append(Front(frames), f)

-----------------------------------------------------------------------------
(* objc_autoreleasePoolPush.                                               *)
Push ==
    /\ Len(Running.pools) < MaxPools
    /\ frames' = Resume([Running EXCEPT !.pools = Append(@, count)])
    /\ UNCHANGED <<objects, count, size, autoreleased, releases>>

(* _objc_rootAutorelease of one more reference.                            *)
Autorelease ==
    /\ autoreleased < MaxObjects
    /\ autoreleased' = autoreleased + 1
    /\ size' = IF count < size THEN size ELSE IF size = 0 THEN FirstSize ELSE size * 2
    /\ objects' = Append(SubSeq(objects, 1, count), autoreleased + 1)
    /\ count' = count + 1
    /\ UNCHANGED <<frames, releases>>

(* A pop that forgets to lower the count: a slip the property is validated *)
(* against.                                                                *)
TurnKeepingCount(rest, f) ==
    /\ frames' = IF f.at < count THEN Append(rest, f) ELSE rest
    /\ releases' = IF f.at < count THEN [releases EXCEPT ![objects[f.at + 1]] = @ + 1]
                   ELSE releases
    /\ UNCHANGED <<objects, count, size>>

(* One turn of the loop of the pop f: the object at f.at is released, and  *)
(* its -[dealloc] runs, or the loop is over and the objects are forgotten. *)
Turn(rest, f) ==
    IF f.at < count
      THEN /\ releases' = [releases EXCEPT ![objects[f.at + 1]] = @ + 1]
           /\ frames' = Append(rest, f)
           /\ UNCHANGED <<objects, count, size>>
      ELSE /\ frames' = rest
           /\ count' = f.from
           /\ objects' = SubSeq(objects, 1, f.from)
           /\ size' = IF f.free THEN 0 ELSE size
           /\ UNCHANGED releases

(* objc_autoreleasePoolPop of one of the pools the running code has open,  *)
(* which closes those inside it as well (an exception may have passed over *)
(* their pops), or of -1 at the end of the thread.                         *)
Pop ==
    /\ Len(frames) <= MaxDepth
    /\ \/ \E p \in DOMAIN Running.pools :
            Turn(Resume([Running EXCEPT !.pools = SubSeq(@, 1, p - 1)]),
                 [Main EXCEPT !.from = Running.pools[p], !.at = Running.pools[p]])
       \/ /\ Len(frames) = 1
          /\ Turn(<<Main>>, [Main EXCEPT !.from = 0, !.at = 0, !.free = TRUE])
    /\ UNCHANGED autoreleased

(* The release returns to the loop of the pop it is made in, which looks   *)
(* at the count again; pools its code left open are the outer pool's now.  *)
ReleaseReturns ==
    /\ Len(frames) > 1
    /\ Turn(Front(frames), [Running EXCEPT !.at = @ + 1, !.pools = << >>])
    /\ UNCHANGED autoreleased

PoolNext == Push \/ Autorelease \/ Pop \/ ReleaseReturns

PoolSpec == PoolInit /\ [][PoolNext]_poolVars

-----------------------------------------------------------------------------
(* Positions whose objects a pop under way has released.                   *)
Passed(p) == \E i \in 2..Len(frames) : frames[i].from < p /\ p <= frames[i].at + 1

(* Every object autoreleased is released by exactly one pop: it has not    *)
(* been while it lies in the array and no pop under way has come to it,    *)
(* and it has been, once, otherwise.  The array has room for what it holds.*)
ReleasedOnce ==
    /\ \A o \in 1..autoreleased :
         releases[o] = IF \E p \in 1..count : objects[p] = o /\ ~Passed(p) THEN 0 ELSE 1
    /\ count <= size
=============================================================================
