---------------------------- MODULE OFMapTable ----------------------------
(***************************************************************************)
(* The hash table under OFDictionary, OFSet and OFCountedSet               *)
(* (src/OFMapTable.m): open addressing with linear probing, tombstones     *)
(* where keys were removed, growing and shrinking by a factor of two, and  *)
(* enumerators that look at a count of mutations.                          *)
(*                                                                         *)
(* The two loops of every search, from the home of the key to the end and  *)
(* from the start to the home, are one search around the table.  The count *)
(* of mutations is abstracted to what an enumerator sees of it: whether it *)
(* changed since the enumerator was made.                                  *)
(***************************************************************************)
EXTENDS Integers, SequencesExt

CONSTANTS Keys, Values,
          Hashes,       (* hash functions, after the rotation              *)
          MinCapacity,  (* MIN_CAPACITY                                    *)
          MaxCapacity,  (* bound: tables above are not copied              *)
          None          (* NULL                                            *)

(* A hash is an unsigned number, and NULL neither an object nor a place.   *)
ASSUME MapAssumption == /\ Hashes \subseteq [Keys -> Nat]
                        /\ None \notin Values /\ None \notin Nat
                        /\ MinCapacity \in Nat \ {0}

VARIABLES table,        (* _buckets, _capacity and _count                  *)
          hash,         (* the hash function under the current _rotate     *)
          enum,         (* an enumerator, and what it returned (history)   *)
          contents,     (* the dictionary the calls made so far define     *)
          failed        (* a place was not found (history)                 *)

mapVars == <<table, hash, enum, contents, failed>>

Null == [kind |-> "null"]
Deleted == [kind |-> "deleted"]
Bucket(k, v, h) == [kind |-> "bucket", key |-> k, object |-> v, hash |-> h]

Empty(capacity) == [capacity |-> capacity, count |-> 0,
                    buckets |-> [i \in 0..capacity - 1 |-> Null]]

NoEnumerator == [on |-> FALSE, position |-> 0, mutated |-> FALSE, seen |-> << >>]

MapInit(hashes) ==
    /\ table \in {Empty(c) : c \in {MinCapacity, 2 * MinCapacity}}
    /\ hash \in hashes
    /\ enum = NoEnumerator
    /\ contents = [k \in Keys |-> None]
    /\ failed = FALSE

-----------------------------------------------------------------------------
(* The first of some positions from the home of h on, around the table;    *)
(* None if there is none.                                                  *)
Search(t, h, positions) ==
    LET found == {d \in 0..t.capacity - 1 : (h + d) % t.capacity \in positions}
    IN  IF found = {} THEN None ELSE (h + Min(found)) % t.capacity

(* Positions that keys use and that no key uses, those that never were     *)
(* used, and that of k.                                                    *)
Live(t) == {i \in DOMAIN t.buckets : t.buckets[i].kind = "bucket"}
Free(t) == DOMAIN t.buckets \ Live(t)
Unused(t) == {i \in DOMAIN t.buckets : t.buckets[i] = Null}
Holding(t, k) == {i \in Live(t) : t.buckets[i].key = k}

(* Variants of the definitions that follow them, here and below: slips of  *)
(* the code the properties are validated against.                          *)
FindUpToTombstone(t, k, h) ==
    LET i == Search(t, h, Free(t) \cup Holding(t, k))
    IN  IF i \in Holding(t, k) THEN i ELSE None

(* Where k is, or None.                                                    *)
Find(t, k, h) ==
    LET i == Search(t, h, Unused(t) \cup Holding(t, k))
    IN  IF i \in Holding(t, k) THEN i ELSE None

(* -[objectForKey:].                                                       *)
ObjectForKey(k) ==
    LET i == Find(table, k, hash[k]) IN IF i = None THEN None ELSE table.buckets[i].object

Put(t, i, b) == [t EXCEPT !.buckets[i] = b]

(* What Op makes of start and the buckets of t, one after the other in the *)
(* order they lie in.                                                      *)
InOrder(Op(_, _), start, t) ==
    LET upTo[n \in 0..t.capacity] ==
            IF n = 0 THEN start
            ELSE IF n - 1 \in Live(t) THEN Op(upTo[n - 1], t.buckets[n - 1])
            ELSE upTo[n - 1]
    IN  upTo[t.capacity]

(* The buckets of t in a table of another capacity: each takes the first   *)
(* place not used, in the order they lie in, and the tombstones are gone.  *)
Move(u, b) == Put(u, Search(u, b.hash, Unused(u)), b)

Moved(t, capacity) == InOrder(Move, [Empty(capacity) EXCEPT !.count = t.count], t)

(* -[of_resizeForCount:]: a table three quarters full doubles, one with a  *)
(* quarter in use or less is halved, unless this is to add something or it *)
(* would get too small.                                                    *)
Resized(t, count) ==
    LET fullness == (count * 8) \div t.capacity
        capacity == IF fullness >= 6 THEN t.capacity * 2
                    ELSE IF fullness <= 1 THEN t.capacity \div 2
                    ELSE t.capacity
    IN  IF \/ capacity = t.capacity
           \/ capacity < t.capacity /\ count > t.count
           \/ capacity < MinCapacity
          THEN t
          ELSE Moved(t, capacity)

(* The second half of -[of_setObject:forKey:hash:], for a key that is not  *)
(* in the table: the first place free or vacated takes it.                 *)
Place(t, h) == Search(t, h, Free(t))

Added(t, k, v, h) ==
    LET u == Resized(t, t.count + 1)
    IN  [Put(u, Place(u, h), Bucket(k, v, h)) EXCEPT !.count = @ + 1]

MutatedUncounted == UNCHANGED enum

(* _mutations++.                                                           *)
Mutated == enum' = [enum EXCEPT !.mutated = @ \/ enum.on]

-----------------------------------------------------------------------------
(* -[setObject:forKey:]; a new object for a key that is there is not       *)
(* counted as a mutation.                                                  *)
SetObject(k, v) ==
    LET i == Find(table, k, hash[k])
    IN  /\ contents' = [contents EXCEPT ![k] = v]
        /\ UNCHANGED hash
        /\ \/ /\ i # None
              /\ table' = Put(table, i, [table.buckets[i] EXCEPT !.object = v])
              /\ UNCHANGED <<enum, failed>>
           \/ /\ i = None
              /\ IF Place(Resized(table, table.count + 1), hash[k]) = None
                   THEN failed' = TRUE /\ UNCHANGED table
                   ELSE table' = Added(table, k, v, hash[k]) /\ UNCHANGED failed
              /\ Mutated

(* -[removeObjectForKey:].                                                 *)
RemoveObject(k) ==
    LET i == Find(table, k, hash[k])
        t == [Put(table, i, Deleted) EXCEPT !.count = @ - 1]
    IN  /\ contents' = [contents EXCEPT ![k] = None]
        /\ IF i = None THEN UNCHANGED <<table, enum>>
           ELSE table' = Resized(t, t.count) /\ Mutated
        /\ UNCHANGED <<hash, failed>>

(* -[replaceObjectsUsingBlock:] with a block that returns v and leaves the *)
(* table alone; no mutation is counted.                                    *)
ReplaceObjects(v) ==
    /\ table' = [table EXCEPT !.buckets =
                   [i \in DOMAIN @ |-> IF i \in Live(table)
                                         THEN Bucket(@[i].key, v, @[i].hash) ELSE @[i]]]
    /\ contents' = [k \in Keys |-> IF contents[k] = None THEN None ELSE v]
    /\ UNCHANGED <<hash, enum, failed>>

(* -[removeAllObjects]: the table takes its least size and hashes anew; no *)
(* mutation is counted, so that an enumerator goes on: over the same empty *)
(* buckets, or over memory that is no longer the table's, where anything   *)
(* may happen; the model lets it go.                                       *)
RemoveAllObjects ==
    /\ table' = Empty(MinCapacity)
    /\ contents' = [k \in Keys |-> None]
    /\ hash' \in Hashes
    /\ enum' = NoEnumerator
    /\ UNCHANGED failed

(* -[copy]: a table made for as many objects as this one has buckets, into *)
(* which the buckets are set in the order they lie in; whoever copied goes *)
(* on with the copy, which hashes anew.  In it the hashes are the keys'.   *)
Copied(t, h) ==
    LET Set(u, b) == Added(u, b.key, b.object, h[b.key])
    IN  InOrder(Set, Empty(2 * t.capacity), t)

Copy ==
    /\ 2 * table.capacity <= MaxCapacity
    /\ hash' \in Hashes
    /\ table' = Copied(table, hash')
    /\ enum' = NoEnumerator
    /\ UNCHANGED <<contents, failed>>

-----------------------------------------------------------------------------
(* -[keyEnumerator], and -[nextObject] of the enumerator until it throws   *)
(* or has reached the end.                                                 *)
KeyEnumerator ==
    /\ ~enum.on
    /\ enum' = [NoEnumerator EXCEPT !.on = TRUE]
    /\ UNCHANGED <<table, hash, contents, failed>>

NextObject ==
    LET left == {i \in Live(table) : i >= enum.position}
        i == Min(left)
    IN  /\ enum.on
        /\ enum' = IF enum.mutated \/ left = {} THEN NoEnumerator
                   ELSE [enum EXCEPT !.position = i + 1,
                                     !.seen = Append(@, table.buckets[i].key)]
        /\ UNCHANGED <<table, hash, contents, failed>>

MapNext ==
    \/ \E k \in Keys : RemoveObject(k) \/ \E v \in Values : SetObject(k, v)
    \/ \E v \in Values : ReplaceObjects(v)
    \/ RemoveAllObjects
    \/ Copy
    \/ KeyEnumerator
    \/ NextObject

MapSpec == MapInit(Hashes) /\ [][MapNext]_mapVars

-----------------------------------------------------------------------------
(* Through any history of setting, replacing, removing, emptying, copying, *)
(* growing and shrinking, the table finds for every key the object last    *)
(* set for it, has a place for every key, and counts the keys.             *)
IsDictionary ==
    /\ \A k \in Keys : ObjectForKey(k) = contents[k]
    /\ table.count = Cardinality({k \in Keys : contents[k] # None})
    /\ table.count = Cardinality(Live(table))
    /\ ~failed

(* An enumerator that has not noticed a mutation returns every key of the  *)
(* table once: those returned and those it still comes to are the keys,    *)
(* none twice.  One that was under way when all objects were removed is    *)
(* excepted: that counts as no mutation, and the enumerator goes on over   *)
(* buckets that may have moved (OFMapTable.m:511-538), with no promise.    *)
EnumeratesOnce ==
    enum.on /\ ~enum.mutated =>
        LET rest == [i \in {j \in Live(table) : j >= enum.position} |-> table.buckets[i].key]
        IN  /\ ToSet(enum.seen) \cup Range(rest) = {k \in Keys : contents[k] # None}
            /\ ToSet(enum.seen) \cap Range(rest) = {}
            /\ IsInjective(enum.seen) /\ IsInjective(rest)
=============================================================================
