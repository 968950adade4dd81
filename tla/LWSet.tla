------------------------------- MODULE LWSet --------------------------------
(***************************************************************************)
(* The linear-probing hash table of src/LWSet.c.  The table is a function  *)
(* from bucket 0..size-1 to an item or NULL; items are model values, the   *)
(* user-supplied eq() is equality of Key, and hash() is Hash[Key[x]].      *)
(* A set value is a record [table, size, count] (count is itemCount), so   *)
(* that LWSetAdd, _LWSetGrow, LWSetUnion and the cleanup of LWSetRemove    *)
(* can call each other as operators, the way the C functions do.          *)
(***************************************************************************)
EXTENDS Integers, Sequences, SequencesExt, FiniteSets, FiniteSetsExt

CONSTANTS
  Items,        \* the items (pointers) that can be added
  Key,          \* Key[x]: items with equal keys are eq()
  Hash,         \* Hash[k]: hash() of an item with key k
  NULL,         \* an empty bucket
  Capacity,     \* the capacity argument of LWSetNew
  KeepSets,     \* the contents (as keys) of the otherSet of LWSetIntersect
  OtherSeqs     \* the items of the otherSet of LWSetUnion and LWSetMinus, in
                \* the order of its buckets

VARIABLES table, size, itemCount

vars == <<table, size, itemCount>>

\* the first entries of tableSizes[]; the model never grows past them
TableSizes == <<1, 3, 7, 13, 23, 37>>

-----------------------------------------------------------------------------
(* Operators on a set value s.                                             *)

\* _LWSetInit: the first table size at least capacity, then the next one
NewSet(capacity) ==
  LET i  == Min({k \in DOMAIN TableSizes : TableSizes[k] >= capacity})
      sz == TableSizes[i + 1]
  IN  [table |-> [b \in 0..(sz - 1) |-> NULL], size |-> sz, count |-> 0]

Home(s, x) == Hash[Key[x]] % s.size

\* the probe loop shared by LWSetAdd, LWSetRemove and LWSetGet: from bucket
\* i, the first bucket that is empty or holds an item eq() to x; -1 stands
\* for the endless loop over a table without an empty bucket
RECURSIVE ProbeFrom(_, _, _, _)

ProbeFrom(s, x, i, n) ==
  IF n = s.size THEN -1
  ELSE IF s.table[i] = NULL \/ Key[s.table[i]] = Key[x] THEN i
  ELSE ProbeFrom(s, x, (i + 1) % s.size, n + 1)

Probe(s, x) == ProbeFrom(s, x, Home(s, x), 0)

\* LWSetGet: the item eq() to x, or NULL
Get(s, x) == IF Probe(s, x) = -1 THEN NULL ELSE s.table[Probe(s, x)]

\* mutant: itemCount is incremented also when an equal item is replaced
PutAlwaysCount(s, x) ==
  LET i == Probe(s, x)
  IN  [s EXCEPT !.table[i] = x, !.count = @ + 1]

\* LWSetAdd up to the growth check: store x in the probed bucket, counting
\* it if the bucket was empty
Put(s, x) ==
  LET i == Probe(s, x)
  IN  [s EXCEPT !.table[i] = x, !.count = IF s.table[i] = NULL THEN @ + 1 ELSE @]

\* the buckets of s in index order, as LWSetUnion and LWSetIntersect scan them
Buckets(s) == [k \in 1..s.size |-> s.table[k - 1]]

RECURSIVE Add(_, _), Grow(_)

\* LWSetAdd: store, then grow when itemCount exceeds ((size + 2)/3)*2
Add(s, x) ==
  LET a == Put(s, x)
  IN  IF a.count > ((a.size + 2) \div 3) * 2 THEN Grow(a) ELSE a

\* _LWSetGrow(set, size): LWSetUnion of the old table into a new set made
\* with capacity size
Grow(s) ==
  FoldLeft(LAMBDA acc, y : IF y = NULL THEN acc ELSE Add(acc, y),
           NewSet(s.size), Buckets(s))

\* the cleanup loop of LWSetRemove: from bucket j to the next empty one,
\* take each item out and add it again
RECURSIVE Cleanup(_, _)
Cleanup(s, j) ==
  IF s.table[j] = NULL THEN s
  ELSE Cleanup(Add([s EXCEPT !.table[j] = NULL, !.count = @ - 1], s.table[j]),
               (j + 1) % s.size)

\* mutant: the removed item's bucket is emptied without the cleanup
RemoveItemNoCleanup(s, x) ==
  LET i == Probe(s, x)
  IN  IF s.table[i] = NULL THEN s
      ELSE [s EXCEPT !.table[i] = NULL, !.count = @ - 1]

\* mutant: itemCount is decremented also when no equal item is found
RemoveItemAlwaysDec(s, x) ==
  LET i == Probe(s, x)
  IN  IF s.table[i] = NULL THEN [s EXCEPT !.count = @ - 1]
      ELSE Cleanup([s EXCEPT !.table[i] = NULL, !.count = @ - 1], (i + 1) % s.size)

\* LWSetRemove
RemoveItem(s, x) ==
  LET i == Probe(s, x)
  IN  IF s.table[i] = NULL THEN s
      ELSE Cleanup([s EXCEPT !.table[i] = NULL, !.count = @ - 1], (i + 1) % s.size)

RECURSIVE IntersectFrom(_, _, _)

\* mutant: the scan moves on after a removal
IntersectFromSkip(s, keep, i) ==
  IF i >= s.size THEN s
  ELSE IF s.table[i] # NULL /\ Key[s.table[i]] \notin keep
  THEN IntersectFrom(RemoveItem(s, s.table[i]), keep, i + 1)
  ELSE IntersectFrom(s, keep, i + 1)

\* the loop of LWSetIntersect from bucket i: an item whose key the other
\* set lacks is removed and bucket i examined again, else i advances
IntersectFrom(s, keep, i) ==
  IF i >= s.size THEN s
  ELSE IF s.table[i] # NULL /\ Key[s.table[i]] \notin keep
  THEN IntersectFrom(RemoveItem(s, s.table[i]), keep, i)
  ELSE IntersectFrom(s, keep, i + 1)

-----------------------------------------------------------------------------
(* The operations, on the set held in the variables.                       *)

set == [table |-> table, size |-> size, count |-> itemCount]

SetTo(s) == table' = s.table /\ size' = s.size /\ itemCount' = s.count

Init ==
  LET s == NewSet(Capacity)
  IN  table = s.table /\ size = s.size /\ itemCount = s.count

LWSetAdd(x) == SetTo(Add(set, x))

LWSetRemove(x) == SetTo(RemoveItem(set, x))

\* LWSetClear: every bucket emptied, the table keeps its size
LWSetClear ==
  /\ table' = [b \in DOMAIN table |-> NULL]
  /\ itemCount' = 0
  /\ UNCHANGED size

\* LWSetUnion: LWSetAdd of each item of the other set, in bucket order
LWSetUnion(other) == SetTo(FoldLeft(Add, set, other))

\* LWSetMinus: LWSetRemove of each item of the other set, in bucket order
LWSetMinus(other) == SetTo(FoldLeft(RemoveItem, set, other))

LWSetIntersect(keep) == SetTo(IntersectFrom(set, keep, 0))

Next ==
  \/ \E x \in Items : LWSetAdd(x) \/ LWSetRemove(x)
  \/ LWSetClear
  \/ \E other \in OtherSeqs : LWSetUnion(other) \/ LWSetMinus(other)
  \/ \E keep \in KeepSets : LWSetIntersect(keep)

Spec == Init /\ [][Next]_vars

-----------------------------------------------------------------------------
(* Properties.                                                             *)

\* the items the table holds
Contents == {table[b] : b \in DOMAIN table} \ {NULL}

TypeOK ==
  /\ size \in {TableSizes[k] : k \in DOMAIN TableSizes}
  /\ table \in [0..(size - 1) -> Items \cup {NULL}]
  /\ itemCount \in Nat

\* itemCount is the number of occupied buckets, and at least one bucket is
\* empty, so every probe loop ends: the count must survive replacement of an
\* equal item, growth, and the take-out-and-add-again of the remove cleanup
CountMatches ==
  /\ itemCount = Cardinality({b \in DOMAIN table : table[b] # NULL})
  /\ itemCount < size

\* every stored item is found by LWSetGet from its home bucket: no empty
\* bucket lies between an item's home and its bucket, after any sequence of
\* adds, growths, removals with cleanup (also around the end of the table)
\* and intersections
Reachable == \A b \in DOMAIN table : table[b] # NULL => Get(set, table[b]) = table[b]

\* the table implements an ItemSet whose members are its contents
Abstract == INSTANCE ItemSet WITH members <- Contents,
                                   OtherSets <- {ToSet(o) : o \in OtherSeqs}

\* each operation on the table is the same operation on the abstract set:
\* in particular LWSetIntersect, which removes while it scans and must look
\* again at the bucket the cleanup just refilled, keeps exactly the items
\* the other set contains
OperationsRefine ==
  [][/\ \A x \in Items : /\ LWSetAdd(x) => Abstract!Add(x)
                         /\ LWSetRemove(x) => Abstract!Remove(x)
     /\ LWSetClear => Abstract!Clear
     /\ \A o \in OtherSeqs : /\ LWSetUnion(o) => Abstract!Union(ToSet(o))
                            /\ LWSetMinus(o) => Abstract!Minus(ToSet(o))
     /\ \A keep \in KeepSets : LWSetIntersect(keep) => Abstract!Intersect(keep)]_vars
=============================================================================
