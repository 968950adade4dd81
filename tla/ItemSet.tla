------------------------------ MODULE ItemSet -------------------------------
(***************************************************************************)
(* What an LWSet promises (src/LWSet.c, spec.md 4.1): a set of items in    *)
(* which equal items (here: items with the same Key) occur at most once.   *)
(* add replaces an equal item, remove drops the equal item, clear empties  *)
(* the set, intersect keeps the items equal to one of another set, given *)
(* by the keys of its items (KeepSets); union and minus add or remove the *)
(* items of another set (OtherSets).                                      *)
(***************************************************************************)
CONSTANTS Items, Key, KeepSets, OtherSets

VARIABLE members

\* the members that are not equal to x
Others(x) == {y \in members : Key[y] # Key[x]}

Init == members = {}

Add(x) == members' = Others(x) \cup {x}

Remove(x) == members' = Others(x)

Clear == members' = {}

\* union with another set: its items replace equal members
Union(other) == members' = {y \in members : \A o \in other : Key[o] # Key[y]} \cup other

Minus(other) == members' = {y \in members : \A o \in other : Key[o] # Key[y]}

Intersect(keep) == members' = {y \in members : Key[y] \in keep}

Next ==
  \/ \E x \in Items : Add(x) \/ Remove(x)
  \/ Clear
  \/ \E other \in OtherSets : Union(other) \/ Minus(other)
  \/ \E keep \in KeepSets : Intersect(keep)

Spec == Init /\ [][Next]_members
=============================================================================
