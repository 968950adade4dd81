------------------------------- MODULE MCLWSet ------------------------------
(***************************************************************************)
(* Eight items with seven keys: a1 and a2 are equal (same key).  Hashes   *)
(* (a 0, b 3, c 7, d 6, e 5, f 13, g 2) make every item collide in the     *)
(* table of 3 buckets, make d and f share a probe run that wraps around    *)
(* the end of the table of 7, and fill the table of 7 to its growth point  *)
(* so that it grows to 13.                                                 *)
(***************************************************************************)
EXTENDS LWSet

CONSTANTS a1, a2, b, c, d, e, f, g

MCItems == {a1, a2, b, c, d, e, f, g}
MCKey == [x \in MCItems |-> CASE x = a1 -> "a" [] x = a2 -> "a" [] x = b -> "b"
                               [] x = c -> "c" [] x = d -> "d" [] x = e -> "e"
                               [] x = f -> "f" [] x = g -> "g"]
MCHash == [k \in {"a", "b", "c", "d", "e", "f", "g"} |->
             CASE k = "a" -> 0 [] k = "b" -> 3 [] k = "c" -> 7 [] k = "d" -> 6
               [] k = "e" -> 5 [] k = "f" -> 13 [] k = "g" -> 2]
MCKeepSets == {{"a", "d"}, {"b", "f"}}
MCOtherSeqs == {<<a2, c>>, <<f, d>>}
=============================================================================
