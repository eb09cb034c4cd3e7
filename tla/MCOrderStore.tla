----------------------------- MODULE MCOrderStore -----------------------------
(* Small instances of OrderStore: the second version of an order has another   *)
(* line in the place of one it had.                                            *)
EXTENDS OrderStore

CONSTANTS o1, o2, s1, s2, p1, p2

TwoVersions == <<<<"a", "b", "a">>, <<"a", "c">>>>
Alike == Permutations(Orders) \cup Permutations(Shops) \cup Permutations(Pulls)

\* One rebuild, at the end of a behaviour.
UntilReport == ops.step # "done"
=============================================================================
