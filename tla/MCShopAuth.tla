------------------------------ MODULE MCShopAuth ------------------------------
(* Small instances of ShopAuth.                                              *)
EXTENDS ShopAuth, TLC

CONSTANTS a1, a2, r1, b1, e1

\* No property tells two shops, or two requests that add shops, apart.
ShopSymmetry == Permutations(Shops) \cup Permutations(Admitters)

\* Bounds of the run: requests at work at a time, shops with tokens, and a
\* third pair of tokens only where there is one shop with one row so far.
Small ==
  /\ Cardinality({p \in Requests : req[p].pc # "idle"}) <= 2
  /\ Cardinality({s \in Shops : tokens[s] # <<>>}) <= 1
  /\ \/ Len(issued) <= 2
     \/ /\ Cardinality({s \in Shops : shops[s] # "none"}) <= 1
        /\ \A s \in Shops : Len(tokens[s]) <= 1

==============================================================================
