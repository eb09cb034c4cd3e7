--------------------------- MODULE MCDashboardCache ---------------------------
(* Small instances of DashboardCache.                                        *)
EXTENDS DashboardCache, TLC

CONSTANTS ka, kb, kc, kd, r1, r2, p1, p2

\* ka and kb are two custom ranges of one trend, kc is the same trend of
\* another shop, kd a ranking.
FourKeys == [k \in Keys |-> IF k = kc THEN 2 ELSE IF k = kd THEN 3 ELSE 1]
OneKey   == [k \in {ka} |-> 1]

ApartHost == (r1 :> p1) @@ (r2 :> p2)
SoloHost  == [r \in {r1} |-> p1]
BothHost  == [r \in {r1, r2} |-> p1]

\* Bound of dash_trend: writes under way at once.
FewWrites == Cardinality(tableWrites) + Cardinality(snapWrites) <= 2

\* Bounds of dash_dims: writes and refreshes under way at once, two trends asked
\* or cached in one behaviour, and nothing else while the ranking is (its values
\* meet no trend's).
Touched(k) ==
  \/ mem[p1][k] # None \/ table[k] # None \/ k \in inflight[p1]
  \/ \E r \in Requests : key[r] = k /\ pc[r] # "idle"
FewUnderWay ==
  /\ Cardinality(tableWrites) + Cardinality(inflight[p1]) <= 2
  /\ Cardinality({k \in Trend : Touched(k)}) <= 2
  /\ \A k \in Keys \ Trend : Touched(k) => \A i \in Keys \ {k} : ~Touched(i)

\* ka and kb are alike and so are the requests: no property tells them apart.
RangeSymmetry == Permutations({ka, kb})
RequestSymmetry == Permutations({r1, r2}) \cup RangeSymmetry

==============================================================================
