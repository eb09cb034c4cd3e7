----------------------------- MODULE MCAccounts -----------------------------
EXTENDS Accounts, TLC
CONSTANTS root1, root2, ann, ben, home, acme, r1, r2
Alike == Permutations({ann, ben})
AlikeRoots == Permutations({root1, root2})
AlikeSlots == Permutations({r1, r2})
Symmetry == AlikeSlots \cup Alike \cup AlikeRoots
=============================================================================
