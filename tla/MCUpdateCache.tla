---------------------------- MODULE MCUpdateCache ----------------------------
EXTENDS UpdateCache, TLC
CONSTANTS c1, c2, a1, old, new, fix

Delays == {1}
Crowd == [cast |-> {c1, c2, a1}, served |-> {new}, overlap |-> TRUE, span |-> 0,
          mortal |-> {}, stalls |-> 2]
InTurn == [cast |-> {c1, c2, a1}, served |-> {old, new, fix},
           overlap |-> FALSE, span |-> 1, mortal |-> {c1, c2}, stalls |-> 3]

Both == {Crowd, InTurn}
Alike == Permutations({c1, c2})
=============================================================================
