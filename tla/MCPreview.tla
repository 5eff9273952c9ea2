----------------------------- MODULE MCPreview -----------------------------
EXTENDS Preview, TLC
CONSTANTS first, twin, other, bad

\* twin is first with other spacing: the same drawing.  bad is refused, as a
\* file that is absent is.
Drawings == (first :> 1) @@ (twin :> 1) @@ (other :> 2)
Bursts == {[saves |-> 3, clobbers |-> 0, visits |-> 0]}

Watched == Bursts \cup {[saves |-> 2, clobbers |-> 1, visits |-> 1]}

=============================================================================
