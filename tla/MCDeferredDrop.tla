--------------------------- MODULE MCDeferredDrop ---------------------------
EXTENDS DeferredDrop

\* Lifetimes are interchangeable.
OwnerSymmetry == Permutations(Owners)
=============================================================================
