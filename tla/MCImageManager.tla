--------------------------- MODULE MCImageManager ---------------------------
EXTENDS ImageManager, TLC

\* Two versions of one item, and another item.
MCPairs == {<<"a", 1>>, <<"a", 2>>, <<"b", 1>>}

Symmetry == Permutations(Callers)
=============================================================================
