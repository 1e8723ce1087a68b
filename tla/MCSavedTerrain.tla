---------------------------- MODULE MCSavedTerrain ----------------------------
(* Small instances of SavedTerrain.  Four names and three stored ids, so that *)
(* a palette can be too full for a registry.                                  *)
EXTENDS SavedTerrain, TLC

CONSTANTS p1, p2, r1, r2, unknown, stone, ore, gem, i1, i2, i3

TwoChunks  == {p1, p2}
TwoReaders == {r1, r2}
MCNames    == {unknown, stone, ore, gem}
MCBase     == {unknown, stone}
MCIds      == {i1, i2, i3}

Symmetry == Permutations(TwoChunks) \cup Permutations(TwoReaders)
              \cup Permutations(MCIds) \cup Permutations({ore, gem})
===============================================================================
