----------------------------- MODULE MCRegionFile -----------------------------
EXTENDS RegionFile

\* Two slots; a one-cell and a three-cell version, so that a slot torn between
\* its offset and its length can overhang the file even after another append.
MCSlots == <<0, 1>>
MCSize  == [v \in Versions |-> IF v = "short" THEN 1 ELSE 3]
=============================================================================
