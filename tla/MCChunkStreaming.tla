--------------------------- MODULE MCChunkStreaming ---------------------------
(***************************************************************************)
(* Small worlds for the guest's terrain.  "home" is where guests enter;    *)
(* what is in view at home is out of the keeping distance of "away".       *)
(***************************************************************************)
EXTENDS ChunkStreaming

MCPlaces == {"home", "away"}
MCEntry  == <<"spawnland">>

TwoChunks == {"spawnland", "farland"}

\* One chunk in view from each place.
ApartView == [pl \in MCPlaces |-> IF pl = "home" THEN <<"spawnland">> ELSE <<"farland">>]
ApartKeep == [pl \in MCPlaces |-> ToSet(ApartView[pl])]

\* Two chunks in view from home, nothing from away.
RingView == [pl \in MCPlaces |-> IF pl = "home" THEN <<"spawnland", "farland">> ELSE <<>>]
RingKeep == [pl \in MCPlaces |-> ToSet(RingView[pl])]
=============================================================================
