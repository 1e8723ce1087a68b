----------------------------- MODULE SavedTerrain -----------------------------
(***************************************************************************)
(* Saved chunks and the world that edits them: src/src/world/storage with  *)
(* the adoption and eviction paths of src/src/world.  One owner thread     *)
(* edits, saves, evicts and reloads content; Readers are the terrain       *)
(* workers, which read a region under its lock and prepare a chunk from an *)
(* immutable loader context.                                               *)
(*                                                                         *)
(* A chunk is abstracted to the name of the one block type of interest it  *)
(* holds above its bedrock, and a saved chunk to the id that name has in   *)
(* the stored palette: enough to tell a stale copy from a current one and  *)
(* a renumbered palette from a stable one.                                 *)
(***************************************************************************)
EXTENDS Naturals

CONSTANTS Chunks,     \* chunk positions
          Readers,    \* terrain workers, each with at most one result
          Names,      \* block names
          Base,       \* names every registry defines
          Unknown,    \* the placeholder block
          Native,     \* what the generator builds
          Ids,        \* stored block ids
          NoId,       \* no stored id, no stored chunk
          Absent,     \* not resident
          NoResult    \* a reader with nothing prepared

ASSUME NamesAssumption == /\ Base \subseteq Names
                          /\ Unknown \in Base
                          /\ Native \in Base
                          /\ Absent \notin Names

ASSUME SentinelAssumption == /\ NoId \notin Ids
                             /\ NoResult \notin [pos : Chunks, content : Names]

VARIABLES registry,   \* names the loaded content defines
          table,      \* palette in memory: name -> stored id
          mapped,     \* the palette could bind every registered name
          dirty,      \* the palette has bindings the file may lack
          diskTable,  \* palette file
          disk,       \* region files: the id a chunk was stored with
          resident,   \* TerrainStore: the live chunks
          modified,   \* chunks with edits no save has landed
          pool,       \* the loader context the readers hold
          current,    \* that context is still the world's own
          result,     \* what each reader prepared
          watch       \* readers whose revision token is still unchanged

paletteVars == <<registry, table, mapped, dirty, diskTable>>
readerVars  == <<pool, current, result, watch>>
liveVars    == <<resident, modified>>
vars == <<paletteVars, disk, liveVars, readerVars>>

-----------------------------------------------------------------------------
(* The palette: stored ids are only ever added. *)

Tables == [Names -> Ids \cup {NoId}]
NoTable == [n \in Names |-> NoId]

\* Fault: names the content no longer defines are pruned, and their ids reused.
PrunedExtensions(t, reg) ==
  LET new  == {n \in reg : t[n] = NoId}
      free == {id \in Ids : \A n \in reg : t[n] # id}
      Additions == {f \in [new -> free] : \A n, m \in new : f[n] = f[m] => n = m}
  IN {[n \in Names |-> IF n \in new THEN f[n] ELSE IF n \in reg THEN t[n] ELSE NoId]
        : f \in Additions}

\* Every binding is kept, removed names included; missing names get new ids.
Extensions(t, reg) ==
  LET new  == {n \in reg : t[n] = NoId}
      free == {id \in Ids : \A n \in Names : t[n] # id}
      Additions == {f \in [new -> free] : \A n, m \in new : f[n] = f[m] => n = m}
  IN {[n \in Names |-> IF n \in new THEN f[n] ELSE t[n]] : f \in Additions}

\* bind: all or nothing.  A table too full for the registry is left as it was
\* and the mapping is an error until the content changes.
Bind(t, reg, known) ==
  /\ registry' = reg
  /\ \/ /\ table' \in Extensions(t, reg)
        /\ mapped' = TRUE
        /\ dirty' = (known \/ table' # t)
     \/ /\ Extensions(t, reg) = {}
        /\ table' = t
        /\ mapped' = FALSE
        /\ dirty' = known

\* The name a stored id decodes to: the placeholder once its mod is gone.
Decode(t, reg, id) ==
  IF \E n \in reg : t[n] = id THEN CHOOSE n \in reg : t[n] = id ELSE Unknown

\* What a loader with this palette and registry makes of the stored chunk.
LoadWith(t, reg, id) == IF id = NoId THEN Native ELSE Decode(t, reg, id)
LoadNow(p) == LoadWith(table, registry, disk[p])

Remap(reg, n) == IF n \in reg THEN n ELSE Unknown

Registries == {reg \in SUBSET Names : Base \subseteq reg}

-----------------------------------------------------------------------------

Init ==
  /\ registry \in Registries
  /\ table \in Extensions(NoTable, registry)
  /\ mapped = TRUE /\ dirty = TRUE
  /\ diskTable = NoTable
  /\ disk = [p \in Chunks |-> NoId]
  /\ resident = [p \in Chunks |-> Absent]
  /\ modified = {}
  /\ pool = [table |-> table, registry |-> registry]
  /\ current = TRUE
  /\ result = [r \in Readers |-> NoResult]
  /\ watch = [p \in Chunks |-> {}]

-----------------------------------------------------------------------------
(* Writing a chunk: publish the palette, invalidate, write. *)

Outcomes == {"palette_failed",   \* the palette file was not replaced
             "palette_late",     \* it was, but publishing it reported an error
             "unwritten",        \* the region write failed before the slot
             "written_late",     \* it reported an error after the slot
             "saved"}

PaletteFails(outcome) == outcome \in {"palette_failed", "palette_late"}
Reaches(outcome) == mapped /\ (PaletteFails(outcome) => dirty)

\* Fault: the dirty mark is cleared before the palette file is written.
PublishClearsFirst(outcome) ==
  /\ Reaches(outcome)
  /\ diskTable' = IF dirty /\ outcome # "palette_failed" THEN table ELSE diskTable
  /\ dirty' = FALSE
  /\ current' = (current /\ (dirty => PaletteFails(outcome)))
  /\ UNCHANGED <<registry, table, mapped>>

\* PaletteStore::publish.  A successful publication retires the snapshot, and
\* with it every result prepared before the names were durable.
Publish(outcome) ==
  /\ Reaches(outcome)
  /\ diskTable' = IF dirty /\ outcome # "palette_failed" THEN table ELSE diskTable
  /\ dirty' = (dirty /\ PaletteFails(outcome))
  /\ current' = (current /\ (dirty => PaletteFails(outcome)))
  /\ UNCHANGED <<registry, table, mapped>>

\* Fault: tokens are invalidated only by a write that reported success.
WriteThenInvalidate(p, outcome) ==
  /\ watch' = IF outcome = "saved" THEN [watch EXCEPT ![p] = {}] ELSE watch
  /\ disk' = IF outcome \in {"written_late", "saved"}
             THEN [disk EXCEPT ![p] = table[resident[p]]]
             ELSE disk

\* RegionStore::write: the tokens go first, since a failed write may have
\* published bytes.
Write(p, outcome) ==
  /\ watch' = IF PaletteFails(outcome) THEN watch ELSE [watch EXCEPT ![p] = {}]
  /\ disk' = IF outcome \in {"written_late", "saved"}
             THEN [disk EXCEPT ![p] = table[resident[p]]]
             ELSE disk

\* save_chunk
SaveChunk(p, outcome) ==
  /\ resident[p] # Absent
  /\ Publish(outcome)
  /\ Write(p, outcome)

\* Fault: the mark is cleared whether or not the write landed.
SaveClearsAlways(p, outcome) ==
  /\ p \in modified
  /\ SaveChunk(p, outcome)
  /\ modified' = modified \ {p}
  /\ UNCHANGED <<resident, pool, result>>

\* One chunk of save_modified's loop.  Readers run, and the process may die,
\* between two chunks.
SaveModified(p, outcome) ==
  /\ p \in modified
  /\ SaveChunk(p, outcome)
  /\ modified' = IF outcome = "saved" THEN modified \ {p} ELSE modified
  /\ UNCHANGED <<resident, pool, result>>

\* evict_chunks: an edited chunk leaves only after its save landed.
Evict(p) ==
  /\ resident[p] # Absent
  /\ p \notin modified
  /\ resident' = [resident EXCEPT ![p] = Absent]
  /\ UNCHANGED <<paletteVars, disk, modified, readerVars>>

\* Fault: the chunk leaves whatever its save reported.
EvictAnyway(p, outcome) ==
  /\ p \in modified
  /\ SaveChunk(p, outcome)
  /\ resident' = [resident EXCEPT ![p] = Absent]
  /\ modified' = modified \ {p}
  /\ UNCHANGED <<pool, result>>

EvictModified(p, outcome) ==
  /\ p \in modified
  /\ SaveChunk(p, outcome)
  /\ IF outcome = "saved"
     THEN /\ resident' = [resident EXCEPT ![p] = Absent]
          /\ modified' = modified \ {p}
     ELSE UNCHANGED liveVars
  /\ UNCHANGED <<pool, result>>

\* write_state on a resident chunk.
Edit(p, n) ==
  /\ resident[p] # Absent
  /\ n \in registry
  /\ resident' = [resident EXCEPT ![p] = n]
  /\ modified' = modified \cup {p}
  /\ UNCHANGED <<paletteVars, disk, readerVars>>

-----------------------------------------------------------------------------
(* Adoption. *)

\* adopt_chunk: the chunk joins the world as prepared, or stamped by a
\* structure or a retrogen pass, which marks it edited.
Insert(p, content) ==
  \/ /\ resident' = [resident EXCEPT ![p] = content]
     /\ UNCHANGED modified
  \/ \E n \in registry : /\ resident' = [resident EXCEPT ![p] = n]
                         /\ modified' = modified \cup {p}

\* try_ensure_chunk: read and prepare on the owner's thread.
EnsureChunk(p) ==
  /\ mapped
  /\ resident[p] = Absent
  /\ Insert(p, LoadNow(p))
  /\ UNCHANGED <<paletteVars, disk, readerVars>>

\* load_versioned by a worker: bytes and token come from one locked read; the
\* decoding after it uses nothing but the immutable context.
Prepare(r, p) ==
  /\ result[r] = NoResult
  /\ \A n \in pool.registry : pool.table[n] # NoId
  /\ result' = [result EXCEPT ![r] =
       [pos |-> p, content |-> LoadWith(pool.table, pool.registry, disk[p])]]
  /\ watch' = [watch EXCEPT ![p] = @ \cup {r}]
  /\ UNCHANGED <<paletteVars, disk, liveVars, pool, current>>

\* ChunkRevision::is_current
IsCurrent(r) == current /\ r \in watch[result[r].pos]

Release(r) == /\ result' = [result EXCEPT ![r] = NoResult]
              /\ watch' = [p \in Chunks |-> watch[p] \ {r}]

\* adopt_prepared_at_revision: a stale or late offering is dropped.
Adopt(r) ==
  /\ result[r] # NoResult
  /\ LET p == result[r].pos IN
     IF IsCurrent(r) /\ resident[p] = Absent
     THEN Insert(p, result[r].content)
     ELSE UNCHANGED liveVars
  /\ Release(r)
  /\ UNCHANGED <<paletteVars, disk, pool, current>>

NewReaders == /\ pool' = [table |-> table', registry |-> registry']
              /\ current' = TRUE
              /\ result' = [r \in Readers |-> NoResult]
              /\ watch' = [p \in Chunks |-> {}]

\* reconfigure: join the old workers, drop their results, start on the
\* context the world has now.
Reconfigure ==
  /\ ~current
  /\ UNCHANGED <<paletteVars, disk, liveVars>>
  /\ NewReaders

-----------------------------------------------------------------------------
(* Content changes and restarts. *)

\* replace_registry: resident chunks are remapped by name; the palette binds
\* the new names the next time it is asked for a snapshot, before any other use.
Reload(reg) ==
  /\ Bind(table, reg, dirty)
  /\ resident' = [p \in Chunks |-> IF resident[p] = Absent THEN Absent
                                   ELSE Remap(reg, resident[p])]
  /\ current' = FALSE
  /\ UNCHANGED <<diskTable, disk, modified, pool, result, watch>>

\* The process dies or quits, and the world is opened again with some content.
Reopen(reg) ==
  /\ Bind(diskTable, reg, diskTable = NoTable)
  /\ resident' = [p \in Chunks |-> Absent]
  /\ modified' = {}
  /\ NewReaders
  /\ UNCHANGED <<diskTable, disk>>

-----------------------------------------------------------------------------

Next ==
  \/ \E p \in Chunks, outcome \in Outcomes : \/ SaveModified(p, outcome)
                                             \/ EvictModified(p, outcome)
  \/ \E p \in Chunks : Evict(p) \/ EnsureChunk(p)
  \/ \E p \in Chunks, n \in Names : Edit(p, n)
  \/ \E r \in Readers, p \in Chunks : Prepare(r, p)
  \/ \E r \in Readers : Adopt(r)
  \/ Reconfigure
  \/ \E reg \in Registries : Reload(reg) \/ Reopen(reg)

Spec == Init /\ [][Next]_vars

-----------------------------------------------------------------------------
(* Properties. *)

Results == [pos : Chunks, content : Names]

TypeOK ==
  /\ registry \in Registries
  /\ table \in Tables
  /\ mapped \in BOOLEAN
  /\ dirty \in BOOLEAN
  /\ diskTable \in Tables
  /\ disk \in [Chunks -> Ids \cup {NoId}]
  /\ resident \in [Chunks -> Names \cup {Absent}]
  /\ modified \subseteq {p \in Chunks : resident[p] # Absent}
  /\ pool \in [table : Tables, registry : Registries]
  /\ current \in BOOLEAN
  /\ result \in [Readers -> Results \cup {NoResult}]
  /\ watch \in [Chunks -> SUBSET Readers]

\* A stored id never reaches disk before the name it stands for: whatever
\* write failed and wherever the process died, the palette file can read
\* every saved chunk.
NamesBeforeIds ==
  \A p \in Chunks : disk[p] # NoId => \E n \in Names : diskTable[n] = disk[p]

\* Types hold, and what is saved can be read.
SavedInv == TypeOK /\ NamesBeforeIds

\* A prepared result that passes is_current is what reading the chunk now
\* would give, however many saves, evictions and reloads came in between.
CurrentResultIsSaved ==
  \A r \in Readers : result[r] # NoResult /\ IsCurrent(r)
                       => result[r].content = LoadNow(result[r].pos)

\* Dropping a chunk with no unsaved edit loses nothing: it holds what disk
\* holds, or the placeholder for content removed while it was loaded.
CleanIsSaved ==
  \A p \in Chunks : resident[p] # Absent /\ p \notin modified
                      => resident[p] \in {LoadNow(p), Unknown}

Meaning(t, id) == {n \in Names : t[n] = id}

\* Nothing but a write of the chunk itself changes what a saved chunk means:
\* no crash, reload or failed palette write renumbers stored names.
MeaningKept ==
  [][\A p \in Chunks : disk[p] # NoId /\ disk'[p] = disk[p]
       => Meaning(diskTable', disk'[p]) = Meaning(diskTable, disk[p])]_vars

\* Unless the process stops, an edited chunk leaves memory only when reading
\* it back gives the edit.
EditsOutliveEviction ==
  [][\/ \E reg \in Registries : Reopen(reg)
     \/ \A p \in modified : resident'[p] = Absent => LoadNow(p)' = resident[p]]_vars

-----------------------------------------------------------------------------
(* The inductive invariant behind them. *)

Injective(t) == \A n, m \in Names : t[n] = t[m] /\ t[n] # NoId => n = m

\* The palette in memory only ever adds to the palette file, and is the same
\* table once nothing is left to publish.
PaletteGrows ==
  /\ Injective(table)
  /\ \A n \in Names : diskTable[n] # NoId => table[n] = diskTable[n]
  /\ ~dirty => table = diskTable
  /\ mapped => \A n \in registry : table[n] # NoId

\* The readers' context is the world's own while it is current, and a token
\* still unchanged vouches for bytes that are still on disk.
TokensHold ==
  /\ current => pool = [table |-> table, registry |-> registry]
  /\ \A p \in Chunks : \A r \in watch[p] :
       /\ result[r] # NoResult
       /\ result[r].pos = p
       /\ result[r].content = LoadWith(pool.table, pool.registry, disk[p])

\* Live chunks hold only blocks the loaded content defines.
ResidentRegistered == \A p \in Chunks : resident[p] \in registry \cup {Absent}

IInv == /\ TypeOK
        /\ PaletteGrows
        /\ TokensHold
        /\ ResidentRegistered
        /\ NamesBeforeIds
        /\ CleanIsSaved
===============================================================================
