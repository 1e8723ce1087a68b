-------------------------- MODULE SavedTerrainProofs --------------------------
(***************************************************************************)
(* Proofs about terrain: what SavedTerrain keeps, for any chunks, readers, *)
(* names and ids, and the pool of workers that loads it (TerrainJobs), for *)
(* any workers, positions and budget: its books, and that it is a JobBoard.*)
(***************************************************************************)
EXTENDS SavedTerrain, TerrainJobs, FiniteSetTheorems, SequenceTheorems, WellFoundedInduction, TLAPS

-----------------------------------------------------------------------------
(* The palette operators. *)

\* Binding a registry keeps every stored name, renumbers none and gives every
\* registered name an id of its own.
LEMMA ExtensionKeeps ==
  ASSUME NEW t \in Tables, NEW reg \in SUBSET Names, Injective(t),
         NEW u \in Extensions(t, reg)
  PROVE  /\ u \in Tables
         /\ Injective(u)
         /\ \A n \in Names : t[n] # NoId => u[n] = t[n]
         /\ \A n \in reg : u[n] # NoId
<1> DEFINE new  == {n \in reg : t[n] = NoId}
           free == {id \in Ids : \A n \in Names : t[n] # id}
<1>1. PICK f \in [new -> free] :
        /\ \A n, m \in new : f[n] = f[m] => n = m
        /\ u = [n \in Names |-> IF n \in new THEN f[n] ELSE t[n]]
  BY DEF Extensions
<1>2. \A n \in new : f[n] \in Ids /\ f[n] # NoId /\ \A m \in Names : t[m] # f[n]
  BY <1>1, SentinelAssumption
<1>3. \A n \in Names : u[n] = IF n \in new THEN f[n] ELSE t[n]
  BY <1>1
<1> HIDE DEF free
<1>4. u \in Tables
  BY <1>1, <1>2 DEF Tables
<1>5. Injective(u)
  BY <1>1, <1>2, <1>3 DEF Injective, Tables
<1>6. \A n \in Names : t[n] # NoId => u[n] = t[n]
  BY <1>3
<1>7. \A n \in reg : u[n] # NoId
  BY <1>2, <1>3
<1> QED BY <1>4, <1>5, <1>6, <1>7

\* An id decodes to the registered name that owns it.
LEMMA DecodeOwner ==
  ASSUME NEW t \in Tables, Injective(t), NEW reg \in SUBSET Names,
         NEW n \in reg, t[n] # NoId
  PROVE  Decode(t, reg, t[n]) = n
<1>1. \A m \in reg : t[m] = t[n] => m = n
  BY DEF Injective
<1> QED BY <1>1 DEF Decode

\* Whatever is stored, loading gives a registered name.
LEMMA LoadRegistered ==
  ASSUME NEW t, NEW reg \in Registries, NEW id
  PROVE  /\ LoadWith(t, reg, id) \in reg
         /\ reg \subseteq Names
         /\ Unknown \in reg
         /\ Native \in reg
<1>1. reg \subseteq Names /\ Unknown \in reg /\ Native \in reg
  BY NamesAssumption DEF Registries
<1>2. Decode(t, reg, id) \in reg
  BY <1>1 DEF Decode
<1> QED BY <1>1, <1>2 DEF LoadWith

\* Growing the palette and changing the content turns what a chunk loads as
\* into its image under the reload's remapping, or leaves the placeholder.
LEMMA LoadAfterBind ==
  ASSUME NEW t \in Tables, NEW u \in Tables, Injective(u),
         \A n \in Names : t[n] # NoId => u[n] = t[n],
         NEW reg \in Registries, NEW reg2 \in Registries,
         NEW id \in Ids \cup {NoId}
  PROVE  Remap(reg2, LoadWith(t, reg, id)) \in {LoadWith(u, reg2, id), Unknown}
<1> USE LoadRegistered
<1>1. CASE id = NoId
  BY <1>1 DEF LoadWith, Remap
<1>2. CASE id # NoId /\ \E n \in reg : t[n] = id
  <2>1. PICK n \in reg : t[n] = id /\ LoadWith(t, reg, id) = n
    BY <1>2 DEF LoadWith, Decode
  <2>2. n \in Names /\ u[n] = id
    BY <1>2, <2>1
  <2>3. CASE n \in reg2
    <3>1. Decode(u, reg2, id) = n
      BY <2>2, <2>3, <1>2, DecodeOwner
    <3> QED BY <3>1, <2>1, <2>3, <1>2 DEF LoadWith, Remap
  <2>4. CASE n \notin reg2
    BY <2>1, <2>4 DEF Remap
  <2> QED BY <2>3, <2>4
<1>3. CASE id # NoId /\ ~\E n \in reg : t[n] = id
  BY <1>3 DEF LoadWith, Decode, Remap
<1> QED BY <1>1, <1>2, <1>3

-----------------------------------------------------------------------------
(* Pieces shared by several actions. *)

\* Everything a change of content does to the palette, bound or not.
LEMMA BindKeeps ==
  ASSUME NEW t \in Tables, Injective(t), NEW reg \in Registries,
         NEW known \in BOOLEAN, Bind(t, reg, known)
  PROVE  /\ registry' = reg
         /\ table' \in Tables
         /\ Injective(table')
         /\ \A n \in Names : t[n] # NoId => table'[n] = t[n]
         /\ mapped' \in BOOLEAN
         /\ mapped' => \A n \in reg : table'[n] # NoId
         /\ dirty' = (known \/ table' # t)
<1>1. reg \in SUBSET Names
  BY DEF Registries
<1>2. CASE table' \in Extensions(t, reg) /\ mapped' = TRUE /\ dirty' = (known \/ table' # t)
  BY <1>1, <1>2, ExtensionKeeps DEF Bind
<1>3. CASE table' = t /\ mapped' = FALSE /\ dirty' = known
  BY <1>3 DEF Bind
<1> QED BY <1>2, <1>3 DEF Bind

\* A chunk that joins the world is either as saved or marked edited.
LEMMA InsertKeeps ==
  ASSUME IInv, NEW p \in Chunks, NEW content \in registry,
         content \in {LoadNow(p), Unknown},
         Insert(p, content), UNCHANGED <<paletteVars, disk>>
  PROVE  /\ resident' \in [Chunks -> Names \cup {Absent}]
         /\ modified' \subseteq {q \in Chunks : resident'[q] # Absent}
         /\ ResidentRegistered'
         /\ CleanIsSaved'
<1> USE DEF paletteVars, Insert
<1>1. registry \subseteq Names
  BY DEF IInv, TypeOK, Registries
<1>2. \A q \in Chunks : LoadNow(q)' = LoadNow(q)
  BY DEF LoadNow
<1>3. resident' \in [Chunks -> Names \cup {Absent}] /\ modified' \subseteq {q \in Chunks : resident'[q] # Absent}
  BY <1>1, NamesAssumption DEF IInv, TypeOK
<1>4. ResidentRegistered'
  BY <1>1, NamesAssumption DEF IInv, TypeOK, ResidentRegistered
<1>5. CleanIsSaved'
  BY <1>2 DEF IInv, TypeOK, CleanIsSaved
<1> QED BY <1>3, <1>4, <1>5

\* What publishing the palette and writing the chunk do, however far they get.
LEMMA SaveKeeps ==
  ASSUME IInv, NEW p \in Chunks, NEW outcome \in Outcomes,
         SaveChunk(p, outcome), UNCHANGED <<pool, result>>
  PROVE  /\ PaletteGrows' /\ TokensHold' /\ NamesBeforeIds'
         /\ UNCHANGED <<registry, table, mapped>>
         /\ dirty' \in BOOLEAN /\ current' \in BOOLEAN
         /\ diskTable' \in Tables
         /\ disk' \in [Chunks -> Ids \cup {NoId}]
         /\ watch' \in [Chunks -> SUBSET Readers]
         /\ \A q \in Chunks : q # p => LoadNow(q)' = LoadNow(q)
         /\ LoadNow(p)' \in {LoadNow(p), resident[p]}
         /\ outcome = "saved" => LoadNow(p)' = resident[p]
<1> USE DEF SaveChunk
<1>1. /\ UNCHANGED <<registry, table, mapped>>
      /\ mapped
      /\ dirty' = (dirty /\ PaletteFails(outcome))
      /\ diskTable' = IF dirty /\ outcome # "palette_failed" THEN table ELSE diskTable
      /\ current' = (current /\ (dirty => PaletteFails(outcome)))
      /\ PaletteFails(outcome) => dirty
  BY DEF Publish, Reaches
<1>2. /\ resident[p] \in registry
      /\ table[resident[p]] # NoId
      /\ table[resident[p]] \in Ids
      /\ registry \subseteq Names
  BY <1>1 DEF IInv, TypeOK, ResidentRegistered, PaletteGrows, Registries, Tables
<1>3. /\ \A q \in Chunks : q # p => disk'[q] = disk[q]
      /\ disk'[p] \in {disk[p], table[resident[p]]}
      /\ disk' \in [Chunks -> Ids \cup {NoId}]
      /\ outcome = "saved" => disk'[p] = table[resident[p]]
      /\ PaletteFails(outcome) => disk' = disk
  BY <1>2 DEF Write, IInv, TypeOK, PaletteFails
<1>4. /\ watch' \in [Chunks -> SUBSET Readers]
      /\ \A q \in Chunks : watch'[q] \subseteq watch[q]
      /\ ~PaletteFails(outcome) => watch'[p] = {}
  BY DEF Write, IInv, TypeOK
<1>5. dirty' \in BOOLEAN /\ current' \in BOOLEAN /\ diskTable' \in Tables
  BY <1>1 DEF IInv, TypeOK, PaletteFails
<1>6. PaletteGrows'
  BY <1>1 DEF IInv, TypeOK, PaletteGrows, PaletteFails
<1>7. \A q \in Chunks : watch'[q] # {} => disk'[q] = disk[q]
  BY <1>3, <1>4
<1>8. TokensHold'
  <2>1. current' => pool' = [table |-> table', registry |-> registry']
    BY <1>1 DEF IInv, TokensHold
  <2>2. ASSUME NEW q \in Chunks, NEW r \in watch'[q]
        PROVE  /\ result'[r] # NoResult
               /\ result'[r].pos = q
               /\ result'[r].content = LoadWith(pool'.table, pool'.registry, disk'[q])
    <3>1. r \in watch[q] /\ disk'[q] = disk[q]
      BY <1>4, <1>7
    <3> QED BY <3>1 DEF IInv, TokensHold
  <2> QED BY <2>1, <2>2 DEF TokensHold
<1>9. NamesBeforeIds'
  <2> SUFFICES ASSUME NEW q \in Chunks, disk'[q] # NoId
               PROVE  \E n \in Names : diskTable'[n] = disk'[q]
    BY DEF NamesBeforeIds
  <2>1. CASE disk'[q] = disk[q]
    BY <2>1, <1>1 DEF IInv, NamesBeforeIds, PaletteGrows
  <2>2. CASE disk'[q] # disk[q]
    <3>1. q = p /\ disk'[q] = table[resident[p]] /\ ~PaletteFails(outcome)
      BY <2>2, <1>3
    <3>2. diskTable' = table
      BY <3>1, <1>1 DEF PaletteFails, IInv, PaletteGrows
    <3> QED BY <3>1, <3>2, <1>2
  <2> QED BY <2>1, <2>2
<1>10. /\ \A q \in Chunks : q # p => LoadNow(q)' = LoadNow(q)
       /\ disk'[p] = disk[p] => LoadNow(p)' = LoadNow(p)
  BY <1>1, <1>3 DEF LoadNow
<1>11. disk'[p] = table[resident[p]] => LoadNow(p)' = resident[p]
  <2>1. Decode(table, registry, table[resident[p]]) = resident[p]
    BY <1>2, DecodeOwner DEF IInv, TypeOK, PaletteGrows
  <2> QED BY <1>1, <1>2, <2>1 DEF LoadNow, LoadWith
<1> QED BY <1>1, <1>3, <1>4, <1>5, <1>6, <1>8, <1>9, <1>10, <1>11

-----------------------------------------------------------------------------
(* The inductive invariant. *)

LEMMA InitIInv == Init => IInv
<1> SUFFICES ASSUME Init PROVE IInv
  OBVIOUS
<1> USE DEF Init
<1>1. NoTable \in Tables /\ Injective(NoTable) /\ registry \subseteq Names
  BY DEF NoTable, Tables, Injective, Registries
<1>2. /\ table \in Tables /\ Injective(table)
      /\ \A n \in registry : table[n] # NoId
  BY <1>1, ExtensionKeeps
<1>3. TypeOK
  BY <1>1, <1>2 DEF TypeOK
<1>4. PaletteGrows
  BY <1>2 DEF PaletteGrows, NoTable
<1>5. TokensHold /\ ResidentRegistered /\ NamesBeforeIds /\ CleanIsSaved
  BY DEF TokensHold, ResidentRegistered, NamesBeforeIds, CleanIsSaved
<1> QED BY <1>3, <1>4, <1>5 DEF IInv

LEMMA SaveStep ==
  ASSUME IInv, NEW p \in Chunks, NEW outcome \in Outcomes,
         SaveModified(p, outcome) \/ EvictModified(p, outcome)
  PROVE  IInv'
<1>1. /\ p \in modified
      /\ SaveChunk(p, outcome)
      /\ UNCHANGED <<pool, result>>
      /\ modified' = IF outcome = "saved" THEN modified \ {p} ELSE modified
      /\ \/ resident' = resident
         \/ resident' = [resident EXCEPT ![p] = Absent]
  BY DEF SaveModified, EvictModified, liveVars
<1>2. /\ PaletteGrows' /\ TokensHold' /\ NamesBeforeIds'
      /\ UNCHANGED <<registry, table, mapped>>
      /\ dirty' \in BOOLEAN /\ current' \in BOOLEAN
      /\ diskTable' \in Tables
      /\ disk' \in [Chunks -> Ids \cup {NoId}]
      /\ watch' \in [Chunks -> SUBSET Readers]
      /\ \A q \in Chunks : q # p => LoadNow(q)' = LoadNow(q)
      /\ outcome = "saved" => LoadNow(p)' = resident[p]
  BY <1>1, SaveKeeps
<1>3. TypeOK'
  BY <1>1, <1>2 DEF IInv, TypeOK, SaveModified, EvictModified, liveVars
<1>4. ResidentRegistered'
  BY <1>1, <1>2 DEF IInv, TypeOK, ResidentRegistered, SaveModified, EvictModified, liveVars
<1>5. CleanIsSaved'
  BY <1>1, <1>2 DEF IInv, TypeOK, CleanIsSaved
<1> QED BY <1>2, <1>3, <1>4, <1>5 DEF IInv

LEMMA LiveStep ==
  ASSUME IInv, NEW p \in Chunks,
         Evict(p) \/ EnsureChunk(p) \/ \E n \in Names : Edit(p, n)
  PROVE  IInv'
<1>1. UNCHANGED <<paletteVars, disk, readerVars>>
  BY DEF Evict, EnsureChunk, Edit
<1> USE DEF paletteVars, readerVars
<1>2. \A q \in Chunks : LoadNow(q)' = LoadNow(q)
  BY <1>1 DEF LoadNow
<1>3. PaletteGrows' /\ TokensHold' /\ NamesBeforeIds'
  BY <1>1 DEF IInv, PaletteGrows, TokensHold, NamesBeforeIds
<1>4. /\ resident' \in [Chunks -> Names \cup {Absent}]
      /\ modified' \subseteq {q \in Chunks : resident'[q] # Absent}
      /\ ResidentRegistered'
      /\ CleanIsSaved'
  <2>1. CASE Evict(p)
    BY <1>1, <1>2, <2>1 DEF Evict, IInv, TypeOK, ResidentRegistered, CleanIsSaved
  <2>2. CASE EnsureChunk(p)
    <3>1. LoadNow(p) \in registry
      BY LoadRegistered DEF LoadNow, IInv, TypeOK
    <3> QED BY <2>2, <3>1, InsertKeeps DEF EnsureChunk
  <2>3. ASSUME NEW n \in Names, Edit(p, n)
        PROVE  /\ resident' \in [Chunks -> Names \cup {Absent}]
               /\ modified' \subseteq {q \in Chunks : resident'[q] # Absent}
               /\ ResidentRegistered'
               /\ CleanIsSaved'
    BY NamesAssumption, <1>1, <1>2, <2>3 DEF Edit, IInv, TypeOK, ResidentRegistered, CleanIsSaved
  <2> QED BY <2>1, <2>2, <2>3
<1>5. TypeOK'
  BY <1>1, <1>4 DEF IInv, TypeOK
<1> QED BY <1>3, <1>4, <1>5 DEF IInv

LEMMA PrepareStep ==
  ASSUME IInv, NEW r \in Readers, NEW p \in Chunks, Prepare(r, p)
  PROVE  IInv'
<1> USE DEF Prepare, paletteVars, liveVars
<1>1. LoadWith(pool.table, pool.registry, disk[p]) \in Names
  BY LoadRegistered DEF IInv, TypeOK
<1>2. TypeOK'
  <2>1. result'[r] \in Results
    BY <1>1 DEF IInv, TypeOK, Results
  <2>2. result' \in [Readers -> Results \cup {NoResult}]
    BY <2>1 DEF IInv, TypeOK
  <2>3. watch' \in [Chunks -> SUBSET Readers]
    BY DEF IInv, TypeOK
  <2> QED BY <2>2, <2>3 DEF IInv, TypeOK
<1>3. TokensHold'
  <2>1. \A q \in Chunks : r \notin watch[q]
    BY DEF IInv, TokensHold
  <2>2. ASSUME NEW q \in Chunks, NEW s \in watch'[q]
        PROVE  /\ result'[s] # NoResult
               /\ result'[s].pos = q
               /\ result'[s].content = LoadWith(pool'.table, pool'.registry, disk'[q])
    <3>1. CASE s = r
      <4>1. q = p
        BY <2>1, <3>1 DEF IInv, TypeOK
      <4>2. result'[r] = [pos |-> p,
                          content |-> LoadWith(pool.table, pool.registry, disk[p])]
        BY DEF IInv, TypeOK
      <4>3. result'[r] \in Results
        BY <4>2, <1>1 DEF Results
      <4> QED BY <3>1, <4>1, <4>2, <4>3, SentinelAssumption DEF Results
    <3>2. CASE s # r
      <4>1. s \in watch[q] /\ s \in Readers
        BY <3>2 DEF IInv, TypeOK
      <4> QED BY <3>2, <4>1 DEF IInv, TypeOK, TokensHold
    <3> QED BY <3>1, <3>2
  <2>3. current' => pool' = [table |-> table', registry |-> registry']
    BY DEF IInv, TokensHold
  <2> QED BY <2>2, <2>3 DEF TokensHold
<1>4. PaletteGrows' /\ ResidentRegistered' /\ NamesBeforeIds' /\ CleanIsSaved'
  BY DEF IInv, PaletteGrows, ResidentRegistered, NamesBeforeIds, CleanIsSaved, LoadNow
<1> QED BY <1>2, <1>3, <1>4 DEF IInv

LEMMA AdoptStep ==
  ASSUME IInv, NEW r \in Readers, Adopt(r)
  PROVE  IInv'
<1> DEFINE p == result[r].pos
<1>1. /\ result[r] \in Results
      /\ p \in Chunks
      /\ UNCHANGED <<paletteVars, disk, pool, current>>
      /\ result' = [result EXCEPT ![r] = NoResult]
      /\ watch' = [q \in Chunks |-> watch[q] \ {r}]
  BY DEF Adopt, Release, IInv, TypeOK, Results
<1> USE DEF paletteVars
<1>2. /\ resident' \in [Chunks -> Names \cup {Absent}]
      /\ modified' \subseteq {q \in Chunks : resident'[q] # Absent}
      /\ ResidentRegistered'
      /\ CleanIsSaved'
  <2>1. CASE IsCurrent(r) /\ resident[p] = Absent
    <3>1. Insert(p, result[r].content)
      BY <2>1 DEF Adopt
    <3>2. result[r].content = LoadNow(p)
      BY <2>1, <1>1 DEF IsCurrent, LoadNow, IInv, TokensHold
    <3>3. LoadNow(p) \in registry
      BY LoadRegistered DEF LoadNow, IInv, TypeOK
    <3> HIDE DEF p
    <3> QED BY <3>1, <3>2, <3>3, <1>1, InsertKeeps
  <2>2. CASE ~(IsCurrent(r) /\ resident[p] = Absent)
    <3>1. UNCHANGED liveVars
      BY <2>2 DEF Adopt
    <3> QED BY <3>1, <1>1 DEF liveVars, IInv, TypeOK, ResidentRegistered, CleanIsSaved, LoadNow
  <2> QED BY <2>1, <2>2
<1>3. TypeOK'
  BY <1>1, <1>2 DEF IInv, TypeOK
<1>4. TokensHold'
  BY <1>1 DEF IInv, TypeOK, TokensHold
<1>5. PaletteGrows' /\ NamesBeforeIds'
  BY <1>1 DEF IInv, PaletteGrows, NamesBeforeIds
<1> QED BY <1>2, <1>3, <1>4, <1>5 DEF IInv

LEMMA ReconfigureStep ==
  ASSUME IInv, Reconfigure
  PROVE  IInv'
<1> USE DEF Reconfigure, NewReaders, paletteVars, liveVars
<1>1. TypeOK'
  BY DEF IInv, TypeOK
<1>2. TokensHold'
  BY DEF TokensHold
<1>3. PaletteGrows' /\ ResidentRegistered' /\ NamesBeforeIds' /\ CleanIsSaved'
  BY DEF IInv, PaletteGrows, ResidentRegistered, NamesBeforeIds, CleanIsSaved, LoadNow
<1> QED BY <1>1, <1>2, <1>3 DEF IInv

LEMMA ReloadStep ==
  ASSUME IInv, NEW reg \in Registries, Reload(reg)
  PROVE  IInv'
<1> USE DEF Reload
<1>1. /\ registry' = reg
      /\ table' \in Tables
      /\ Injective(table')
      /\ \A n \in Names : table[n] # NoId => table'[n] = table[n]
      /\ mapped' \in BOOLEAN
      /\ mapped' => \A n \in reg : table'[n] # NoId
      /\ dirty' = (dirty \/ table' # table)
  BY BindKeeps DEF IInv, TypeOK, PaletteGrows
<1>2. \A n \in Names : Remap(reg, n) \in reg
  BY NamesAssumption DEF Remap, Registries
<1>3. /\ reg \subseteq Names /\ Unknown \in reg
      /\ dirty' \in BOOLEAN
  BY <1>1, NamesAssumption DEF Registries, IInv, TypeOK
<1>4. TypeOK'
  BY <1>1, <1>2, <1>3, NamesAssumption DEF IInv, TypeOK
<1>5. PaletteGrows'
  BY <1>1 DEF IInv, TypeOK, PaletteGrows, Injective
<1>6. TokensHold'
  BY DEF IInv, TokensHold
<1>7. ResidentRegistered'
  BY <1>1, <1>2, <1>3, NamesAssumption DEF IInv, TypeOK, ResidentRegistered
<1>8. NamesBeforeIds'
  BY DEF IInv, NamesBeforeIds
<1>9. CleanIsSaved'
  <2> SUFFICES ASSUME NEW q \in Chunks, resident'[q] # Absent, q \notin modified
               PROVE  resident'[q] \in {LoadNow(q)', Unknown}
    BY DEF CleanIsSaved
  <2>1. resident[q] # Absent /\ resident'[q] = Remap(reg, resident[q])
    OBVIOUS
  <2>2. CASE resident[q] = Unknown
    BY <2>1, <2>2 DEF Remap
  <2>3. CASE resident[q] = LoadNow(q)
    <3>1. Remap(reg, LoadWith(table, registry, disk[q]))
            \in {LoadWith(table', reg, disk[q]), Unknown}
      BY <1>1, LoadAfterBind DEF IInv, TypeOK, PaletteGrows
    <3> QED BY <2>1, <2>3, <3>1, <1>1 DEF LoadNow
  <2> QED BY <2>1, <2>2, <2>3 DEF IInv, CleanIsSaved
<1> QED BY <1>4, <1>5, <1>6, <1>7, <1>8, <1>9 DEF IInv

LEMMA ReopenStep ==
  ASSUME IInv, NEW reg \in Registries, Reopen(reg)
  PROVE  IInv'
<1> USE DEF Reopen, NewReaders
<1>1. Injective(diskTable)
  BY DEF IInv, TypeOK, PaletteGrows, Injective
<1>2. /\ registry' = reg
      /\ table' \in Tables
      /\ Injective(table')
      /\ \A n \in Names : diskTable[n] # NoId => table'[n] = diskTable[n]
      /\ mapped' \in BOOLEAN
      /\ mapped' => \A n \in reg : table'[n] # NoId
      /\ dirty' = ((diskTable = NoTable) \/ table' # diskTable)
  <2>1. diskTable \in Tables /\ (diskTable = NoTable) \in BOOLEAN
    BY DEF IInv, TypeOK
  <2> QED BY <1>1, <2>1, BindKeeps
<1>3. TypeOK'
  BY <1>2 DEF IInv, TypeOK
<1>4. PaletteGrows'
  BY <1>2 DEF PaletteGrows, Injective
<1>5. TokensHold' /\ ResidentRegistered' /\ CleanIsSaved'
  BY <1>2 DEF TokensHold, ResidentRegistered, CleanIsSaved
<1>6. NamesBeforeIds'
  BY DEF IInv, NamesBeforeIds
<1> QED BY <1>3, <1>4, <1>5, <1>6 DEF IInv

\* The strengthening that every step keeps: the palette only grows, tokens
\* vouch for disk, and live chunks hold registered blocks.
THEOREM Invariance == Spec => []IInv
<1>1. IInv /\ [Next]_vars => IInv'
  <2> SUFFICES ASSUME IInv, [Next]_vars
               PROVE  IInv'
    OBVIOUS
  <2>1. CASE UNCHANGED vars
    BY <2>1 DEF vars, paletteVars, liveVars, readerVars, IInv, TypeOK, PaletteGrows,
                TokensHold, ResidentRegistered, NamesBeforeIds, CleanIsSaved, LoadNow
  <2>2. ASSUME NEW p \in Chunks, NEW outcome \in Outcomes,
               SaveModified(p, outcome) \/ EvictModified(p, outcome)
        PROVE  IInv'
    BY <2>2, SaveStep
  <2>3. ASSUME NEW p \in Chunks,
               Evict(p) \/ EnsureChunk(p) \/ \E n \in Names : Edit(p, n)
        PROVE  IInv'
    BY <2>3, LiveStep
  <2>4. ASSUME NEW r \in Readers, NEW p \in Chunks, Prepare(r, p)
        PROVE  IInv'
    BY <2>4, PrepareStep
  <2>5. ASSUME NEW r \in Readers, Adopt(r)
        PROVE  IInv'
    BY <2>5, AdoptStep
  <2>6. CASE Reconfigure
    BY <2>6, ReconfigureStep
  <2>7. ASSUME NEW reg \in Registries, Reload(reg)
        PROVE  IInv'
    BY <2>7, ReloadStep
  <2>8. ASSUME NEW reg \in Registries, Reopen(reg)
        PROVE  IInv'
    BY <2>8, ReopenStep
  <2> QED BY <2>1, <2>2, <2>3, <2>4, <2>5, <2>6, <2>7, <2>8 DEF Next
<1> QED BY InitIInv, <1>1, PTL DEF Spec

-----------------------------------------------------------------------------
(* What follows from it. *)

\* Every variable keeps its type and the palette file names every stored id, at every crash
\* point and for any number of chunks and readers.
THEOREM NamesAreDurable == Spec => []SavedInv
<1>1. IInv => SavedInv
  BY DEF IInv, SavedInv
<1> QED BY Invariance, <1>1, PTL

\* is_current is sound: a result that passes it equals a fresh load.
THEOREM RevisionsAreSound == Spec => []CurrentResultIsSaved
<1>1. IInv => CurrentResultIsSaved
  BY DEF IInv, TypeOK, Results, TokensHold, CurrentResultIsSaved, IsCurrent, LoadNow
<1> QED BY Invariance, <1>1, PTL

\* Unloading an unmodified chunk loses nothing that disk does not hold.
THEOREM CleanChunksAreSaved == Spec => []CleanIsSaved
<1>1. IInv => CleanIsSaved
  BY DEF IInv
<1> QED BY Invariance, <1>1, PTL

\* Stored ids are never renumbered.
THEOREM StoredMeaningKept == Spec => MeaningKept
<1>1. IInv /\ [Next]_vars => diskTable' \in {diskTable, table}
  <2> SUFFICES ASSUME IInv, [Next]_vars
               PROVE  diskTable' \in {diskTable, table}
    OBVIOUS
  <2> QED BY DEF Next, SaveModified, EvictModified, SaveChunk, Publish, Evict, EnsureChunk,
                 Edit, Prepare, Adopt, Reconfigure, Reload, Reopen, vars, paletteVars
<1>2. ASSUME IInv, diskTable' \in {diskTable, table},
             NEW p \in Chunks, disk[p] # NoId, disk'[p] = disk[p]
      PROVE  Meaning(diskTable', disk'[p]) = Meaning(diskTable, disk[p])
  <2>1. PICK n \in Names : diskTable[n] = disk[p]
    BY <1>2 DEF IInv, NamesBeforeIds
  <2>2. \A m \in Names : table[m] = disk[p] <=> diskTable[m] = disk[p]
    BY <1>2, <2>1 DEF IInv, PaletteGrows, Injective
  <2> QED BY <1>2, <2>2 DEF Meaning
<1>3. IInv /\ [Next]_vars
        => [\A p \in Chunks : disk[p] # NoId /\ disk'[p] = disk[p]
              => Meaning(diskTable', disk'[p]) = Meaning(diskTable, disk[p])]_vars
  BY <1>1, <1>2
<1> QED BY Invariance, <1>3, PTL DEF Spec, MeaningKept

\* An edited chunk leaves memory only once reading it back gives the edit.
THEOREM EvictionKeepsEdits == Spec => EditsOutliveEviction
<1> DEFINE Kept == \A p \in modified : resident'[p] = Absent => LoadNow(p)' = resident[p]
           Reopened == \E reg \in Registries : Reopen(reg)
<1>1. ASSUME IInv, Next
      PROVE  Reopened \/ Kept
  <2> USE <1>1, NamesAssumption DEF IInv, TypeOK, ResidentRegistered, Registries
  <2>1. ASSUME NEW p \in Chunks, NEW outcome \in Outcomes,
               SaveModified(p, outcome) \/ EvictModified(p, outcome)
        PROVE  Kept
    <3>1. SaveChunk(p, outcome) /\ UNCHANGED <<pool, result>>
      BY <2>1 DEF SaveModified, EvictModified
    <3>2. outcome = "saved" => LoadNow(p)' = resident[p]
      BY <3>1, SaveKeeps
    <3>3. \/ resident' = resident
          \/ outcome = "saved" /\ resident' = [resident EXCEPT ![p] = Absent]
      BY <2>1 DEF SaveModified, EvictModified, liveVars
    <3> QED BY <3>2, <3>3
  <2>2. ASSUME NEW p \in Chunks, Evict(p)
        PROVE  Kept
    BY <2>2 DEF Evict
  <2>3. ASSUME NEW p \in Chunks, EnsureChunk(p)
        PROVE  Kept
    BY <2>3, LoadRegistered DEF EnsureChunk, Insert, LoadNow
  <2>4. ASSUME NEW p \in Chunks, NEW n \in Names, Edit(p, n)
        PROVE  Kept
    BY <2>4 DEF Edit
  <2>5. ASSUME NEW r \in Readers, NEW p \in Chunks, Prepare(r, p)
        PROVE  Kept
    BY <2>5 DEF Prepare, liveVars
  <2>6. ASSUME NEW r \in Readers, Adopt(r)
        PROVE  Kept
    BY <2>6 DEF Adopt, Insert, liveVars
  <2>7. CASE Reconfigure
    BY <2>7 DEF Reconfigure, liveVars
  <2>8. ASSUME NEW reg \in Registries, Reload(reg)
        PROVE  Kept
    BY <2>8 DEF Reload, Remap
  <2> QED BY <2>1, <2>2, <2>3, <2>4, <2>5, <2>6, <2>7, <2>8 DEF Next
<1>2. IInv /\ [Next]_vars => [Reopened \/ Kept]_vars
  BY <1>1
<1> QED BY Invariance, <1>2, PTL DEF Spec, EditsOutliveEviction

-----------------------------------------------------------------------------
(* Recursive functions.  The naturals are well ordered, so that a claim     *)
(* about a range of them that fails has a least counterexample.            *)

LEMMA Least ==
  ASSUME NEW S \in SUBSET Nat, S # {}
  PROVE  \E n \in S : \A m \in S : n <= m
<1>1. PICK n \in S : \A m \in S : <<m, n>> \notin OpToRel(<, Nat)
  BY NatLessThanWellFounded, WFMin
<1>2. \A m \in S : ~(m < n)
  BY <1>1 DEF OpToRel
<1> QED BY <1>2

LEMMA Climb ==
  ASSUME NEW n \in Nat, NEW good, 0 \in good, \A i \in 1..n : i - 1 \in good => i \in good
  PROVE  \A i \in 0..n : i \in good
<1> DEFINE bad == (0..n) \ good
<1> SUFFICES ASSUME bad # {} PROVE FALSE
  OBVIOUS
<1>1. bad \in SUBSET Nat
  OBVIOUS
<1>2. PICK m \in bad : \A k \in bad : m <= k
  <2> HIDE DEF bad
  <2> QED BY <1>1, Least
<1>3. m \in 1..n /\ m - 1 \in 0..n /\ m - 1 \notin bad
  BY <1>2
<1> QED BY <1>2, <1>3

\* A step for each place gives the function that takes them in turn.
Steps(n, X) == [1..n -> [X -> X]]
Runs(f, n, X, x, step) ==
  f \in [0..n -> X] /\ f[0] = x /\ \A i \in 1..n : f[i] = step[i][f[i - 1]]

LEMMA Recursion ==
  ASSUME NEW n \in Nat, NEW X, NEW x \in X, NEW step \in Steps(n, X)
  PROVE  \E f : Runs(f, n, X, x, step)
<1> DEFINE good == {m \in 0..n : \E f : Runs(f, m, X, x, step)}
<1>1. 0 \in good
  <2>1. Runs([i \in 0..0 |-> x], 0, X, x, step)
    BY DEF Runs
  <2> QED BY <2>1
<1>2. ASSUME NEW m \in 1..n, m - 1 \in good PROVE m \in good
  <2>1. PICK f : Runs(f, m - 1, X, x, step)
    BY <1>2
  <2> DEFINE g == [i \in 0..m |-> IF i = m THEN step[m][f[m - 1]] ELSE f[i]]
  <2>2. m - 1 \in 0..(m - 1) /\ f[m - 1] \in X /\ step[m] \in [X -> X]
    BY <2>1 DEF Runs, Steps
  <2>3. g \in [0..m -> X] /\ g[0] = x
    BY <2>1, <2>2 DEF Runs
  <2>4. \A i \in 1..m : g[i] = step[i][g[i - 1]]
    BY <2>1, <2>2 DEF Runs
  <2>5. Runs(g, m, X, x, step)
    BY <2>3, <2>4 DEF Runs
  <2> HIDE DEF g
  <2> QED BY <2>5
<1>3. n \in good
  <2> HIDE DEF good
  <2>1. \A i \in 0..n : i \in good
    BY <1>1, <1>2, Climb
  <2> QED BY <2>1
<1> QED BY <1>3

-----------------------------------------------------------------------------
(* Queues. *)

\* Nothing is in a queue twice.
Single(s) == \A i, j \in DOMAIN s : s[i] = s[j] => i = j

LEMMA InQueue ==
  ASSUME NEW T, NEW s \in Seq(T)
  PROVE  /\ Len(s) \in Nat /\ DOMAIN s = 1..Len(s) /\ \A i \in 1..Len(s) : s[i] \in T
         /\ \A v : v \in ToSet(s) <=> \E i \in 1..Len(s) : s[i] = v
         /\ ToSet(s) \subseteq T /\ (s = <<>> <=> Len(s) = 0) /\ (Len(s) = 0 => ToSet(s) = {})
BY LenProperties, EmptySeq DEF ToSet

\* What is appended is in the queue, once if it was not there.
LEMMA Appended ==
  ASSUME NEW T, NEW s \in Seq(T), NEW x \in T
  PROVE  /\ Append(s, x) \in Seq(T) /\ Len(Append(s, x)) = Len(s) + 1
         /\ ToSet(Append(s, x)) = ToSet(s) \cup {x}
         /\ Single(s) /\ x \notin ToSet(s) => Single(Append(s, x))
<1> DEFINE r == Append(s, x)
           n == Len(s)
<1>1. /\ r \in Seq(T) /\ Len(r) = n + 1 /\ \A i \in 1..n : r[i] = s[i]
      /\ r[n + 1] = x /\ n \in Nat
  BY AppendProperties, LenProperties
<1> HIDE DEF r
<1>2. ASSUME NEW v PROVE v \in ToSet(r) <=> v \in ToSet(s) \/ v = x
  <2>1. v \in ToSet(r) <=> \E i \in 1..(n + 1) : r[i] = v
    BY <1>1, InQueue
  <2>2. v \in ToSet(s) <=> \E i \in 1..n : s[i] = v
    BY InQueue
  <2> HIDE DEF n
  <2>3. (\E i \in 1..(n + 1) : r[i] = v) <=> (\E i \in 1..n : s[i] = v) \/ v = x
    BY <1>1
  <2> QED BY <2>1, <2>2, <2>3
<1>3. ASSUME Single(s), x \notin ToSet(s) PROVE Single(r)
  <2>1. DOMAIN r = 1..(n + 1) /\ DOMAIN s = 1..n
    BY <1>1, InQueue
  <2>2. \A i \in 1..n : s[i] # x
    BY <1>3, InQueue
  <2> HIDE DEF n
  <2> QED BY <1>1, <1>3, <2>1, <2>2 DEF Single
<1> QED BY <1>1, <1>2, <1>3 DEF r, n

\* The head leaves the queue.
LEMMA Headed ==
  ASSUME NEW T, NEW s \in Seq(T), s # <<>>
  PROVE  /\ Head(s) \in T /\ Tail(s) \in Seq(T) /\ Len(Tail(s)) = Len(s) - 1 /\ Len(s) \in Nat \ {0}
         /\ ToSet(s) = ToSet(Tail(s)) \cup {Head(s)}
         /\ Single(s) => Single(Tail(s)) /\ Head(s) \notin ToSet(Tail(s))
<1> DEFINE r == Tail(s)
           n == Len(s)
           h == Head(s)
<1>1. /\ h \in T /\ r \in Seq(T) /\ Len(r) = n - 1
      /\ \A i \in 1..(n - 1) : r[i] = s[i + 1]
  BY HeadTailProperties
<1>2. h = s[1] /\ n \in Nat \ {0}
  BY LenProperties, EmptySeq
<1> HIDE DEF r, h
<1>3. ASSUME NEW v PROVE v \in ToSet(s) <=> v \in ToSet(r) \/ v = h
  <2>1. v \in ToSet(r) <=> \E i \in 1..(n - 1) : r[i] = v
    BY <1>1, InQueue
  <2>2. v \in ToSet(s) <=> \E i \in 1..n : s[i] = v
    BY InQueue
  <2> HIDE DEF n
  <2>3. ASSUME NEW i \in 1..n, s[i] = v PROVE (\E j \in 1..(n - 1) : r[j] = v) \/ v = h
    <3>1. CASE i = 1
      BY <1>2, <2>3, <3>1
    <3>2. CASE i # 1
      <4>1. i - 1 \in 1..(n - 1) /\ (i - 1) + 1 = i
        BY <1>2, <3>2
      <4> QED BY <1>1, <2>3, <4>1
    <3> QED BY <3>1, <3>2
  <2>4. ASSUME NEW i \in 1..(n - 1), r[i] = v PROVE \E j \in 1..n : s[j] = v
    <3>1. i + 1 \in 1..n /\ s[i + 1] = v
      BY <1>1, <1>2, <2>4
    <3> QED BY <3>1
  <2>5. v = h => \E j \in 1..n : s[j] = v
    BY <1>2
  <2> QED BY <2>1, <2>2, <2>3, <2>4, <2>5
<1>4. ASSUME Single(s) PROVE Single(r) /\ h \notin ToSet(r)
  <2>1. DOMAIN r = 1..(n - 1) /\ DOMAIN s = 1..n
    BY <1>1, InQueue
  <2>2. h \in ToSet(r) <=> \E i \in 1..(n - 1) : r[i] = h
    BY <1>1, InQueue
  <2> HIDE DEF n
  <2>3. ASSUME NEW i \in 1..(n - 1), NEW j \in 1..(n - 1), r[i] = r[j] PROVE i = j
    <3>1. i + 1 \in 1..n /\ j + 1 \in 1..n /\ s[i + 1] = s[j + 1]
      BY <1>1, <1>2, <2>3
    <3> QED BY <1>4, <2>1, <3>1 DEF Single
  <2>4. ASSUME NEW i \in 1..(n - 1), r[i] = h PROVE FALSE
    <3>1. i + 1 \in 1..n /\ 1 \in 1..n /\ s[i + 1] = s[1]
      BY <1>1, <1>2, <2>4
    <3>2. i + 1 = 1
      BY <1>4, <2>1, <3>1 DEF Single
    <3> QED BY <3>2
  <2> QED BY <2>1, <2>2, <2>3, <2>4 DEF Single
<1> QED BY <1>1, <1>2, <1>3, <1>4 DEF r, n, h

\* One place leaves the queue, and what stood there with it.
LEMMA Removed ==
  ASSUME NEW T, NEW s \in Seq(T), NEW i \in DOMAIN s, Single(s)
  PROVE  /\ RemoveAt(s, i) \in Seq(T) /\ Len(RemoveAt(s, i)) = Len(s) - 1
         /\ ToSet(RemoveAt(s, i)) = ToSet(s) \ {s[i]} /\ Single(RemoveAt(s, i))
<1> DEFINE n == Len(s)
           a == SubSeq(s, 1, i - 1)
           b == SubSeq(s, i + 1, n)
           r == a \o b
<1>1. n \in Nat /\ DOMAIN s = 1..n /\ i \in 1..n
  BY LenProperties
<1>2. RemoveAt(s, i) = r
  BY DEF RemoveAt
<1>3. /\ a \in Seq(T) /\ Len(a) = i - 1 /\ \A j \in 1..(i - 1) : a[j] = s[j]
  BY <1>1, SubSeqProperties
<1>4. /\ b \in Seq(T) /\ Len(b) = n - i /\ \A j \in 1..(n - i) : b[j] = s[j + i]
  <2>1. /\ i + 1 \in Nat /\ n \in Nat
        /\ b \in Seq(T) /\ Len(b) = IF i + 1 <= n THEN n - (i + 1) + 1 ELSE 0
        /\ \A j \in 1..(n - (i + 1) + 1) : b[j] = s[(i + 1) + j - 1]
    BY <1>1, SubSeqProperties
  <2> QED BY <1>1, <2>1
<1> HIDE DEF a, b
<1>5. /\ r \in Seq(T) /\ Len(r) = Len(a) + Len(b)
      /\ \A j \in 1..(Len(a) + Len(b)) : r[j] = IF j <= Len(a) THEN a[j] ELSE b[j - Len(a)]
  BY <1>3, <1>4, ConcatProperties
<1> HIDE DEF r
<1>6. Len(r) = n - 1 /\ \A j \in 1..(n - 1) : r[j] = IF j < i THEN s[j] ELSE s[j + 1]
  <2>1. Len(r) = n - 1
    BY <1>1, <1>3, <1>4, <1>5
  <2>2. ASSUME NEW j \in 1..(n - 1), j < i PROVE r[j] = s[j]
    BY <1>1, <1>3, <1>4, <1>5, <2>2
  <2>3. ASSUME NEW j \in 1..(n - 1), ~(j < i) PROVE r[j] = s[j + 1]
    <3>1. j - (i - 1) \in 1..(n - i) /\ (j - (i - 1)) + i = j + 1
      BY <1>1, <2>3
    <3>2. r[j] = b[j - (i - 1)]
      BY <1>1, <1>3, <1>4, <1>5, <2>3
    <3> QED BY <1>4, <3>1, <3>2
  <2> QED BY <2>1, <2>2, <2>3
<1>7. DOMAIN r = 1..(n - 1) /\ \A v : v \in ToSet(r) <=> \E j \in 1..(n - 1) : r[j] = v
  BY <1>5, <1>6, InQueue
<1>8. \A v : v \in ToSet(s) <=> \E j \in 1..n : s[j] = v
  BY InQueue
<1> HIDE DEF n
<1>9. \A j, k \in 1..n : s[j] = s[k] => j = k
  BY <1>1 DEF Single
<1>10. ASSUME NEW j \in 1..(n - 1) PROVE \E k \in 1..n : k # i /\ r[j] = s[k]
  <2>1. j \in 1..n /\ j + 1 \in 1..n
    BY <1>1
  <2> QED BY <1>1, <1>6, <2>1
<1>11. ASSUME NEW k \in 1..n, k # i PROVE \E j \in 1..(n - 1) : r[j] = s[k]
  <2>1. CASE k < i
    <3>1. k \in 1..(n - 1)
      BY <1>1, <2>1
    <3> QED BY <1>6, <2>1, <3>1
  <2>2. CASE ~(k < i)
    <3>1. k - 1 \in 1..(n - 1) /\ ~(k - 1 < i) /\ (k - 1) + 1 = k
      BY <1>1, <1>11, <2>2
    <3> QED BY <1>6, <3>1
  <2> QED BY <2>1, <2>2
<1>12. ASSUME NEW v PROVE v \in ToSet(r) <=> v \in ToSet(s) \ {s[i]}
  <2>1. ASSUME v \in ToSet(r) PROVE v \in ToSet(s) \ {s[i]}
    BY <1>1, <1>7, <1>8, <1>9, <1>10, <2>1
  <2>2. ASSUME v \in ToSet(s), v # s[i] PROVE v \in ToSet(r)
    BY <1>7, <1>8, <1>11, <2>2
  <2> QED BY <2>1, <2>2
<1>13. \A j, k \in 1..(n - 1) : r[j] = r[k] => j = k
  <2> SUFFICES ASSUME NEW j \in 1..(n - 1), NEW k \in 1..(n - 1), r[j] = r[k] PROVE j = k
    OBVIOUS
  <2> DEFINE p == IF j < i THEN j ELSE j + 1
             q == IF k < i THEN k ELSE k + 1
  <2>1. p \in 1..n /\ q \in 1..n
    BY <1>1
  <2>2. r[j] = s[p] /\ r[k] = s[q]
    BY <1>6
  <2>3. p = q => j = k
    BY <1>1
  <2> HIDE DEF p, q
  <2> QED BY <1>9, <2>1, <2>2, <2>3
<1>14. Single(r)
  BY <1>7, <1>13 DEF Single
<1> QED BY <1>2, <1>5, <1>6, <1>12, <1>14 DEF n

\* The newest of a queue is taken back.
LEMMA Fronted ==
  ASSUME NEW T, NEW s \in Seq(T), s # <<>>, Single(s)
  PROVE  /\ Front(s) \in Seq(T) /\ Len(Front(s)) = Len(s) - 1 /\ Len(s) \in Nat \ {0}
         /\ Last(s) \in ToSet(s)
         /\ ToSet(Front(s)) = ToSet(s) \ {Last(s)} /\ Single(Front(s))
<1> DEFINE n == Len(s)
           a == SubSeq(s, 1, n - 1)
           b == SubSeq(s, n + 1, n)
<1>1. n \in Nat \ {0} /\ n \in DOMAIN s
  BY InQueue
<1>2. a \in Seq(T) /\ b = <<>>
  BY <1>1, InQueue, SubSeqProperties, SubSeqEmpty
<1> HIDE DEF a, b
<1>3. a \o b = a
  BY <1>2, ConcatEmptySeq
<1>4. RemoveAt(s, n) = a
  BY <1>3 DEF RemoveAt, a, b
<1>5. Front(s) = a /\ Last(s) = s[n]
  BY DEF Front, Last, a
<1>6. s[n] \in ToSet(s)
  BY <1>1, InQueue
<1> HIDE DEF n
<1>7. /\ RemoveAt(s, n) \in Seq(T) /\ Len(RemoveAt(s, n)) = Len(s) - 1
      /\ ToSet(RemoveAt(s, n)) = ToSet(s) \ {s[n]} /\ Single(RemoveAt(s, n))
  BY <1>1, Removed
<1> QED BY <1>1, <1>4, <1>5, <1>6, <1>7 DEF n

\* What is kept of a queue is what was wanted of it, each once.
LEMMA OnlyWanted ==
  ASSUME NEW T, NEW s \in Seq(T), NEW S, Single(s)
  PROVE  /\ Only(s, S) \in Seq(T) /\ Len(Only(s, S)) <= Len(s) /\ Len(Only(s, S)) \in Nat
         /\ ToSet(Only(s, S)) = ToSet(s) \cap S /\ Single(Only(s, S))
<1> DEFINE N == Len(s)
           X == Seq(T)
           nil == <<>>
           Grown(n, x) == IF s[n] \in S THEN Append(x, s[n]) ELSE x
           Body(f) == [n \in 0..N |-> IF n = 0 THEN nil ELSE Grown(n, f[n - 1])]
           upTo == CHOOSE f : f = Body(f)
           step == [n \in 1..N |-> [x \in X |-> Grown(n, x)]]
<1>1. N \in Nat /\ \A n \in 1..N : s[n] \in T
  BY InQueue
<1>2. nil \in X /\ \A n \in 1..N, x \in X : Grown(n, x) \in X
  BY <1>1
<1>3. Only(s, S) = upTo[N]
  <2>1. Only(s, S) = (CHOOSE f : f = [n \in 0..Len(s) |->
                        IF n = 0 THEN <<>>
                        ELSE IF s[n] \in S THEN Append(f[n - 1], s[n]) ELSE f[n - 1]])[Len(s)]
    BY DEF Only
  <2> QED BY <2>1
<1> HIDE DEF X, nil, Grown, N
<1>4. step \in Steps(N, X)
  BY <1>1, <1>2 DEF Steps
<1>5. \A n \in 1..N, x \in X : step[n][x] = Grown(n, x)
  OBVIOUS
<1> HIDE DEF step
<1>6. PICK f : Runs(f, N, X, nil, step)
  BY <1>1, <1>2, <1>4, Recursion
<1>7. f = Body(f)
  <2>1. \A n \in 1..N : f[n - 1] \in X
    BY <1>1, <1>6 DEF Runs
  <2>2. f[0] = nil /\ \A n \in 1..N : f[n] = step[n][f[n - 1]]
    BY <1>6 DEF Runs
  <2>3. \A n \in 1..N : f[n] = Grown(n, f[n - 1])
    BY <1>5, <2>1, <2>2
  <2>4. \A n \in 0..N : f[n] = IF n = 0 THEN nil ELSE Grown(n, f[n - 1])
    BY <1>1, <2>2, <2>3
  <2> QED BY <1>6, <2>4 DEF Runs
<1>8. upTo = Body(upTo)
  <2> HIDE DEF Body
  <2> QED BY <1>7
<1> HIDE DEF upTo
<1>9. upTo[0] = nil /\ \A n \in 1..N : upTo[n] = Grown(n, upTo[n - 1])
  <2>1. \A n \in 0..N : upTo[n] = IF n = 0 THEN nil ELSE Grown(n, upTo[n - 1])
    BY <1>8
  <2> QED BY <1>1, <2>1
<1> HIDE DEF Body
<1> DEFINE Kept(n, x) ==
             /\ x \in Seq(T) /\ Len(x) <= n /\ Single(x)
             /\ \A v : v \in ToSet(x) <=> v \in S /\ \E i \in 1..n : s[i] = v
           good == {n \in 0..N : Kept(n, upTo[n])}
<1>10. 0 \in good
  <2>1. nil \in Seq(T) /\ Len(nil) = 0 /\ DOMAIN nil = {} /\ ToSet(nil) = {}
    <3>1. <<>> \in Seq(T) /\ Len(<<>>) = 0
      OBVIOUS
    <3>2. DOMAIN <<>> = 1..Len(<<>>) /\ ToSet(<<>>) = {}
      BY <3>1, InQueue
    <3>3. DOMAIN <<>> = {}
      BY <3>1, <3>2
    <3> QED BY <3>1, <3>2, <3>3 DEF nil
  <2>2. Kept(0, nil)
    BY <2>1 DEF Single
  <2> HIDE DEF Kept
  <2> QED BY <1>1, <1>9, <2>2
<1>11. ASSUME NEW n \in 1..N, n - 1 \in good PROVE n \in good
  <2> DEFINE x == upTo[n - 1]
             m == n - 1
  <2>1. Kept(m, x) /\ upTo[n] = Grown(n, x)
    BY <1>9, <1>11
  <2>2. n \in 0..N /\ n \in Nat /\ m \in Nat /\ n = m + 1 /\ s[n] \in T /\ m < n
    BY <1>1
  <2>3. \A v : (\E i \in 1..n : s[i] = v) <=> (\E i \in 1..m : s[i] = v) \/ s[n] = v
    BY <2>2
  <2>4. \A i \in 1..m : s[i] # s[n]
    <3>1. DOMAIN s = 1..N
      BY InQueue DEF N
    <3>2. \A i \in 1..m : i \in 1..N /\ n \in 1..N /\ i # n
      BY <1>1
    <3> QED BY <3>1, <3>2 DEF Single
  <2> HIDE DEF x, m
  <2>5. Len(x) \in Nat
    BY <2>1, InQueue
  <2>6. CASE s[n] \notin S
    <3>1. Grown(n, x) = x
      BY <2>6 DEF Grown
    <3>2. Kept(n, x)
      BY <2>1, <2>2, <2>3, <2>5, <2>6
    <3> QED BY <2>1, <2>2, <3>1, <3>2
  <2>7. CASE s[n] \in S
    <3> DEFINE y == Append(x, s[n])
    <3>1. Grown(n, x) = y
      BY <2>7 DEF Grown
    <3>2. s[n] \notin ToSet(x)
      BY <2>1, <2>4
    <3>3. y \in Seq(T) /\ Len(y) = Len(x) + 1 /\ ToSet(y) = ToSet(x) \cup {s[n]} /\ Single(y)
      BY <2>1, <2>2, <3>2, Appended
    <3> HIDE DEF y
    <3>4. Kept(n, y)
      BY <2>1, <2>2, <2>3, <2>5, <2>7, <3>3
    <3> QED BY <2>1, <2>2, <3>1, <3>4
  <2> QED BY <2>6, <2>7
<1>12. \A n \in 0..N : n \in good
  <2> HIDE DEF good
  <2> QED BY <1>1, <1>10, <1>11, Climb
<1>13. Kept(N, upTo[N])
  <2> HIDE DEF Kept
  <2> QED BY <1>1, <1>12
<1> DEFINE r == upTo[N]
<1>14. Len(r) \in Nat
  BY <1>13, InQueue
<1>15. \A v : v \in ToSet(s) <=> \E i \in 1..N : s[i] = v
  BY InQueue DEF N
<1> HIDE DEF r
<1>16. ToSet(r) = ToSet(s) \cap S
  <2>1. \A v : v \in ToSet(r) <=> v \in S /\ \E i \in 1..N : s[i] = v
    BY <1>13 DEF r
  <2> QED BY <1>15, <2>1
<1> QED BY <1>3, <1>13, <1>14, <1>16 DEF N, r

-----------------------------------------------------------------------------
(* The pool of workers that load terrain: the invariant. *)

Workplace == [at : {"awake", "asleep", "busy", "exited"},
              pos : Positions \cup {NoPos}, gen : 0..MaxGeneration]
Result    == [pos : Positions, gen : 0..MaxGeneration, ok : BOOLEAN]

Running(p) == \E w \in Workers : worker[w].pos = p
Came(p)    == \E i \in 1..Len(ready) : ready[i].pos = p
Waiting(p) == p \in ToSet(entry) \/ p \in ToSet(ordinary)

\* No position is in two places.
OnePlace ==
  /\ Single(entry) /\ Single(ordinary)
  /\ \A i, j \in 1..Len(ready) : ready[i].pos = ready[j].pos => i = j
  /\ \A v, w \in Workers : worker[v].pos = worker[w].pos => v = w \/ worker[v].pos = NoPos
  /\ \A p \in Positions :
       /\ p \in ToSet(entry) => p \notin ToSet(ordinary)
       /\ Running(p) => p \notin ToSet(entry) /\ p \notin ToSet(ordinary)
       /\ Came(p) => p \notin ToSet(entry) /\ p \notin ToSet(ordinary) /\ ~Running(p)

\* What counts against the budget is what is somewhere.
Counted ==
  ~stopped => \A p \in Positions :
    p \in pending <=> p \in ToSet(entry) \/ p \in ToSet(ordinary) \/ Running(p) \/ Came(p)

\* Workers and results are those of this pool, and a worker that holds a position works on it.
OfThisPool ==
  /\ \A w \in Workers : /\ worker[w].gen = generation
                        /\ (worker[w].at = "busy" <=> worker[w].pos # NoPos)
  /\ \A i \in 1..Len(ready) : ready[i].gen = generation

Halted == /\ phase # "open" => stopped
          /\ stopped => entry = <<>> /\ ordinary = <<>>
          /\ phase = "reconfiguring" => generation < MaxGeneration

\* The inductive invariant of the pool.
WorkInv ==
  /\ PoolTypeOK /\ OnePlace /\ Counted /\ OfThisPool /\ Halted
  /\ NoLostWakeup /\ FailureSuppressed

\* What the parts of the invariant say, one by one.
LEMMA WorkFacts ==
  ASSUME WorkInv
  PROVE  /\ entry \in Seq(Positions) /\ ordinary \in Seq(Positions) /\ pending \in SUBSET Positions
         /\ stopped \in BOOLEAN /\ failed \in BOOLEAN /\ worker \in [Workers -> Workplace]
         /\ ready \in Seq(Result) /\ generation \in 0..MaxGeneration
         /\ failures \in SUBSET Positions /\ reported \in BOOLEAN
         /\ phase \in {"open", "reconfiguring", "closing", "closed"}
         /\ Len(entry) \in Nat /\ Len(ordinary) \in Nat /\ Len(ready) \in Nat
         /\ ToSet(entry) \subseteq Positions /\ ToSet(ordinary) \subseteq Positions
         /\ \A i \in 1..Len(ready) : ready[i] \in Result
<1>1. /\ entry \in Seq(Positions) /\ ordinary \in Seq(Positions) /\ pending \in SUBSET Positions
      /\ stopped \in BOOLEAN /\ failed \in BOOLEAN /\ worker \in [Workers -> Workplace]
      /\ ready \in Seq(Result) /\ generation \in 0..MaxGeneration
      /\ failures \in SUBSET Positions /\ reported \in BOOLEAN
      /\ phase \in {"open", "reconfiguring", "closing", "closed"}
  BY DEF WorkInv, PoolTypeOK, Workplace, Result
<1>2. Len(entry) \in Nat /\ ToSet(entry) \subseteq Positions
  BY <1>1, InQueue
<1>3. Len(ordinary) \in Nat /\ ToSet(ordinary) \subseteq Positions
  BY <1>1, InQueue
<1>4. Len(ready) \in Nat /\ \A i \in 1..Len(ready) : ready[i] \in Result
  BY <1>1, InQueue
<1> QED BY <1>1, <1>2, <1>3, <1>4

\* Any workers can be counted.
LEMMA Gang ==
  \A S \in SUBSET Workers : IsFiniteSet(S) /\ Cardinality(S) \in Nat
BY JobsAssumption, FS_Subset, FS_CardinalityType

SameHands ==
  \A w \in Workers : /\ worker'[w].pos = worker[w].pos /\ worker'[w].gen = worker[w].gen
                     /\ (worker'[w].at = "busy" <=> worker[w].at = "busy")

\* The enough awake for n queued positions.
Enough(n) == At("asleep") # {} => n <= Cardinality(At("awake"))

\* notify_one wakes one sleeper for the one position that came.
LEMMA Notified ==
  ASSUME worker \in [Workers -> Workplace], NotifyOne, NEW n \in Nat, Enough(n)
  PROVE  /\ worker' \in [Workers -> Workplace] /\ SameHands
         /\ At("asleep")' # {} => n + 1 <= Cardinality(At("awake")')
<1>1. CASE At("asleep") = {}
  <2>1. worker' = worker
    BY <1>1 DEF NotifyOne
  <2> QED BY <1>1, <2>1 DEF At, SameHands
<1>2. CASE At("asleep") # {}
  <2>1. PICK w \in At("asleep") : worker' = [worker EXCEPT ![w].at = "awake"]
    BY <1>2 DEF NotifyOne
  <2>2. w \in Workers /\ worker[w].at = "asleep"
    BY <2>1 DEF At
  <2> DEFINE a == At("awake")
             b == At("awake")'
  <2>3. \A v \in Workers : worker'[v].at = IF v = w THEN "awake" ELSE worker[v].at
    BY <2>1, <2>2 DEF Workplace
  <2>4. b = a \cup {w}
    BY <2>2, <2>3 DEF At
  <2>5. w \notin a /\ a \in SUBSET Workers
    BY <2>2 DEF At
  <2>6. worker' \in [Workers -> Workplace] /\ SameHands
    BY <2>1, <2>2 DEF Workplace, SameHands
  <2>7. n <= Cardinality(a)
    BY <1>2 DEF Enough
  <2> HIDE DEF a, b
  <2>8. Cardinality(b) = Cardinality(a) + 1 /\ Cardinality(a) \in Nat
    BY <2>4, <2>5, Gang, FS_AddElement
  <2> DEFINE x == Cardinality(a)
             y == Cardinality(b)
  <2>9. x \in Nat /\ y = x + 1 /\ n <= x
    BY <2>7, <2>8
  <2> HIDE DEF x, y
  <2>10. n + 1 <= y
    BY <2>9
  <2> QED BY <2>6, <2>10 DEF b, y
<1> QED BY <1>1, <1>2

\* Waking everyone moves no position.
LEMMA WokenHands ==
  ASSUME NEW ws \in [Workers -> Workplace]
  PROVE  /\ Woken(ws) \in [Workers -> Workplace]
         /\ \A w \in Workers : /\ Woken(ws)[w].pos = ws[w].pos /\ Woken(ws)[w].gen = ws[w].gen
                               /\ (Woken(ws)[w].at = "busy" <=> ws[w].at = "busy")
                               /\ Woken(ws)[w].at # "asleep"
BY DEF Woken, Workplace

\* A change of the queues alone: what is in them was there, or was nowhere.
LEMMA QueuesKeep ==
  ASSUME WorkInv, ~stopped, UNCHANGED <<stopped, failed, ready, generation, reported, phase>>,
         worker' \in [Workers -> Workplace], SameHands,
         entry' \in Seq(Positions), ordinary' \in Seq(Positions),
         Single(entry'), Single(ordinary'),
         At("asleep")' # {} => Len(entry') + Len(ordinary') <= Cardinality(At("awake")'),
         \A q \in Positions : q \in ToSet(entry') => q \notin ToSet(ordinary'),
         \A q \in Positions : q \in ToSet(entry') \/ q \in ToSet(ordinary') => ~Running(q) /\ ~Came(q),
         pending' \in SUBSET Positions,
         \A q \in Positions :
           q \in pending' <=> q \in ToSet(entry') \/ q \in ToSet(ordinary') \/ Running(q) \/ Came(q),
         failures' \in SUBSET Positions, failures' \cap pending' = {}
  PROVE  WorkInv' /\ \A q \in Positions : (Running(q)' <=> Running(q)) /\ (Came(q)' <=> Came(q))
<1>1. PoolTypeOK'
  BY WorkFacts DEF PoolTypeOK, Workplace, Result
<1>2. (\A q : Running(q)' <=> Running(q)) /\ (\A q : Came(q)' <=> Came(q))
  BY DEF Running, Came, SameHands
<1>3. OnePlace'
  <2>1. \A i, j \in 1..Len(ready') : ready'[i].pos = ready'[j].pos => i = j
    BY DEF WorkInv, OnePlace
  <2>2. \A v, w \in Workers : worker'[v].pos = worker'[w].pos => v = w \/ worker'[v].pos = NoPos
    BY DEF WorkInv, OnePlace, SameHands
  <2>3. \A q \in Positions : Came(q) => ~Running(q)
    BY DEF WorkInv, OnePlace
  <2> QED BY <1>2, <2>1, <2>2, <2>3 DEF OnePlace
<1>4. Counted'
  BY <1>2 DEF Counted
<1>5. OfThisPool'
  BY DEF WorkInv, OfThisPool, SameHands
<1>6. Halted'
  BY DEF WorkInv, Halted
<1>7. NoLostWakeup'
  BY DEF NoLostWakeup, Backlog
<1>8. FailureSuppressed'
  BY DEF FailureSuppressed
<1> QED BY <1>1, <1>2, <1>3, <1>4, <1>5, <1>6, <1>7, <1>8 DEF WorkInv

-----------------------------------------------------------------------------
(* The owner's calls. *)

\* Entry work joins its queue, and the sleeper it needs wakes.
LEMMA PromoteKeeps ==
  ASSUME WorkInv, NEW p \in Positions, Promote(p)
  PROVE  /\ WorkInv' /\ ~stopped /\ ~stopped'
         /\ \A q \in Positions : /\ (Running(q)' <=> Running(q)) /\ (Came(q)' <=> Came(q))
                               /\ (Waiting(q)' <=> Waiting(q))
<1>1. ~stopped /\ UNCHANGED <<pending, stopped, failed, ready, ownerVars>>
  BY DEF Promote, CanRequest, RequestUnchanged
<1>2. PICK i \in DOMAIN ordinary : ordinary[i] = p /\ ordinary' = RemoveAt(ordinary, i)
  BY DEF Promote
<1>3. Single(entry) /\ Single(ordinary)
  BY DEF WorkInv, OnePlace
<1>4. /\ ordinary' \in Seq(Positions) /\ Len(ordinary') = Len(ordinary) - 1
      /\ ToSet(ordinary') = ToSet(ordinary) \ {p} /\ Single(ordinary')
  BY <1>2, <1>3, WorkFacts, Removed
<1>5. p \in ToSet(ordinary) /\ p \notin ToSet(entry)
  <2>1. p \in ToSet(ordinary)
    BY <1>2, WorkFacts, InQueue
  <2> QED BY <2>1 DEF WorkInv, OnePlace
<1>6. /\ entry' \in Seq(Positions) /\ Len(entry') = Len(entry) + 1
      /\ ToSet(entry') = ToSet(entry) \cup {p} /\ Single(entry')
  <2>1. entry' = Append(entry, p)
    BY DEF Promote
  <2> QED BY <1>3, <1>5, <2>1, WorkFacts, Appended
<1>7. Enough(Backlog) /\ Backlog \in Nat
  BY WorkFacts DEF WorkInv, NoLostWakeup, Enough, Backlog
<1>8. /\ worker' \in [Workers -> Workplace] /\ SameHands
      /\ At("asleep")' # {} => Backlog + 1 <= Cardinality(At("awake")')
  BY <1>7, WorkFacts, Notified DEF Promote
<1>9. At("asleep")' # {} => Len(entry') + Len(ordinary') <= Cardinality(At("awake")')
  <2> DEFINE y == Cardinality(At("awake")')
  <2>1. y \in Nat
    BY Gang DEF At
  <2> HIDE DEF y
  <2>2. Len(entry') + Len(ordinary') = Backlog
    BY <1>4, <1>6, WorkFacts DEF Backlog
  <2>3. Backlog + 1 <= y => Backlog <= y
    BY <1>7, <2>1
  <2> QED BY <1>8, <2>2, <2>3 DEF y
<1>10. \A q \in Positions : q \in ToSet(entry') => q \notin ToSet(ordinary')
  BY <1>4, <1>6 DEF WorkInv, OnePlace
<1>11. \A q \in Positions : q \in ToSet(entry') \/ q \in ToSet(ordinary') => ~Running(q) /\ ~Came(q)
  BY <1>4, <1>5, <1>6 DEF WorkInv, OnePlace
<1>12. \A q \in Positions :
         q \in pending' <=> q \in ToSet(entry') \/ q \in ToSet(ordinary') \/ Running(q) \/ Came(q)
  BY <1>1, <1>4, <1>5, <1>6 DEF WorkInv, Counted
<1>13. failures' \in SUBSET Positions /\ failures' \cap pending' = {} /\ pending' \in SUBSET Positions
  BY <1>1, WorkFacts DEF WorkInv, FailureSuppressed, ownerVars
<1>14. WorkInv' /\ \A q \in Positions : (Running(q)' <=> Running(q)) /\ (Came(q)' <=> Came(q))
  BY <1>1, <1>4, <1>6, <1>8, <1>9, <1>10, <1>11, <1>12, <1>13, QueuesKeep DEF ownerVars
<1> QED BY <1>14, <1>1, <1>4, <1>5, <1>6 DEF Waiting

\* A position that is somewhere new was nowhere.
LEMMA NewPosition ==
  ASSUME WorkInv, NEW p \in Positions, ~stopped, p \notin pending
  PROVE  p \notin ToSet(entry) /\ p \notin ToSet(ordinary) /\ ~Running(p) /\ ~Came(p)
BY DEF WorkInv, Counted

\* Work that is admitted is queued once, within the budget or in the place of other work.
LEMMA AdmitKeeps ==
  ASSUME WorkInv, NEW p \in Positions, NEW urgent \in BOOLEAN, Admit(p, urgent)
  PROVE  /\ WorkInv' /\ ~stopped /\ ~stopped'
         /\ \A q \in Positions : /\ (Running(q)' <=> Running(q)) /\ (Came(q)' <=> Came(q))
                               /\ (Waiting(q)' <=> Waiting(q) \/ q = p)
<1>1. ~stopped /\ UNCHANGED <<stopped, failed, ready, ownerVars>> /\ p \notin pending /\ p \notin failures
  BY DEF Admit, CanRequest, RequestUnchanged
<1>2. pending' = pending \cup {p}
  BY DEF Admit, Enqueue
<1>3. Single(entry) /\ Single(ordinary)
  BY DEF WorkInv, OnePlace
<1>4. p \notin ToSet(entry) /\ p \notin ToSet(ordinary) /\ ~Running(p) /\ ~Came(p)
  BY <1>1, NewPosition
<1>5. /\ entry' \in Seq(Positions) /\ ordinary' \in Seq(Positions) /\ Single(entry') /\ Single(ordinary')
      /\ Len(entry') + Len(ordinary') = Backlog + 1
      /\ \/ ToSet(entry') = ToSet(entry) \cup {p} /\ ToSet(ordinary') = ToSet(ordinary)
         \/ ToSet(entry') = ToSet(entry) /\ ToSet(ordinary') = ToSet(ordinary) \cup {p}
  <2>1. CASE urgent
    <3>1. entry' = Append(entry, p) /\ ordinary' = ordinary
      BY <2>1 DEF Admit, Enqueue
    <3>2. /\ entry' \in Seq(Positions) /\ Len(entry') = Len(entry) + 1
          /\ ToSet(entry') = ToSet(entry) \cup {p} /\ Single(entry')
      BY <1>3, <1>4, <3>1, WorkFacts, Appended
    <3> QED BY <1>3, <3>1, <3>2, WorkFacts DEF Backlog
  <2>2. CASE ~urgent
    <3>1. ordinary' = Append(ordinary, p) /\ entry' = entry
      BY <2>2 DEF Admit, Enqueue
    <3>2. /\ ordinary' \in Seq(Positions) /\ Len(ordinary') = Len(ordinary) + 1
          /\ ToSet(ordinary') = ToSet(ordinary) \cup {p} /\ Single(ordinary')
      BY <1>3, <1>4, <3>1, WorkFacts, Appended
    <3> QED BY <1>3, <3>1, <3>2, WorkFacts DEF Backlog
  <2> QED BY <2>1, <2>2
<1>6. Enough(Backlog) /\ Backlog \in Nat
  BY WorkFacts DEF WorkInv, NoLostWakeup, Enough, Backlog
<1>7. /\ worker' \in [Workers -> Workplace] /\ SameHands
      /\ At("asleep")' # {} => Backlog + 1 <= Cardinality(At("awake")')
  BY <1>6, WorkFacts, Notified DEF Admit
<1>8. At("asleep")' # {} => Len(entry') + Len(ordinary') <= Cardinality(At("awake")')
  BY <1>5, <1>7
<1>9. \A q \in Positions : q \in ToSet(entry') => q \notin ToSet(ordinary')
  BY <1>4, <1>5 DEF WorkInv, OnePlace
<1>10. \A q \in Positions : q \in ToSet(entry') \/ q \in ToSet(ordinary') => ~Running(q) /\ ~Came(q)
  BY <1>4, <1>5 DEF WorkInv, OnePlace
<1>11. \A q \in Positions :
         q \in pending' <=> q \in ToSet(entry') \/ q \in ToSet(ordinary') \/ Running(q) \/ Came(q)
  BY <1>1, <1>2, <1>5 DEF WorkInv, Counted
<1>12. failures' \in SUBSET Positions /\ failures' \cap pending' = {} /\ pending' \in SUBSET Positions
  BY <1>1, <1>2, WorkFacts DEF WorkInv, FailureSuppressed, ownerVars
<1>13. WorkInv' /\ \A q \in Positions : (Running(q)' <=> Running(q)) /\ (Came(q)' <=> Came(q))
  BY <1>1, <1>5, <1>7, <1>8, <1>9, <1>10, <1>11, <1>12, QueuesKeep DEF ownerVars
<1> QED BY <1>13, <1>1, <1>5 DEF Waiting

LEMMA PreemptKeeps ==
  ASSUME WorkInv, NEW p \in Positions, Preempt(p)
  PROVE  /\ WorkInv' /\ ~stopped /\ ~stopped'
         /\ \A q \in Positions : /\ (Running(q)' <=> Running(q)) /\ (Came(q)' <=> Came(q))
                               /\ (Waiting(q)' <=> (Waiting(q) /\ q # Last(ordinary)) \/ q = p)
         /\ Last(ordinary) \in Positions /\ Waiting(Last(ordinary))
<1> DEFINE last == Last(ordinary)
<1>1. ~stopped /\ UNCHANGED <<stopped, failed, ready, ownerVars>> /\ p \notin pending /\ p \notin failures
  BY DEF Preempt, CanRequest, RequestUnchanged
<1>2. /\ pending' = (pending \ {last}) \cup {p} /\ ordinary # <<>>
      /\ entry' = Append(entry, p) /\ ordinary' = Front(ordinary)
  BY DEF Preempt
<1>3. Single(entry) /\ Single(ordinary)
  BY DEF WorkInv, OnePlace
<1>4. p \notin ToSet(entry) /\ p \notin ToSet(ordinary) /\ ~Running(p) /\ ~Came(p)
  BY <1>1, NewPosition
<1>5. /\ entry' \in Seq(Positions) /\ Len(entry') = Len(entry) + 1
      /\ ToSet(entry') = ToSet(entry) \cup {p} /\ Single(entry')
  BY <1>2, <1>3, <1>4, WorkFacts, Appended
<1>6. /\ ordinary' \in Seq(Positions) /\ Len(ordinary') = Len(ordinary) - 1
      /\ ToSet(ordinary') = ToSet(ordinary) \ {last} /\ Single(ordinary')
      /\ last \in ToSet(ordinary)
  BY <1>2, <1>3, WorkFacts, Fronted
<1>7. last \in Positions /\ last \notin ToSet(entry) /\ ~Running(last) /\ ~Came(last)
  BY <1>6, WorkFacts DEF WorkInv, OnePlace
<1> HIDE DEF last
<1>8. Enough(Backlog) /\ Backlog \in Nat
  BY WorkFacts DEF WorkInv, NoLostWakeup, Enough, Backlog
<1>9. /\ worker' \in [Workers -> Workplace] /\ SameHands
      /\ At("asleep")' # {} => Backlog + 1 <= Cardinality(At("awake")')
  BY <1>8, WorkFacts, Notified DEF Preempt
<1>10. At("asleep")' # {} => Len(entry') + Len(ordinary') <= Cardinality(At("awake")')
  <2> DEFINE y == Cardinality(At("awake")')
  <2>1. y \in Nat
    BY Gang DEF At
  <2> HIDE DEF y
  <2>2. Len(entry') + Len(ordinary') = Backlog
    BY <1>5, <1>6, WorkFacts DEF Backlog
  <2>3. Backlog + 1 <= y => Backlog <= y
    BY <1>8, <2>1
  <2> QED BY <1>9, <2>2, <2>3 DEF y
<1>11. \A q \in Positions : q \in ToSet(entry') => q \notin ToSet(ordinary')
  BY <1>4, <1>5, <1>6 DEF WorkInv, OnePlace
<1>12. \A q \in Positions : q \in ToSet(entry') \/ q \in ToSet(ordinary') => ~Running(q) /\ ~Came(q)
  BY <1>4, <1>5, <1>6 DEF WorkInv, OnePlace
<1>13. \A q \in Positions :
         q \in pending' <=> q \in ToSet(entry') \/ q \in ToSet(ordinary') \/ Running(q) \/ Came(q)
  BY <1>1, <1>2, <1>4, <1>5, <1>6, <1>7 DEF WorkInv, Counted
<1>14. failures' \in SUBSET Positions /\ failures' \cap pending' = {} /\ pending' \in SUBSET Positions
  BY <1>1, <1>2, WorkFacts DEF WorkInv, FailureSuppressed, ownerVars
<1>15. WorkInv' /\ \A q \in Positions : (Running(q)' <=> Running(q)) /\ (Came(q)' <=> Came(q))
  BY <1>1, <1>5, <1>6, <1>9, <1>10, <1>11, <1>12, <1>13, <1>14, QueuesKeep DEF ownerVars
<1>16. \A q \in Positions : Waiting(q)' <=> (Waiting(q) /\ q # last) \/ q = p
  BY <1>4, <1>5, <1>6, <1>7 DEF Waiting
<1> QED BY <1>1, <1>6, <1>7, <1>15, <1>16 DEF Waiting, last

\* Cancelling takes back what is queued and unwanted, and nothing a worker has begun.
LEMMA CancelKeeps ==
  ASSUME WorkInv, NEW wanted \in SUBSET Positions, CancelQueued(wanted)
  PROVE  /\ WorkInv' /\ stopped' = stopped
         /\ ~stopped => \A q \in Positions :
              /\ (Running(q)' <=> Running(q)) /\ (Came(q)' <=> Came(q))
              /\ (Waiting(q)' <=> Waiting(q) /\ q \in wanted)
<1>1. /\ UNCHANGED <<stopped, failed, worker, ready, generation, reported, phase>>
      /\ entry' = Only(entry, wanted) /\ ordinary' = Only(ordinary, wanted)
      /\ pending' = pending \ (Queued \ wanted) /\ failures' = failures \cap wanted
  BY DEF CancelQueued
<1>2. Single(entry) /\ Single(ordinary)
  BY DEF WorkInv, OnePlace
<1>3. /\ entry' \in Seq(Positions) /\ Len(entry') <= Len(entry) /\ Len(entry') \in Nat
      /\ ToSet(entry') = ToSet(entry) \cap wanted /\ Single(entry')
  BY <1>1, <1>2, WorkFacts, OnlyWanted
<1>4. /\ ordinary' \in Seq(Positions) /\ Len(ordinary') <= Len(ordinary) /\ Len(ordinary') \in Nat
      /\ ToSet(ordinary') = ToSet(ordinary) \cap wanted /\ Single(ordinary')
  BY <1>1, <1>2, WorkFacts, OnlyWanted
<1>5. worker' \in [Workers -> Workplace] /\ SameHands
  BY <1>1, WorkFacts DEF SameHands
<1>6. At("asleep")' # {} => Len(entry') + Len(ordinary') <= Cardinality(At("awake")')
  <2> DEFINE y == Cardinality(At("awake"))
  <2>1. y \in Nat
    BY Gang DEF At
  <2>2. At("asleep") # {} => Backlog <= y
    BY DEF WorkInv, NoLostWakeup
  <2>3. y = Cardinality(At("awake")') /\ At("asleep")' = At("asleep")
    BY <1>1 DEF At
  <2> HIDE DEF y
  <2>4. Backlog <= y => Len(entry') + Len(ordinary') <= y
    BY <1>3, <1>4, <2>1, WorkFacts DEF Backlog
  <2> QED BY <2>2, <2>3, <2>4
<1>7. \A q \in Positions : q \in ToSet(entry') => q \notin ToSet(ordinary')
  BY <1>3, <1>4 DEF WorkInv, OnePlace
<1>8. \A q \in Positions : q \in ToSet(entry') \/ q \in ToSet(ordinary') => ~Running(q) /\ ~Came(q)
  BY <1>3, <1>4 DEF WorkInv, OnePlace
<1>9. failures' \in SUBSET Positions /\ pending' \in SUBSET Positions
  BY <1>1, WorkFacts
<1>10. CASE ~stopped
  <2>1. \A q \in Positions :
         q \in pending' <=> q \in ToSet(entry') \/ q \in ToSet(ordinary') \/ Running(q) \/ Came(q)
    BY <1>1, <1>3, <1>4, <1>10 DEF WorkInv, Counted, OnePlace, Queued
  <2>2. failures' \cap pending' = {}
    BY <1>1, <1>10 DEF WorkInv, FailureSuppressed
  <2>3. WorkInv' /\ \A q \in Positions : (Running(q)' <=> Running(q)) /\ (Came(q)' <=> Came(q))
    BY <1>1, <1>3, <1>4, <1>5, <1>6, <1>7, <1>8, <1>9, <1>10, <2>1, <2>2, QueuesKeep
  <2> QED BY <1>1, <1>3, <1>4, <2>3 DEF Waiting
<1>11. CASE stopped
  <2>1. Len(entry') = 0 /\ Len(ordinary') = 0
    BY <1>3, <1>4, <1>11 DEF WorkInv, Halted
  <2>2. entry' = entry /\ ordinary' = ordinary
    BY <1>3, <1>4, <1>11, <2>1, InQueue DEF WorkInv, Halted
  <2>3. PoolTypeOK'
    BY <1>1, <1>9, <2>2, WorkFacts DEF PoolTypeOK, Workplace, Result
  <2>4. OnePlace' /\ OfThisPool' /\ Halted' /\ NoLostWakeup'
    BY <1>1, <2>2 DEF WorkInv, OnePlace, Running, Came, OfThisPool, Halted, NoLostWakeup, Backlog, At
  <2>5. Counted' /\ FailureSuppressed'
    BY <1>1, <1>11 DEF Counted, FailureSuppressed
  <2> QED BY <1>1, <1>11, <2>3, <2>4, <2>5 DEF WorkInv
<1> QED BY <1>10, <1>11 DEF WorkInv, PoolTypeOK

\* A result is taken off the channel, and its position leaves the budget.
LEMMA TryReadyKeeps ==
  ASSUME WorkInv, TryReady
  PROVE  /\ WorkInv' /\ stopped' = stopped
         /\ \E p \in Positions : /\ Came(p)
              /\ \A q \in Positions : /\ (Running(q)' <=> Running(q)) /\ (Waiting(q)' <=> Waiting(q))
                                    /\ (Came(q)' <=> Came(q) /\ q # p)
<1> DEFINE outcome == Head(ready)
           n == Len(ready)
<1>1. /\ UNCHANGED <<entry, ordinary, stopped, failed, worker, generation, reported, phase>>
      /\ ready # <<>> /\ ready' = Tail(ready)
  BY DEF TryReady
<1>2. /\ outcome = ready[1] /\ ready' \in Seq(Result) /\ Len(ready') = n - 1
      /\ \A i \in 1..(n - 1) : ready'[i] = ready[i + 1]
      /\ n \in Nat \ {0} /\ outcome \in Result
  BY <1>1, WorkFacts, HeadTailProperties, InQueue
<1>3. outcome.gen = generation /\ outcome.pos \in Positions
  BY <1>2 DEF WorkInv, OfThisPool, Result
<1>4. /\ ~stopped => /\ pending' = pending \ {outcome.pos}
                     /\ failures' = IF outcome.ok THEN failures ELSE failures \cup {outcome.pos}
      /\ stopped => UNCHANGED <<pending, failures>>
  BY <1>3 DEF TryReady
<1>5. \A q : Running(q)' <=> Running(q)
  BY <1>1 DEF Running
<1> HIDE DEF outcome
<1>6. \A i, j \in 1..n : ready[i].pos = ready[j].pos => i = j
  BY DEF WorkInv, OnePlace
<1>7. ASSUME NEW q PROVE Came(q)' <=> Came(q) /\ q # outcome.pos
  <2>1. ASSUME NEW i \in 1..n, ready[i].pos = q, q # outcome.pos PROVE Came(q)'
    <3>1. i - 1 \in 1..(n - 1) /\ (i - 1) + 1 = i
      BY <1>2, <2>1
    <3>2. ready'[i - 1].pos = q
      BY <1>2, <2>1, <3>1
    <3> QED BY <1>2, <3>1, <3>2 DEF Came
  <2>2. ASSUME NEW i \in 1..(n - 1), ready'[i].pos = q PROVE Came(q) /\ q # outcome.pos
    <3>1. i + 1 \in 1..n /\ 1 \in 1..n /\ i + 1 # 1
      BY <1>2
    <3>2. ready[i + 1].pos = q
      BY <1>2, <2>2
    <3>3. ready[i + 1].pos # ready[1].pos
      BY <1>6, <3>1
    <3> QED BY <1>2, <3>1, <3>2, <3>3 DEF Came
  <2> QED BY <1>2, <2>1, <2>2 DEF Came
<1>8. pending' \in SUBSET Positions /\ failures' \in SUBSET Positions
  BY <1>3, <1>4, WorkFacts
<1>9. PoolTypeOK'
  BY <1>1, <1>2, <1>8, WorkFacts DEF PoolTypeOK, Workplace, Result
<1>10. OnePlace'
  <2>1. ASSUME NEW i \in 1..(n - 1), NEW j \in 1..(n - 1), ready'[i].pos = ready'[j].pos PROVE i = j
    <3>1. i + 1 \in 1..n /\ j + 1 \in 1..n
      BY <1>2
    <3>2. i + 1 = j + 1
      BY <1>2, <1>6, <2>1, <3>1
    <3> QED BY <3>2
  <2>2. \A i, j \in 1..Len(ready') : ready'[i].pos = ready'[j].pos => i = j
    BY <1>2, <2>1
  <2>3. /\ Single(entry') /\ Single(ordinary')
        /\ \A v, w \in Workers : worker'[v].pos = worker'[w].pos => v = w \/ worker'[v].pos = NoPos
    BY <1>1 DEF WorkInv, OnePlace
  <2>4. \A p \in Positions :
          /\ p \in ToSet(entry') => p \notin ToSet(ordinary')
          /\ Running(p)' => p \notin ToSet(entry') /\ p \notin ToSet(ordinary')
          /\ Came(p)' => p \notin ToSet(entry') /\ p \notin ToSet(ordinary') /\ ~Running(p)'
    BY <1>1, <1>5, <1>7 DEF WorkInv, OnePlace
  <2> QED BY <2>2, <2>3, <2>4 DEF OnePlace
<1>11. Came(outcome.pos)
  BY <1>2 DEF Came
<1>12. Counted'
  <2> SUFFICES ASSUME ~stopped', NEW p \in Positions
               PROVE  p \in pending' <=> p \in ToSet(entry') \/ p \in ToSet(ordinary')
                                         \/ Running(p)' \/ Came(p)'
    BY DEF Counted
  <2>1. p \in pending <=> p \in ToSet(entry) \/ p \in ToSet(ordinary) \/ Running(p) \/ Came(p)
    BY <1>1 DEF WorkInv, Counted
  <2>2. p = outcome.pos => p \notin ToSet(entry) /\ p \notin ToSet(ordinary) /\ ~Running(p)
    BY <1>11 DEF WorkInv, OnePlace
  <2>3. p \in pending' <=> p \in pending /\ p # outcome.pos
    BY <1>1, <1>4
  <2>4. (Running(p)' <=> Running(p)) /\ (Came(p)' <=> Came(p) /\ p # outcome.pos)
    BY <1>5, <1>7
  <2> QED BY <1>1, <2>1, <2>2, <2>3, <2>4
<1>13. OfThisPool'
  <2>1. ASSUME NEW i \in 1..(n - 1) PROVE ready'[i].gen = generation
    <3>1. i + 1 \in 1..n
      BY <1>2
    <3> QED BY <1>2, <3>1 DEF WorkInv, OfThisPool
  <2>2. \A i \in 1..Len(ready') : ready'[i].gen = generation'
    BY <1>1, <1>2, <2>1
  <2> QED BY <1>1, <2>2 DEF WorkInv, OfThisPool
<1>14. Halted' /\ NoLostWakeup'
  BY <1>1 DEF WorkInv, Halted, NoLostWakeup, At, Backlog
<1>15. FailureSuppressed'
  BY <1>1, <1>4 DEF WorkInv, FailureSuppressed
<1>16. WorkInv'
  BY <1>9, <1>10, <1>12, <1>13, <1>14, <1>15 DEF WorkInv
<1>17. \A q \in Positions : Waiting(q)' <=> Waiting(q)
  BY <1>1 DEF Waiting
<1> QED BY <1>1, <1>3, <1>5, <1>7, <1>11, <1>16, <1>17

\* The queue stops: nothing is queued or counted, and nobody sleeps.
LEMMA EmptyKeeps ==
  ASSUME WorkInv, EmptyQueue, UNCHANGED <<ready, generation>>,
         failed' \in BOOLEAN, failures' \in SUBSET Positions, reported' \in BOOLEAN,
         phase' \in {"open", "reconfiguring", "closing", "closed"},
         phase' = "reconfiguring" => generation < MaxGeneration,
         worker' \in [Workers -> Workplace],
         \A w \in Workers :
           /\ worker'[w].at # "asleep" /\ worker'[w].gen = generation
           /\ worker'[w].pos = worker[w].pos \/ worker'[w].pos = NoPos
           /\ worker'[w].at = "busy" <=> worker'[w].pos # NoPos
  PROVE  WorkInv'
<1>1. entry' = <<>> /\ ordinary' = <<>> /\ pending' = {} /\ stopped' = TRUE
  BY DEF EmptyQueue
<1>2. <<>> \in Seq(Positions) /\ Len(<<>>) = 0 /\ ToSet(<<>>) = {} /\ Single(<<>>)
  <2>1. <<>> \in Seq(Positions) /\ Len(<<>>) = 0
    OBVIOUS
  <2>2. DOMAIN <<>> = 1..Len(<<>>) /\ ToSet(<<>>) = {}
    BY <2>1, InQueue
  <2>3. DOMAIN <<>> = {}
    BY <2>1, <2>2
  <2> QED BY <2>1, <2>2, <2>3 DEF Single
<1>3. PoolTypeOK'
  <2>1. entry' \in Seq(Positions) /\ ordinary' \in Seq(Positions) /\ pending' \in SUBSET Positions
    BY <1>1, <1>2
  <2>2. stopped' \in BOOLEAN
    BY <1>1
  <2> QED BY <2>1, <2>2, WorkFacts DEF PoolTypeOK, Workplace, Result
<1>4. (\A q \in Positions : Running(q)' => Running(q)) /\ (\A q : Came(q)' <=> Came(q))
  BY JobsAssumption DEF Running, Came
<1>5. OnePlace'
  <2>1. \A v, w \in Workers : worker'[v].pos = worker'[w].pos => v = w \/ worker'[v].pos = NoPos
    BY DEF WorkInv, OnePlace
  <2>2. \A i, j \in 1..Len(ready') : ready'[i].pos = ready'[j].pos => i = j
    BY DEF WorkInv, OnePlace
  <2>3. Single(entry') /\ Single(ordinary') /\ ToSet(entry') = {} /\ ToSet(ordinary') = {}
    BY <1>1, <1>2
  <2>4. \A q \in Positions : Came(q)' => ~Running(q)'
    BY <1>4 DEF WorkInv, OnePlace
  <2> QED BY <2>1, <2>2, <2>3, <2>4 DEF OnePlace
<1>6. OfThisPool'
  BY DEF WorkInv, OfThisPool
<1>7. Halted' /\ NoLostWakeup' /\ Counted' /\ FailureSuppressed'
  BY <1>1 DEF Halted, NoLostWakeup, At, Counted, FailureSuppressed
<1> QED BY <1>3, <1>5, <1>6, <1>7 DEF WorkInv

LEMMA BeginShutdownKeeps ==
  ASSUME WorkInv, NEW goal \in {"reconfiguring", "closing"}, BeginShutdown(goal)
  PROVE  WorkInv'
<1>1. /\ EmptyQueue /\ worker' = Woken(worker) /\ phase' = goal
      /\ UNCHANGED <<failed, ready, generation, failures, reported>>
  BY DEF BeginShutdown
<1>2. /\ Woken(worker) \in [Workers -> Workplace]
      /\ \A w \in Workers : /\ Woken(worker)[w].pos = worker[w].pos /\ Woken(worker)[w].gen = worker[w].gen
                            /\ (Woken(worker)[w].at = "busy" <=> worker[w].at = "busy")
                            /\ Woken(worker)[w].at # "asleep"
  BY WorkFacts, WokenHands
<1>3. \A w \in Workers :
        /\ worker'[w].at # "asleep" /\ worker'[w].gen = generation
        /\ worker'[w].pos = worker[w].pos \/ worker'[w].pos = NoPos
        /\ worker'[w].at = "busy" <=> worker'[w].pos # NoPos
  BY <1>1, <1>2 DEF WorkInv, OfThisPool
<1>4. /\ worker' \in [Workers -> Workplace]
      /\ phase' \in {"open", "reconfiguring", "closing", "closed"}
  BY <1>1, <1>2
<1>5. phase' = "reconfiguring" => generation < MaxGeneration
  BY <1>1 DEF BeginShutdown
<1> QED BY <1>1, <1>3, <1>4, <1>5, WorkFacts, EmptyKeeps

\* A panic fails the whole pool.
LEMMA PanicKeeps ==
  ASSUME WorkInv, NEW w \in Workers, Panic(w)
  PROVE  WorkInv'
<1> DEFINE left == [worker EXCEPT ![w].at = "exited", ![w].pos = NoPos]
<1>1. /\ EmptyQueue /\ failed' = TRUE /\ worker' = Woken(left)
      /\ UNCHANGED <<ready, generation, failures, reported, phase>>
  BY DEF Panic, ownerVars
<1>2. /\ left \in [Workers -> Workplace]
      /\ \A v \in Workers : left[v] = IF v = w THEN [worker[w] EXCEPT !.at = "exited", !.pos = NoPos]
                                      ELSE worker[v]
  BY WorkFacts DEF Workplace
<1> HIDE DEF left
<1>3. /\ Woken(left) \in [Workers -> Workplace]
      /\ \A v \in Workers : /\ Woken(left)[v].pos = left[v].pos /\ Woken(left)[v].gen = left[v].gen
                            /\ (Woken(left)[v].at = "busy" <=> left[v].at = "busy")
                            /\ Woken(left)[v].at # "asleep"
  BY <1>2, WokenHands
<1>4. \A v \in Workers :
        /\ left[v].gen = generation /\ (left[v].pos = worker[v].pos \/ left[v].pos = NoPos)
        /\ left[v].at = "busy" <=> left[v].pos # NoPos
  BY <1>2, WorkFacts DEF WorkInv, OfThisPool, Workplace
<1>5. \A v \in Workers :
        /\ worker'[v].at # "asleep" /\ worker'[v].gen = generation
        /\ worker'[v].pos = worker[v].pos \/ worker'[v].pos = NoPos
        /\ worker'[v].at = "busy" <=> worker'[v].pos # NoPos
  BY <1>1, <1>3, <1>4
<1>6. failed' \in BOOLEAN /\ (phase' = "reconfiguring" => generation < MaxGeneration)
  BY <1>1 DEF WorkInv, Halted
<1> QED BY <1>1, <1>3, <1>5, <1>6, WorkFacts, EmptyKeeps

\* What only the owner notes: a failure reported, a pool closed.
LEMMA NotedKeeps ==
  ASSUME WorkInv, TakeFailureNotification \/ Close
  PROVE  WorkInv'
<1>1. CASE TakeFailureNotification
  <2>1. /\ UNCHANGED <<entry, ordinary, pending, stopped, failed, worker, ready, generation, failures, phase>>
        /\ reported' = TRUE
    BY <1>1 DEF TakeFailureNotification, queueVars
  <2>2. reported' \in BOOLEAN
    BY <2>1
  <2> QED BY <2>1, <2>2, WorkFacts DEF WorkInv, PoolTypeOK, OnePlace, Running, Came, Counted, OfThisPool,
                                      Halted, NoLostWakeup, Backlog, At, FailureSuppressed, Workplace, Result
<1>2. CASE Close
  <2>1. /\ UNCHANGED <<entry, ordinary, pending, stopped, failed, worker, generation, failures, reported>>
        /\ phase = "closing" /\ phase' = "closed" /\ ready' = <<>>
    BY <1>2 DEF Close, queueVars
  <2>2. ready' \in Seq(Result) /\ Len(ready') = 0
    BY <2>1
  <2>3. stopped
    BY <2>1 DEF WorkInv, Halted
  <2>4. PoolTypeOK'
    BY <2>1, <2>2, WorkFacts DEF PoolTypeOK, Workplace, Result
  <2>5. \A q : ~Came(q)' /\ (Running(q)' <=> Running(q))
    BY <2>1, <2>2 DEF Came, Running
  <2>6. OnePlace' /\ OfThisPool'
    BY <2>1, <2>2, <2>5 DEF WorkInv, OnePlace, OfThisPool
  <2>7. Counted' /\ Halted' /\ NoLostWakeup' /\ FailureSuppressed'
    BY <2>1, <2>3 DEF WorkInv, Counted, Halted, NoLostWakeup, Backlog, At, FailureSuppressed
  <2> QED BY <2>4, <2>6, <2>7 DEF WorkInv
<1> QED BY <1>1, <1>2

\* A new pool, and the pool there is at first: no work, and workers with nothing in hand.
Fresh ==
  /\ entry = <<>> /\ ordinary = <<>> /\ pending = {} /\ ready = <<>> /\ failures = {}
  /\ generation \in 0..MaxGeneration
  /\ worker \in [Workers -> Workplace]
  /\ \A w \in Workers : worker[w].at \in {"awake", "exited"} /\ worker[w].pos = NoPos
                        /\ worker[w].gen = generation
  /\ stopped \in BOOLEAN /\ failed \in BOOLEAN /\ reported \in BOOLEAN /\ phase = "open"

LEMMA FreshHolds == Fresh => WorkInv
<1> SUFFICES ASSUME Fresh PROVE WorkInv
  OBVIOUS
<1>1. /\ entry \in Seq(Positions) /\ ToSet(entry) = {} /\ Single(entry)
      /\ ordinary \in Seq(Positions) /\ ToSet(ordinary) = {} /\ Single(ordinary)
      /\ ready \in Seq(Result) /\ Len(ready) = 0
  <2>1. <<>> \in Seq(Positions) /\ Len(<<>>) = 0 /\ <<>> \in Seq(Result)
    OBVIOUS
  <2>2. DOMAIN <<>> = 1..Len(<<>>) /\ ToSet(<<>>) = {}
    BY <2>1, InQueue
  <2>3. DOMAIN <<>> = {}
    BY <2>1, <2>2
  <2> QED BY <2>1, <2>2, <2>3 DEF Fresh, Single
<1>2. PoolTypeOK
  BY <1>1 DEF Fresh, PoolTypeOK, Workplace, Result
<1>3. \A q \in Positions : ~Running(q) /\ ~Came(q)
  BY <1>1, JobsAssumption DEF Fresh, Running, Came
<1>4. OnePlace
  <2>1. \A v, w \in Workers : worker[v].pos = worker[w].pos => v = w \/ worker[v].pos = NoPos
    BY DEF Fresh
  <2> QED BY <1>1, <1>3, <2>1 DEF OnePlace
<1>5. Counted
  <2>1. pending = {}
    BY DEF Fresh
  <2> QED BY <1>1, <1>3, <2>1 DEF Counted
<1>6. OfThisPool
  <2>1. \A w \in Workers : worker[w].gen = generation /\ worker[w].at # "busy" /\ worker[w].pos = NoPos
    BY DEF Fresh
  <2> QED BY <1>1, <2>1 DEF OfThisPool
<1>7. Halted
  BY DEF Fresh, Halted
<1>8. NoLostWakeup
  BY DEF Fresh, NoLostWakeup, At
<1>9. FailureSuppressed
  BY DEF Fresh, FailureSuppressed
<1> QED BY <1>2, <1>4, <1>5, <1>6, <1>7, <1>8, <1>9 DEF WorkInv

LEMMA PoolInitHolds ==
  ASSUME PoolInit
  PROVE  WorkInv
<1>1. 0 \in 0..MaxGeneration
  BY JobsAssumption
<1>2. Fresh
  BY <1>1 DEF PoolInit, Fresh, NewPool, Workplace
<1> QED BY <1>2, FreshHolds

LEMMA RestartKeeps ==
  ASSUME WorkInv, NEW spawned \in BOOLEAN, Restart(spawned)
  PROVE  WorkInv'
<1>1. generation + 1 \in 0..MaxGeneration /\ generation + 1 = generation'
  BY WorkFacts, JobsAssumption DEF Restart, WorkInv, Halted
<1>2. Fresh'
  <2>1. /\ worker' = NewPool(generation + 1, IF spawned THEN "awake" ELSE "exited")
        /\ entry' = <<>> /\ ordinary' = <<>> /\ pending' = {} /\ ready' = <<>> /\ failures' = {}
        /\ stopped' = ~spawned /\ failed' = ~spawned /\ reported' = FALSE /\ phase' = "open"
    BY DEF Restart
  <2>2. /\ worker' \in [Workers -> Workplace]
        /\ \A w \in Workers : worker'[w].at \in {"awake", "exited"} /\ worker'[w].pos = NoPos
                              /\ worker'[w].gen = generation'
    BY <1>1, <2>1 DEF NewPool, Workplace
  <2>3. stopped' \in BOOLEAN /\ failed' \in BOOLEAN /\ reported' \in BOOLEAN
    BY <2>1
  <2> QED BY <1>1, <2>1, <2>2, <2>3 DEF Fresh
<1>3. (Fresh => WorkInv)'
  BY FreshHolds, PTL
<1> QED BY <1>2, <1>3

-----------------------------------------------------------------------------
(* The workers. *)

\* The first of a queue goes into a worker's hands.
LEMMA TakeKeeps ==
  ASSUME WorkInv, NEW w \in Workers, Take(w)
  PROVE  /\ WorkInv' /\ ~stopped /\ ~stopped'
         /\ \E p \in Positions : /\ Waiting(p)
              /\ \A q \in Positions : /\ (Running(q)' <=> Running(q) \/ q = p) /\ (Came(q)' <=> Came(q))
                                    /\ (Waiting(q)' <=> Waiting(q) /\ q # p)
<1>1. /\ worker[w].at = "awake" /\ ~stopped
      /\ UNCHANGED <<pending, stopped, failed, ready, generation, failures, reported, phase>>
  BY DEF Take, ownerVars
<1>2. Single(entry) /\ Single(ordinary)
  BY DEF WorkInv, OnePlace
<1>3. PICK p \in Positions :
        /\ worker' = [worker EXCEPT ![w].at = "busy", ![w].pos = p]
        /\ entry' \in Seq(Positions) /\ ordinary' \in Seq(Positions) /\ Single(entry') /\ Single(ordinary')
        /\ Len(entry') + Len(ordinary') = Backlog - 1 /\ Backlog > 0
        /\ \/ /\ ToSet(entry) = ToSet(entry') \cup {p} /\ p \notin ToSet(entry')
              /\ ToSet(ordinary') = ToSet(ordinary)
           \/ /\ ToSet(ordinary) = ToSet(ordinary') \cup {p} /\ p \notin ToSet(ordinary')
              /\ ToSet(entry') = ToSet(entry)
  <2>1. CASE entry # <<>>
    <3> DEFINE p == Head(entry)
    <3>1. worker' = [worker EXCEPT ![w].at = "busy", ![w].pos = p] /\ entry' = Tail(entry) /\ ordinary' = ordinary
      BY <2>1 DEF Take
    <3>2. /\ p \in Positions /\ Tail(entry) \in Seq(Positions) /\ Len(Tail(entry)) = Len(entry) - 1
          /\ Len(entry) \in Nat \ {0} /\ ToSet(entry) = ToSet(Tail(entry)) \cup {p}
          /\ Single(Tail(entry)) /\ p \notin ToSet(Tail(entry))
      BY <1>2, <2>1, WorkFacts, Headed
    <3> HIDE DEF p
    <3>3. Len(entry') + Len(ordinary') = Backlog - 1 /\ Backlog > 0
      BY <3>1, <3>2, WorkFacts DEF Backlog
    <3>4. entry' \in Seq(Positions) /\ ordinary' \in Seq(Positions) /\ Single(entry') /\ Single(ordinary')
      BY <1>2, <3>1, <3>2, WorkFacts
    <3>5. /\ ToSet(entry) = ToSet(entry') \cup {p} /\ p \notin ToSet(entry')
          /\ ToSet(ordinary') = ToSet(ordinary)
      BY <3>1, <3>2
    <3> QED BY <3>1, <3>2, <3>3, <3>4, <3>5
  <2>2. CASE entry = <<>>
    <3> DEFINE p == Head(ordinary)
    <3>1. /\ worker' = [worker EXCEPT ![w].at = "busy", ![w].pos = p] /\ ordinary' = Tail(ordinary)
          /\ entry' = entry /\ ordinary # <<>>
      BY <2>2 DEF Take
    <3>2. /\ p \in Positions /\ Tail(ordinary) \in Seq(Positions) /\ Len(Tail(ordinary)) = Len(ordinary) - 1
          /\ Len(ordinary) \in Nat \ {0} /\ ToSet(ordinary) = ToSet(Tail(ordinary)) \cup {p}
          /\ Single(Tail(ordinary)) /\ p \notin ToSet(Tail(ordinary))
      BY <1>2, <3>1, WorkFacts, Headed
    <3> HIDE DEF p
    <3>3. Len(entry') + Len(ordinary') = Backlog - 1 /\ Backlog > 0
      BY <3>1, <3>2, WorkFacts DEF Backlog
    <3>4. entry' \in Seq(Positions) /\ ordinary' \in Seq(Positions) /\ Single(entry') /\ Single(ordinary')
      BY <1>2, <3>1, <3>2, WorkFacts
    <3>5. /\ ToSet(ordinary) = ToSet(ordinary') \cup {p} /\ p \notin ToSet(ordinary')
          /\ ToSet(entry') = ToSet(entry)
      BY <3>1, <3>2
    <3> QED BY <3>1, <3>2, <3>3, <3>4, <3>5
  <2> QED BY <2>1, <2>2
<1>4. /\ worker' \in [Workers -> Workplace] /\ worker'[w].at = "busy" /\ worker'[w].pos = p
      /\ worker'[w].gen = worker[w].gen /\ \A v \in Workers \ {w} : worker'[v] = worker[v]
  BY <1>3, WorkFacts DEF Workplace
<1>5. worker[w].pos = NoPos /\ p # NoPos
  BY <1>1, JobsAssumption DEF WorkInv, OfThisPool
<1>6. ASSUME NEW q \in Positions
      PROVE  (Running(q)' <=> Running(q) \/ q = p) /\ (Came(q)' <=> Came(q))
  BY <1>1, <1>4, <1>5, JobsAssumption DEF Running, Came
<1>7. PoolTypeOK'
  BY <1>1, <1>3, <1>4, WorkFacts DEF PoolTypeOK, Workplace, Result
<1>8. OnePlace'
  <2>1. ~Running(p) /\ ~Came(p)
    BY <1>3 DEF WorkInv, OnePlace
  <2>2. \A u, v \in Workers : worker'[u].pos = worker'[v].pos => u = v \/ worker'[u].pos = NoPos
    <3>1. \A v \in Workers : worker[v].pos # p
      BY <2>1 DEF Running
    <3> QED BY <1>4, <3>1 DEF WorkInv, OnePlace
  <2>3. \A i, j \in 1..Len(ready') : ready'[i].pos = ready'[j].pos => i = j
    BY <1>1 DEF WorkInv, OnePlace
  <2>4. \A q \in Positions :
         /\ q \in ToSet(entry') => q \notin ToSet(ordinary')
         /\ Running(q)' => q \notin ToSet(entry') /\ q \notin ToSet(ordinary')
         /\ Came(q)' => q \notin ToSet(entry') /\ q \notin ToSet(ordinary') /\ ~Running(q)'
    BY <1>3, <1>6, <2>1 DEF WorkInv, OnePlace
  <2> QED BY <1>3, <2>2, <2>3, <2>4 DEF OnePlace
<1>9. Counted'
  <2>1. \A q \in Positions :
         q \in pending' <=> q \in ToSet(entry') \/ q \in ToSet(ordinary') \/ Running(q)' \/ Came(q)'
    BY <1>1, <1>3, <1>6 DEF WorkInv, Counted
  <2> QED BY <2>1 DEF Counted
<1>10. OfThisPool'
  BY <1>1, <1>4, <1>5 DEF WorkInv, OfThisPool
<1>11. Halted'
  BY <1>1 DEF WorkInv, Halted
<1>12. NoLostWakeup'
  <2> DEFINE x == Cardinality(At("awake"))
             y == Cardinality(At("awake")')
  <2>1. At("awake")' = At("awake") \ {w} /\ At("asleep")' = At("asleep") /\ w \in At("awake")
    BY <1>1, <1>4 DEF At
  <2>2. x \in Nat /\ y = x - 1
    <3>1. At("awake") \in SUBSET Workers
      BY DEF At
    <3> QED BY <2>1, <3>1, Gang, FS_RemoveElement
  <2>3. At("asleep") # {} => Backlog <= x
    BY DEF WorkInv, NoLostWakeup
  <2>4. Backlog' = Backlog - 1 /\ Backlog \in Nat
    BY <1>3, WorkFacts DEF Backlog
  <2>5. At("asleep")' # {} => Backlog' <= y
    <3> HIDE DEF x, y
    <3> QED BY <2>1, <2>2, <2>3, <2>4
  <2> QED BY <2>5 DEF NoLostWakeup
<1>13. FailureSuppressed'
  BY <1>1 DEF WorkInv, FailureSuppressed
<1>14. WorkInv'
  BY <1>7, <1>8, <1>9, <1>10, <1>11, <1>12, <1>13 DEF WorkInv
<1>15. Waiting(p) /\ \A q \in Positions : Waiting(q)' <=> Waiting(q) /\ q # p
  BY <1>3 DEF Waiting, WorkInv, OnePlace
<1> QED BY <1>1, <1>6, <1>14, <1>15

\* A worker goes to sleep when there is nothing to do, wakes, or leaves a stopped pool.
LEMMA RestKeeps ==
  ASSUME WorkInv, NEW w \in Workers, Sleep(w) \/ SpuriousWake(w) \/ Exit(w)
  PROVE  /\ WorkInv' /\ stopped' = stopped
         /\ ~stopped => \A q \in Positions :
              (Running(q)' <=> Running(q)) /\ (Came(q)' <=> Came(q)) /\ (Waiting(q)' <=> Waiting(q))
<1>1. UNCHANGED <<entry, ordinary, pending, stopped, failed, ready, generation, failures, reported, phase>>
  BY DEF Sleep, SpuriousWake, Exit, queueVars, ownerVars
<1>2. /\ worker' \in [Workers -> Workplace] /\ worker'[w].gen = worker[w].gen
      /\ \A v \in Workers \ {w} : worker'[v] = worker[v]
      /\ worker'[w].at \in {"awake", "asleep", "exited"}
      /\ \/ Sleep(w) /\ worker'[w].at = "asleep" /\ worker'[w].pos = worker[w].pos
         \/ SpuriousWake(w) /\ worker'[w].at = "awake" /\ worker'[w].pos = worker[w].pos
         \/ Exit(w) /\ worker'[w].at = "exited" /\ worker'[w].pos = NoPos
  <2>1. CASE Sleep(w)
    BY <2>1, WorkFacts DEF Sleep, Workplace
  <2>2. CASE SpuriousWake(w)
    BY <2>2, WorkFacts DEF SpuriousWake, Workplace
  <2>3. CASE Exit(w)
    BY <2>3, WorkFacts DEF Exit, Workplace
  <2> QED BY <2>1, <2>2, <2>3
<1>3. worker'[w].pos = NoPos /\ (worker[w].pos = NoPos \/ stopped)
  BY <1>2 DEF WorkInv, OfThisPool, Sleep, SpuriousWake, Exit
<1>4. ASSUME NEW q \in Positions
      PROVE  (Running(q)' => Running(q)) /\ (~stopped => (Running(q) => Running(q)')) /\ (Came(q)' <=> Came(q))
  BY <1>1, <1>2, <1>3, JobsAssumption DEF Running, Came
<1>5. PoolTypeOK'
  BY <1>1, <1>2, WorkFacts DEF PoolTypeOK, Workplace, Result
<1>6. OnePlace'
  <2>1. \A u, v \in Workers : worker'[u].pos = worker'[v].pos => u = v \/ worker'[u].pos = NoPos
    BY <1>2, <1>3 DEF WorkInv, OnePlace
  <2> QED BY <1>1, <1>4, <2>1 DEF WorkInv, OnePlace
<1>7. Counted'
  BY <1>1, <1>4 DEF WorkInv, Counted
<1>8. OfThisPool'
  BY <1>1, <1>2, <1>3 DEF WorkInv, OfThisPool
<1>9. Halted' /\ FailureSuppressed'
  BY <1>1 DEF WorkInv, Halted, FailureSuppressed
<1>10. NoLostWakeup'
  <2>1. Backlog' = Backlog /\ Backlog \in Nat
    BY <1>1, WorkFacts DEF Backlog
  <2>2. Cardinality(At("awake")') \in Nat /\ Cardinality(At("awake")) \in Nat
    <3>1. At("awake")' \in SUBSET Workers /\ At("awake") \in SUBSET Workers
      BY DEF At
    <3> QED BY <3>1, Gang
  <2>3. CASE Sleep(w)
    <3>1. Backlog = 0
      BY <2>3 DEF Sleep
    <3> QED BY <2>1, <2>2, <3>1 DEF NoLostWakeup
  <2>4. CASE Exit(w)
    <3>1. Backlog = 0
      <4>1. stopped /\ <<>> \in Seq(Positions) /\ Len(<<>>) = 0
        BY <2>4 DEF Exit
      <4> QED BY <4>1 DEF WorkInv, Halted, Backlog
    <3> QED BY <2>1, <2>2, <3>1 DEF NoLostWakeup
  <2>5. CASE SpuriousWake(w)
    <3> DEFINE a == At("awake")
               b == At("awake")'
               x == Cardinality(a)
               y == Cardinality(b)
    <3>1. b = a \cup {w} /\ w \notin a /\ w \in At("asleep") /\ a \in SUBSET Workers
      BY <1>2, <2>5, WorkFacts DEF SpuriousWake, At, Workplace
    <3>2. Backlog <= x
      BY <3>1 DEF WorkInv, NoLostWakeup
    <3> HIDE DEF a, b
    <3>3. y = x + 1 /\ x \in Nat
      BY <3>1, Gang, FS_AddElement
    <3> HIDE DEF x, y
    <3>4. Backlog' <= y
      BY <2>1, <3>2, <3>3
    <3> QED BY <3>4 DEF NoLostWakeup, y, b
  <2> QED BY <2>3, <2>4, <2>5
<1>11. WorkInv'
  BY <1>5, <1>6, <1>7, <1>8, <1>9, <1>10 DEF WorkInv
<1>12. \A q \in Positions : Waiting(q)' <=> Waiting(q)
  BY <1>1 DEF Waiting
<1> QED BY <1>1, <1>4, <1>11, <1>12

\* A result goes from a worker's hands into the channel.
LEMMA PublishResultKeeps ==
  ASSUME WorkInv, NEW w \in Workers, NEW ok \in BOOLEAN, PublishResult(w, ok)
  PROVE  /\ WorkInv' /\ ~stopped /\ ~stopped'
         /\ \E p \in Positions : /\ Running(p)
              /\ \A q \in Positions : /\ (Running(q)' <=> Running(q) /\ q # p) /\ (Waiting(q)' <=> Waiting(q))
                                    /\ (Came(q)' <=> Came(q) \/ q = p)
<1> DEFINE p == worker[w].pos
           r == [pos |-> p, gen |-> worker[w].gen, ok |-> ok]
           n == Len(ready)
<1>1. /\ UNCHANGED <<entry, ordinary, pending, stopped, failed, generation, failures, reported, phase>>
      /\ worker[w].at = "busy" /\ ~stopped /\ ready' = Append(ready, r)
      /\ worker' = [worker EXCEPT ![w].at = "awake", ![w].pos = NoPos]
  BY DEF PublishResult, queueVars, ownerVars
<1>2. p \in Positions /\ r \in Result /\ r.pos = p /\ r.gen = generation
  BY <1>1, WorkFacts DEF WorkInv, OfThisPool, Workplace, Result
<1>3. /\ worker' \in [Workers -> Workplace] /\ worker'[w].at = "awake" /\ worker'[w].pos = NoPos
      /\ worker'[w].gen = worker[w].gen /\ \A v \in Workers \ {w} : worker'[v] = worker[v]
  BY <1>1, WorkFacts DEF Workplace
<1> HIDE DEF r
<1>4. /\ ready' \in Seq(Result) /\ Len(ready') = n + 1 /\ \A i \in 1..n : ready'[i] = ready[i]
      /\ ready'[n + 1] = r /\ n \in Nat
  BY <1>1, <1>2, WorkFacts, AppendProperties
<1>5. Running(p) /\ ~Came(p) /\ p \notin ToSet(entry) /\ p \notin ToSet(ordinary)
  BY <1>2 DEF WorkInv, OnePlace, Running
<1>6. ASSUME NEW q \in Positions PROVE Running(q)' <=> Running(q) /\ q # p
  <2>1. ASSUME NEW v \in Workers, v # w, worker[v].pos = p PROVE FALSE
    BY <1>2, <2>1, JobsAssumption DEF WorkInv, OnePlace
  <2> QED BY <1>3, <2>1, JobsAssumption DEF Running
<1> HIDE DEF p, n
<1>7. ASSUME NEW q PROVE Came(q)' <=> Came(q) \/ q = p
  <2>1. Came(q) <=> \E i \in 1..n : ready[i].pos = q
    BY DEF Came, n
  <2>2. Came(q)' <=> \E i \in 1..(n + 1) : ready'[i].pos = q
    BY <1>4 DEF Came
  <2> QED BY <1>2, <1>4, <2>1, <2>2
<1>8. PoolTypeOK'
  BY <1>1, <1>3, <1>4, WorkFacts DEF PoolTypeOK, Workplace, Result
<1>9. OnePlace'
  <2>1. \A u, v \in Workers : worker'[u].pos = worker'[v].pos => u = v \/ worker'[u].pos = NoPos
    BY <1>3 DEF WorkInv, OnePlace
  <2>2. \A i \in 1..n : ready[i].pos # p
    BY <1>5 DEF Came, n
  <2>3. \A i, j \in 1..n : ready[i].pos = ready[j].pos => i = j
    BY DEF WorkInv, OnePlace, n
  <2>4. \A i, j \in 1..Len(ready') : ready'[i].pos = ready'[j].pos => i = j
    BY <1>2, <1>4, <2>2, <2>3
  <2>5. \A q \in Positions :
         /\ q \in ToSet(entry') => q \notin ToSet(ordinary')
         /\ Running(q)' => q \notin ToSet(entry') /\ q \notin ToSet(ordinary')
         /\ Came(q)' => q \notin ToSet(entry') /\ q \notin ToSet(ordinary') /\ ~Running(q)'
    BY <1>1, <1>5, <1>6, <1>7 DEF WorkInv, OnePlace
  <2> QED BY <1>1, <2>1, <2>4, <2>5 DEF WorkInv, OnePlace
<1>10. Counted'
  <2>1. \A q \in Positions :
         q \in pending' <=> q \in ToSet(entry') \/ q \in ToSet(ordinary') \/ Running(q)' \/ Came(q)'
    BY <1>1, <1>5, <1>6, <1>7 DEF WorkInv, Counted
  <2> QED BY <2>1 DEF Counted
<1>11. OfThisPool'
  <2>1. \A i \in 1..Len(ready') : ready'[i].gen = generation
    BY <1>2, <1>4 DEF WorkInv, OfThisPool, n
  <2> QED BY <1>1, <1>3, <2>1 DEF WorkInv, OfThisPool
<1>12. Halted' /\ FailureSuppressed'
  BY <1>1 DEF WorkInv, Halted, FailureSuppressed
<1>13. NoLostWakeup'
  <2> DEFINE a == At("awake")
             b == At("awake")'
             x == Cardinality(a)
             y == Cardinality(b)
  <2>1. b = a \cup {w} /\ w \notin a /\ At("asleep")' = At("asleep") /\ a \in SUBSET Workers
    BY <1>1, <1>3, WorkFacts DEF At, Workplace
  <2>2. At("asleep") # {} => Backlog <= x
    BY DEF WorkInv, NoLostWakeup
  <2>3. Backlog' = Backlog /\ Backlog \in Nat
    BY <1>1, WorkFacts DEF Backlog
  <2> HIDE DEF a, b
  <2>4. y = x + 1 /\ x \in Nat
    BY <2>1, Gang, FS_AddElement
  <2> HIDE DEF x, y
  <2>5. At("asleep")' # {} => Backlog' <= y
    BY <2>1, <2>2, <2>3, <2>4
  <2> QED BY <2>5 DEF NoLostWakeup, y, b
<1>14. WorkInv'
  BY <1>8, <1>9, <1>10, <1>11, <1>12, <1>13 DEF WorkInv
<1>15. \A q \in Positions : Waiting(q)' <=> Waiting(q)
  BY <1>1 DEF Waiting
<1> QED BY <1>1, <1>2, <1>5, <1>6, <1>7, <1>14, <1>15 DEF p

-----------------------------------------------------------------------------
(* The invariant of the pool. *)

LEMMA WorkStep ==
  ASSUME WorkInv, [PoolNext]_poolVars
  PROVE  WorkInv'
<1>1. CASE UNCHANGED poolVars
  BY <1>1 DEF poolVars, queueVars, ownerVars, WorkInv, PoolTypeOK, OnePlace, Running, Came, Counted,
              OfThisPool, Halted, NoLostWakeup, Backlog, At, FailureSuppressed
<1>2. ASSUME NEW p \in Positions, Promote(p) \/ Preempt(p) PROVE WorkInv'
  BY <1>2, PromoteKeeps, PreemptKeeps
<1>3. ASSUME NEW p \in Positions, NEW urgent \in BOOLEAN, Admit(p, urgent) PROVE WorkInv'
  BY <1>3, AdmitKeeps
<1>4. ASSUME NEW wanted \in SUBSET Positions, CancelQueued(wanted) PROVE WorkInv'
  BY <1>4, CancelKeeps
<1>5. CASE TryReady
  BY <1>5, TryReadyKeeps
<1>6. CASE TakeFailureNotification \/ Close
  BY <1>6, NotedKeeps
<1>7. ASSUME NEW goal \in {"reconfiguring", "closing"}, BeginShutdown(goal) PROVE WorkInv'
  BY <1>7, BeginShutdownKeeps
<1>8. ASSUME NEW spawned \in BOOLEAN, Restart(spawned) PROVE WorkInv'
  BY <1>8, RestartKeeps
<1>9. ASSUME NEW w \in Workers, Take(w) PROVE WorkInv'
  BY <1>9, TakeKeeps
<1>10. ASSUME NEW w \in Workers, Sleep(w) \/ SpuriousWake(w) \/ Exit(w) PROVE WorkInv'
  BY <1>10, RestKeeps
<1>11. ASSUME NEW w \in Workers, NEW ok \in BOOLEAN, PublishResult(w, ok) PROVE WorkInv'
  BY <1>11, PublishResultKeeps
<1>12. ASSUME NEW w \in Workers, Panic(w) PROVE WorkInv'
  BY <1>12, PanicKeeps
<1> QED BY <1>1, <1>2, <1>3, <1>4, <1>5, <1>6, <1>7, <1>8, <1>9, <1>10, <1>11, <1>12
        DEF PoolNext, Owner, WorkerStep, Closed

\* Of at most one there is one, or none.
LEMMA FewOne ==
  ASSUME NEW S, \A x, y \in S : x = y
  PROVE  Cardinality(S) = IF S = {} THEN 0 ELSE 1
<1>1. CASE S = {}
  BY <1>1, FS_EmptySet
<1>2. CASE S # {}
  <2>1. PICK x : S = {x}
    BY <1>2
  <2>2. Cardinality({x}) = 1
    BY FS_Singleton
  <2> QED BY <1>2, <2>1, <2>2
<1> QED BY <1>1, <1>2

LEMMA OneHomeHolds ==
  ASSUME WorkInv
  PROVE  OneHome
<1> SUFFICES ASSUME ~stopped, NEW p \in Positions PROVE Homes(p) = IF p \in pending THEN 1 ELSE 0
  BY DEF OneHome
<1> DEFINE E == {i \in DOMAIN entry : entry[i] = p}
           O == {i \in DOMAIN ordinary : ordinary[i] = p}
           W == {w \in Workers : worker[w].pos = p}
           R == {i \in DOMAIN ready : ready[i].pos = p}
<1>1. Cardinality(E) = IF p \in ToSet(entry) THEN 1 ELSE 0
  <2>1. (\A i, j \in E : i = j) /\ (E # {} <=> p \in ToSet(entry))
    BY WorkFacts, InQueue DEF WorkInv, OnePlace, Single
  <2> HIDE DEF E
  <2> QED BY <2>1, FewOne
<1>2. Cardinality(O) = IF p \in ToSet(ordinary) THEN 1 ELSE 0
  <2>1. (\A i, j \in O : i = j) /\ (O # {} <=> p \in ToSet(ordinary))
    BY WorkFacts, InQueue DEF WorkInv, OnePlace, Single
  <2> HIDE DEF O
  <2> QED BY <2>1, FewOne
<1>3. Cardinality(W) = IF Running(p) THEN 1 ELSE 0
  <2>1. (\A v, w \in W : v = w) /\ (W # {} <=> Running(p))
    BY JobsAssumption DEF WorkInv, OnePlace, Running
  <2> HIDE DEF W
  <2> QED BY <2>1, FewOne
<1>4. Cardinality(R) = IF Came(p) THEN 1 ELSE 0
  <2>1. DOMAIN ready = 1..Len(ready)
    BY WorkFacts, InQueue
  <2>2. (\A i, j \in R : i = j) /\ (R # {} <=> Came(p))
    BY <2>1 DEF WorkInv, OnePlace, Came
  <2> HIDE DEF R
  <2> QED BY <2>2, FewOne
<1>5. Homes(p) = Cardinality(E) + Cardinality(O) + Cardinality(W) + Cardinality(R)
  BY DEF Homes, Count
<1> HIDE DEF E, O, W, R
<1>6. /\ p \in ToSet(entry) => p \notin ToSet(ordinary)
      /\ Running(p) => p \notin ToSet(entry) /\ p \notin ToSet(ordinary)
      /\ Came(p) => p \notin ToSet(entry) /\ p \notin ToSet(ordinary) /\ ~Running(p)
      /\ p \in pending <=> p \in ToSet(entry) \/ p \in ToSet(ordinary) \/ Running(p) \/ Came(p)
  BY DEF WorkInv, OnePlace, Counted
<1> QED BY <1>1, <1>2, <1>3, <1>4, <1>5, <1>6

LEMMA WorkAlways == PoolSpec => []WorkInv
<1>1. WorkInv /\ [PoolNext]_poolVars => WorkInv'
  BY WorkStep
<1> QED BY <1>1, PoolInitHolds, PTL DEF PoolSpec

\* The books of the worker pool are exact, nobody sleeps while a position waits for a worker,
\* and a failed read is not retried while it is wanted, for any workers, positions and budget
\* (terrain_jobs/{queue,workers,mod}.rs).
THEOREM PoolIsSound == PoolSpec => []PoolInv
<1>1. WorkInv => PoolInv
  BY OneHomeHolds DEF WorkInv, PoolInv
<1> QED BY <1>1, WorkAlways, PTL

-----------------------------------------------------------------------------
(* The pool is a board of jobs. *)

LEMMA Stages ==
  WorkInv => \A p \in Positions :
    /\ stopped => Stage(p) = "idle"
    /\ ~stopped => /\ Stage(p) = IF Waiting(p) THEN "queued" ELSE IF Running(p) THEN "running"
                                 ELSE IF Came(p) THEN "ready" ELSE "idle"
                   /\ (p \in pending <=> Stage(p) # "idle")
                   /\ (Waiting(p) => ~Running(p)) /\ (Came(p) => ~Running(p) /\ ~Waiting(p))
<1> SUFFICES ASSUME WorkInv, NEW p \in Positions
             PROVE  /\ stopped => Stage(p) = "idle"
                    /\ ~stopped =>
                         /\ Stage(p) = IF Waiting(p) THEN "queued" ELSE IF Running(p) THEN "running"
                                       ELSE IF Came(p) THEN "ready" ELSE "idle"
                         /\ (p \in pending <=> Stage(p) # "idle")
                         /\ (Waiting(p) => ~Running(p)) /\ (Came(p) => ~Running(p) /\ ~Waiting(p))
  OBVIOUS
<1>1. stopped \in BOOLEAN /\ DOMAIN ready = 1..Len(ready)
  BY WorkFacts, InQueue
<1>2. stopped => Stage(p) = "idle"
  BY DEF Stage
<1>3. ASSUME ~stopped
      PROVE  /\ (Waiting(p) => ~Running(p)) /\ (Came(p) => ~Running(p) /\ ~Waiting(p))
             /\ p \in pending <=> Waiting(p) \/ Running(p) \/ Came(p)
  BY <1>3 DEF WorkInv, OnePlace, Counted, Waiting
<1>4. ASSUME ~stopped
      PROVE  Stage(p) = IF Waiting(p) THEN "queued" ELSE IF Running(p) THEN "running"
                        ELSE IF Came(p) THEN "ready" ELSE "idle"
  <2>1. /\ p \in Queued <=> Waiting(p)
        /\ (\E w \in Workers : worker[w].pos = p) <=> Running(p)
        /\ (\E i \in DOMAIN ready : ready[i].pos = p) <=> Came(p)
    BY <1>1 DEF Queued, Waiting, Running, Came
  <2>2. CASE Waiting(p)
    BY <1>3, <1>4, <2>1, <2>2 DEF Stage
  <2>3. CASE Running(p)
    BY <1>3, <1>4, <2>1, <2>3 DEF Stage
  <2>4. CASE Came(p)
    BY <1>3, <1>4, <2>1, <2>4 DEF Stage
  <2>5. CASE ~Waiting(p) /\ ~Running(p) /\ ~Came(p)
    BY <1>4, <2>1, <2>5 DEF Stage
  <2> QED BY <1>3, <1>4, <2>2, <2>3, <2>4, <2>5
<1> QED BY <1>1, <1>2, <1>3, <1>4

\* One position goes from one stage to the next.
Goes(p, to) ==
  \A q \in Positions : Stage(q)' = IF q = p THEN to ELSE Stage(q)

LEMMA MoveStep ==
  ASSUME NEW p \in Positions, NEW from, NEW to, ~stopped, ~stopped', Stage(p) = from, Goes(p, to)
  PROVE  Board!Move(p, from, to)
<1> DEFINE job == [q \in Positions |-> Stage(q)]
<1>1. job' = [job EXCEPT ![p] = to]
  BY DEF Goes
<1> QED BY <1>1 DEF Board!Move

LEMMA StayStep ==
  ASSUME stopped' = stopped, \A q \in Positions : Stage(q)' = Stage(q)
  PROVE  UNCHANGED Board!boardVars
BY DEF Board!boardVars

LEMMA CloseStep ==
  ASSUME stopped', \A q \in Positions : Stage(q)' = "idle"
  PROVE  Board!Close
BY DEF Board!Close, Board!AllIdle

\* Every step of the pool is a step of the board, or none.
LEMMA BoardStep ==
  ASSUME WorkInv, [PoolNext]_poolVars
  PROVE  [Board!Next]_(Board!boardVars)
<1>0. WorkInv' /\ WorkInv /\ stopped \in BOOLEAN /\ stopped' \in BOOLEAN
  <2>1. WorkInv'
    BY WorkStep
  <2>2. stopped \in BOOLEAN
    BY WorkFacts
  <2>3. stopped' \in BOOLEAN
    BY <2>1 DEF WorkInv, PoolTypeOK
  <2> QED BY <2>1, <2>2, <2>3
<1>s. /\ \A p \in Positions :
           /\ stopped => Stage(p) = "idle"
           /\ ~stopped => /\ Stage(p) = IF Waiting(p) THEN "queued" ELSE IF Running(p) THEN "running"
                                        ELSE IF Came(p) THEN "ready" ELSE "idle"
                          /\ (p \in pending <=> Stage(p) # "idle")
                          /\ (Waiting(p) => ~Running(p)) /\ (Came(p) => ~Running(p) /\ ~Waiting(p))
  BY Stages
<1>t. /\ \A p \in Positions :
           /\ stopped' => Stage(p)' = "idle"
           /\ ~stopped' => /\ Stage(p)' = IF Waiting(p)' THEN "queued" ELSE IF Running(p)' THEN "running"
                                          ELSE IF Came(p)' THEN "ready" ELSE "idle"
                           /\ (Waiting(p)' => ~Running(p)') /\ (Came(p)' => ~Running(p)' /\ ~Waiting(p)')
  <2>1. (WorkInv => \A p \in Positions :
    /\ stopped => Stage(p) = "idle"
    /\ ~stopped => /\ Stage(p) = IF Waiting(p) THEN "queued" ELSE IF Running(p) THEN "running"
                                 ELSE IF Came(p) THEN "ready" ELSE "idle"
                   /\ (p \in pending <=> Stage(p) # "idle")
                   /\ (Waiting(p) => ~Running(p)) /\ (Came(p) => ~Running(p) /\ ~Waiting(p)))'
    BY Stages, PTL
  <2> QED BY <1>0, <2>1
<1> HIDE DEF Stage, Waiting, Running, Came, WorkInv
<1>a. ASSUME stopped' = stopped,
             ~stopped => \A q \in Positions : /\ (Running(q)' <=> Running(q)) /\ (Came(q)' <=> Came(q))
                                              /\ (Waiting(q)' <=> Waiting(q))
      PROVE  UNCHANGED Board!boardVars
  <2>1. \A q \in Positions : Stage(q)' = Stage(q)
    BY <1>0, <1>a, <1>s, <1>t
  <2> QED BY <1>a, <2>1, StayStep
<1>1. CASE UNCHANGED poolVars
  <2>1. stopped' = stopped /\ \A q \in Positions : /\ (Running(q)' <=> Running(q)) /\ (Came(q)' <=> Came(q))
                                                   /\ (Waiting(q)' <=> Waiting(q))
    BY <1>1 DEF poolVars, queueVars, ownerVars, Running, Came, Waiting
  <2> QED BY <1>a, <2>1
<1>2. ASSUME NEW p \in Positions, Promote(p) PROVE UNCHANGED Board!boardVars
  BY <1>0, <1>2, <1>a, PromoteKeeps
<1>3. ASSUME NEW p \in Positions, NEW urgent \in BOOLEAN, Admit(p, urgent) PROVE Board!Request(p)
  <2>1. /\ ~stopped /\ ~stopped'
        /\ \A q \in Positions : /\ (Running(q)' <=> Running(q)) /\ (Came(q)' <=> Came(q))
                                /\ (Waiting(q)' <=> Waiting(q) \/ q = p)
    BY <1>0, <1>3, AdmitKeeps
  <2>2. p \notin pending /\ Cardinality(pending) < Limit
    BY <1>3 DEF Admit
  <2>3. Stage(p) = "idle"
    BY <1>s, <2>1, <2>2
  <2>4. Goes(p, "queued")
    BY <1>s, <1>t, <2>1 DEF Goes
  <2>5. Board!Held = pending
    <3>1. pending \in SUBSET Positions
      BY <1>0, WorkFacts
    <3>2. \A q \in Positions : q \in pending <=> Stage(q) # "idle"
      BY <1>s, <2>1
    <3>3. Board!Held = {q \in Positions : Stage(q) # "idle"}
      BY DEF Board!Held
    <3> QED BY <3>1, <3>2, <3>3
  <2>6. Board!Move(p, "idle", "queued")
    BY <2>1, <2>3, <2>4, MoveStep
  <2>7. Board!Cardinality(pending) = Cardinality(pending)
    BY DEF Board!Cardinality, Cardinality
  <2> HIDE DEF Board!Move
  <2> QED BY <2>2, <2>5, <2>6, <2>7 DEF Board!Request
<1>4. ASSUME NEW p \in Positions, Preempt(p) PROVE \E k \in Positions : Board!Displace(p, k)
  <2> DEFINE k == Last(ordinary)
             job == [q \in Positions |-> Stage(q)]
  <2>1. /\ ~stopped /\ ~stopped' /\ k \in Positions /\ Waiting(k)
        /\ \A q \in Positions : /\ (Running(q)' <=> Running(q)) /\ (Came(q)' <=> Came(q))
                                /\ (Waiting(q)' <=> (Waiting(q) /\ q # k) \/ q = p)
    BY <1>0, <1>4, PreemptKeeps
  <2>2. p \notin pending
    BY <1>4 DEF Preempt
  <2> HIDE DEF k
  <2>3. Stage(p) = "idle" /\ Stage(k) = "queued"
    BY <1>s, <2>1, <2>2
  <2>4. \A q \in Positions : Stage(q)' = IF q = k THEN "idle" ELSE IF q = p THEN "queued" ELSE Stage(q)
    BY <1>s, <1>t, <2>1, <2>3
  <2>5. job' = [job EXCEPT ![p] = "queued", ![k] = "idle"]
    BY <2>4
  <2> QED BY <2>1, <2>3, <2>5 DEF Board!Displace
<1>5. ASSUME NEW wanted \in SUBSET Positions, CancelQueued(wanted)
      PROVE  UNCHANGED Board!boardVars \/ \E S \in SUBSET Positions : Board!Cancel(S)
  <2>1. /\ stopped' = stopped
        /\ ~stopped => \A q \in Positions :
             /\ (Running(q)' <=> Running(q)) /\ (Came(q)' <=> Came(q))
             /\ (Waiting(q)' <=> Waiting(q) /\ q \in wanted)
    BY <1>0, <1>5, CancelKeeps
  <2>2. CASE stopped
    BY <1>a, <2>1, <2>2
  <2>3. CASE ~stopped
    <3> DEFINE S == {q \in Positions : Waiting(q) /\ q \notin wanted}
               job == [q \in Positions |-> Stage(q)]
    <3>1. \A q \in S : job[q] = "queued"
      BY <1>s, <2>3
    <3>2. \A q \in Positions : Stage(q)' = IF q \in S THEN "idle" ELSE Stage(q)
      BY <1>s, <1>t, <2>1, <2>3
    <3>3. job' = [q \in Positions |-> IF q \in S THEN "idle" ELSE job[q]]
      BY <3>2
    <3>4. Board!Cancel(S)
      BY <2>1, <2>3, <3>1, <3>3 DEF Board!Cancel
    <3> QED BY <3>4
  <2> QED BY <2>2, <2>3
<1>6. ASSUME TryReady PROVE UNCHANGED Board!boardVars \/ \E p \in Positions : Board!Hand(p)
  <2>1. stopped' = stopped
    BY <1>0, <1>6, TryReadyKeeps
  <2>2. PICK p \in Positions :
          /\ Came(p)
          /\ \A q \in Positions : /\ (Running(q)' <=> Running(q)) /\ (Waiting(q)' <=> Waiting(q))
                                  /\ (Came(q)' <=> Came(q) /\ q # p)
    BY <1>0, <1>6, TryReadyKeeps
  <2>3. CASE stopped
    BY <1>a, <2>1, <2>3
  <2>4. CASE ~stopped
    <3>1. Stage(p) = "ready"
      BY <1>s, <2>2, <2>4
    <3>2. Goes(p, "idle")
      BY <1>s, <1>t, <2>1, <2>2, <2>4 DEF Goes
    <3> QED BY <2>1, <2>4, <3>1, <3>2, MoveStep DEF Board!Hand
  <2> QED BY <2>3, <2>4
<1>7. ASSUME TakeFailureNotification \/ Close PROVE UNCHANGED Board!boardVars
  <2>1. CASE TakeFailureNotification
    <3>1. stopped' = stopped /\ \A q \in Positions : /\ (Running(q)' <=> Running(q)) /\ (Came(q)' <=> Came(q))
                                                     /\ (Waiting(q)' <=> Waiting(q))
      BY <2>1 DEF TakeFailureNotification, queueVars, Running, Came, Waiting
    <3> QED BY <1>a, <3>1
  <2>2. CASE Close
    <3>1. stopped' = stopped /\ stopped
      BY <1>0, <2>2 DEF Close, queueVars, WorkInv, Halted
    <3> QED BY <1>a, <3>1
  <2> QED BY <1>7, <2>1, <2>2
<1>8. ASSUME EmptyQueue PROVE Board!Close
  <2>1. stopped'
    BY <1>8 DEF EmptyQueue
  <2> QED BY <1>t, <2>1, CloseStep
<1>9. ASSUME NEW spawned \in BOOLEAN, Restart(spawned) PROVE UNCHANGED Board!boardVars \/ Board!Reopen
  <2> DEFINE job == [q \in Positions |-> Stage(q)]
  <2>1. stopped /\ stopped' = ~spawned /\ pending' = {} /\ ready' = <<>> /\ entry' = <<>> /\ ordinary' = <<>>
    BY <1>0, <1>9 DEF Restart, WorkInv, Halted
  <2>2. CASE ~spawned
    BY <1>a, <2>1, <2>2
  <2>3. CASE spawned
    <3>1. ~stopped'
      BY <2>1, <2>3
    <3>2. \A q \in Positions : Stage(q)' = "idle"
      <4>1. (WorkInv => \A p \in Positions :
    /\ stopped => Stage(p) = "idle"
    /\ ~stopped => /\ Stage(p) = IF Waiting(p) THEN "queued" ELSE IF Running(p) THEN "running"
                                 ELSE IF Came(p) THEN "ready" ELSE "idle"
                   /\ (p \in pending <=> Stage(p) # "idle")
                   /\ (Waiting(p) => ~Running(p)) /\ (Came(p) => ~Running(p) /\ ~Waiting(p)))'
        BY Stages, PTL
      <4>2. \A q \in Positions : q \in pending' <=> Stage(q)' # "idle"
        BY <1>0, <3>1, <4>1
      <4> QED BY <2>1, <4>2
    <3>3. job' = Board!AllIdle
      BY <3>2 DEF Board!AllIdle
    <3> QED BY <2>1, <3>1, <3>3 DEF Board!Reopen
  <2> QED BY <2>2, <2>3
<1>10. ASSUME NEW w \in Workers, Take(w) PROVE \E p \in Positions : Board!Begin(p)
  <2>1. ~stopped /\ ~stopped'
    BY <1>0, <1>10, TakeKeeps
  <2>2. PICK p \in Positions :
          /\ Waiting(p)
          /\ \A q \in Positions : /\ (Running(q)' <=> Running(q) \/ q = p) /\ (Came(q)' <=> Came(q))
                                  /\ (Waiting(q)' <=> Waiting(q) /\ q # p)
    BY <1>0, <1>10, TakeKeeps
  <2>3. Stage(p) = "queued"
    BY <1>s, <2>1, <2>2
  <2>4. Goes(p, "running")
    BY <1>s, <1>t, <2>1, <2>2 DEF Goes
  <2> QED BY <2>1, <2>3, <2>4, MoveStep DEF Board!Begin
<1>11. ASSUME NEW w \in Workers, Sleep(w) \/ SpuriousWake(w) \/ Exit(w) PROVE UNCHANGED Board!boardVars
  BY <1>0, <1>11, <1>a, RestKeeps
<1>12. ASSUME NEW w \in Workers, NEW ok \in BOOLEAN, PublishResult(w, ok)
       PROVE  \E p \in Positions : Board!Finish(p)
  <2>1. ~stopped /\ ~stopped'
    BY <1>0, <1>12, PublishResultKeeps
  <2>2. PICK p \in Positions :
          /\ Running(p)
          /\ \A q \in Positions : /\ (Running(q)' <=> Running(q) /\ q # p) /\ (Waiting(q)' <=> Waiting(q))
                                  /\ (Came(q)' <=> Came(q) \/ q = p)
    BY <1>0, <1>12, PublishResultKeeps
  <2>3. Stage(p) = "running"
    BY <1>s, <2>1, <2>2
  <2>4. Goes(p, "ready")
    BY <1>s, <1>t, <2>1, <2>2 DEF Goes
  <2> QED BY <2>1, <2>3, <2>4, MoveStep DEF Board!Finish
<1>13. ASSUME PoolNext PROVE Board!Next \/ UNCHANGED Board!boardVars
  <2>1. ASSUME NEW p \in Positions, Promote(p) PROVE Board!Next \/ UNCHANGED Board!boardVars
    BY <1>2, <2>1
  <2>2. ASSUME NEW p \in Positions, Preempt(p) PROVE Board!Next
    BY <1>4, <2>2 DEF Board!Next
  <2>3. ASSUME NEW p \in Positions, NEW urgent \in BOOLEAN, Admit(p, urgent) PROVE Board!Next
    BY <1>3, <2>3 DEF Board!Next
  <2>4. ASSUME NEW wanted \in SUBSET Positions, CancelQueued(wanted) PROVE Board!Next \/ UNCHANGED Board!boardVars
    BY <1>5, <2>4 DEF Board!Next
  <2>5. ASSUME TryReady PROVE Board!Next \/ UNCHANGED Board!boardVars
    BY <1>6, <2>5 DEF Board!Next
  <2>6. ASSUME NEW goal \in {"reconfiguring", "closing"}, BeginShutdown(goal) PROVE Board!Next
    BY <1>8, <2>6 DEF Board!Next, BeginShutdown
  <2>7. ASSUME NEW spawned \in BOOLEAN, Restart(spawned) PROVE Board!Next \/ UNCHANGED Board!boardVars
    BY <1>9, <2>7 DEF Board!Next
  <2>8. ASSUME NEW w \in Workers, Take(w) PROVE Board!Next
    BY <1>10, <2>8 DEF Board!Next
  <2>9. ASSUME NEW w \in Workers, Sleep(w) \/ SpuriousWake(w) \/ Exit(w) PROVE UNCHANGED Board!boardVars
    BY <1>11, <2>9
  <2>10. ASSUME NEW w \in Workers, NEW ok \in BOOLEAN, PublishResult(w, ok) PROVE Board!Next
    BY <1>12, <2>10 DEF Board!Next
  <2>11. ASSUME NEW w \in Workers, Panic(w) PROVE Board!Next
    BY <1>8, <2>11 DEF Board!Next, Panic
  <2>12. CASE Closed
    BY <1>1, <2>12 DEF Closed
  <2>13. CASE TakeFailureNotification \/ Close
    BY <1>7, <2>13
  <2> HIDE DEF Board!Next
  <2> QED BY <1>13, <2>1, <2>2, <2>3, <2>4, <2>5, <2>6, <2>7, <2>8, <2>9, <2>10, <2>11, <2>12, <2>13
          DEF PoolNext, Owner, WorkerStep
<1> QED BY <1>1, <1>13

\* The worker pool is a job board for any workers, positions and budget: a position moves
\* through it in order and is handed over once, within the budget, and only work that has
\* not begun is displaced or cancelled (terrain_jobs/{queue,workers,mod}.rs).
THEOREM PoolIsABoard == PoolSpec => ImplementsBoard
<1>1. PoolInit => Board!Init
  <2> SUFFICES ASSUME PoolInit PROVE Board!Init
    OBVIOUS
  <2>1. ~stopped /\ pending = {}
    BY DEF PoolInit
  <2>2. WorkInv
    BY PoolInitHolds
  <2>3. \A p \in Positions : Stage(p) = "idle"
    BY <2>1, <2>2, Stages
  <2> QED BY <2>1, <2>3 DEF Board!Init, Board!AllIdle
<1>2. WorkInv /\ [PoolNext]_poolVars => [Board!Next]_(Board!boardVars)
  BY BoardStep
<1> QED BY <1>1, <1>2, WorkAlways, PTL DEF PoolSpec, ImplementsBoard, Board!Spec
===============================================================================
