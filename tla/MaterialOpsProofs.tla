---------------------------- MODULE MaterialOpsProofs ----------------------------
(***************************************************************************)
(* Proofs about MaterialOps: whatever write the process dies before, the   *)
(* ledger and the chunk on disk are one book, for any cells, any number of *)
(* operations, losses, saves and crashes.                                  *)
(***************************************************************************)
EXTENDS MaterialOps, FiniteSetTheorems, WellFoundedInduction, TLAPS

\* Failures the code reports before anything else was written.
CleanFailures == {"checkpoint", "journal"}

Ops       == Actions \ {Loss}
Ledgers   == [next : Nat, applied : Nat, seq : Nat, reserved : {None} \cup Nat,
              placed : SUBSET Cells, lost : Nat]
Ore(v)    == {c \in Cells : v[c] = "ore"}
Final(s)  == s[Len(s)]
Down      == call \in {"down", "refused"}
Opening   == step \in {"snapshot", "clear", "tidy", "journal"}   \* before an edit has an id

-----------------------------------------------------------------------------
(* The files. *)

Sane(l) ==
  /\ l \in Ledgers
  /\ l.next > 0 /\ l.applied < l.next /\ l.seq <= l.applied + l.lost
  /\ l.reserved \in {None} \cup 0..Cardinality(Cells)

\* A log that continues a ledger without a gap, or that the ledger has already.
LastOf(l, log) == IF log = <<>> THEN l.seq ELSE log[Len(log)].seq
Orderly(l, log) ==
  /\ \A i \in 1..Len(log) : log[i].seq <= LastOf(l, log)
  /\ \A i \in 1..Len(log) : ~(log[i].seq > Replay(l, log)[i - 1].seq + 1)
  /\ Replay(l, log)[Len(log)].seq = LastOf(l, log)

Files == [chunk : {None} \cup Voxels, ledger : Ledgers, log : Seq(Deltas), torn : BOOLEAN,
          pending : {None} \cup Deltas, journal : {None} \cup Ops,
          coordinator : {None} \cup Seq(Deltas)]

\* A delta that the ledger can take.
Fit(l, a) ==
  a # Loss => a.id > l.applied /\ (a.kind = "mine" => l.reserved \in Nat \ {0})

\* The ledger that files d hold, and the one that a start would make of them.
Base(d)     == Replay(d.ledger, d.log)[Len(d.log)]
Ahead(d)    == d.pending # None /\ d.pending.seq = LastSeq(d) + 1
Forecast(d) ==
  IF d.coordinator # None THEN ApplyDelta(Base(d), Final(d.coordinator))
  ELSE IF Ahead(d) THEN ApplyDelta(Base(d), d.pending) ELSE Base(d)

WellKept(d) ==
  /\ d \in Files
  /\ Orderly(d.ledger, d.log) /\ Sane(d.ledger) /\ Sane(Base(d))
  /\ d.torn => Ahead(d)
  /\ d.pending # None =>
       \/ Ahead(d) /\ Fit(Base(d), d.pending.action)
       \/ d.log # <<>> /\ d.pending = Final(d.log)
  /\ d.coordinator # None =>
       /\ d.pending = None
       /\ d.coordinator # <<>> /\ Final(d.coordinator).seq = LastSeq(d) + 1
       /\ d.coordinator = Append(d.log, Final(d.coordinator))
       /\ Fit(Base(d), Final(d.coordinator).action)

Kept  == Base(disk)
Whole == Forecast(disk)
FilesOK == WellKept(disk)

LedgersOK ==
  /\ budget \in [ops : Nat, losses : Nat, edits : Nat, saves : Nat, crashes : Nat]
  /\ Sane(ledger) /\ Sane(Whole)
  /\ ledger.next + budget.ops <= MaxOps + 1
  /\ call = "edit" /\ Opening => ledger.next + budget.ops <= MaxOps
  /\ Whole.next + budget.ops <= MaxOps + 1 /\ Kept.next <= MaxOps + 1
  /\ disk.ledger.next <= MaxOps + 1 /\ disk.ledger.lost <= MaxLosses
  /\ Kept.lost <= MaxLosses /\ Whole.lost + budget.losses <= MaxLosses
  /\ op = Loss /\ step \notin {"append", "unpend", "linked"} =>
       Whole.lost + budget.losses < MaxLosses

-----------------------------------------------------------------------------
(* The handlers. *)

Course ==
  /\ call \in Handlers /\ step \in {None} \cup Writes /\ dirty \in BOOLEAN
  /\ (step = None) <=> call \in {"idle", "down", "refused"}
  /\ step \in {"journal", "voxel", "chunk"} => call = "edit"
  /\ step \in {"delta", "finish"} => call \in {"edit", "boot"}
  /\ step \in {"pending", "append", "unpend"} => call \in {"edit", "boot", "loss"}
  /\ step \in {"snapshot", "clear", "tidy"} =>
       call \in {"edit", "loss", "link", "save"} \/ (call = "boot" /\ Natural = {})
  /\ step = "world" => call = "save"
  /\ step \in {"stage", "linked"} => call = "link"
  /\ step \in {"read", "replay"} => call = "boot"
  /\ call \in {"idle", "save", "down", "refused"} \/ step \in {"read", "replay"} => op = None
  /\ call \in {"loss", "link"} => op = Loss
  /\ call = "edit" => op \in Ops /\ chunk # None /\ (op.id = 0 <=> Opening)
  /\ call = "boot" /\ step \notin {"read", "replay"} => op \in Ops /\ op.id # 0 /\ chunk # None
  /\ call \in {"idle", "loss", "link", "save"} \/ (call = "edit" /\ Opening) =>
       disk.journal = None
  /\ op \in Ops /\ op.id # 0 => disk.journal = op
  /\ ~Down =>
       /\ ~disk.torn
       /\ disk.pending # None => step \in {"append", "unpend", "read"}
       /\ disk.coordinator # None => step = "linked"
       /\ step = "append" => disk.pending = Delta(ledger, op)
       /\ step \in {"unpend", "read"} /\ disk.pending # None =>
            disk.log # <<>> /\ disk.pending = Final(disk.log)
       /\ step = "linked" => disk.coordinator = Append(disk.log, Delta(ledger, op))
  /\ call = "refused" => Estranged /\ chunk \in Voxels /\ ledger.lost = Kept.lost
  /\ call = "down" \/ step = "read" => ledger = Fresh
  /\ Down \/ step = "read" => ~dirty
  /\ call = "down" \/ step \in {"read", "replay"} => chunk = None

\* A start that adopts a placement the ledger has not seen, in a chunk that had none of
\* the kind, takes the placed block for a natural one.
Miscounting ==
  Natural = {} /\ call = "boot" /\ step = "delta" /\ op.id > ledger.applied

\* Memory has what the files have, or a reservation that was not written yet.
Memory ==
  ~Down /\ step # "read" =>
    /\ \A part \in {"applied", "placed", "lost", "seq"} : ledger[part] = Kept[part]
    /\ \/ ledger.reserved = Kept.reserved
       \/ /\ dirty /\ Kept.reserved = None
          /\ IF Natural = {} THEN call = "boot" /\ step \in {"delta", "snapshot"} /\ ledger.reserved = 1
             ELSE step \in {None, "snapshot", "world"} /\ ledger.reserved = Cardinality(Natural)
    /\ dirty => step \in {None, "snapshot", "clear", "tidy", "world"} \/ Miscounting
    /\ step \in {"clear", "tidy"} => Kept = ledger /\ disk.ledger = ledger
    /\ step = "tidy" => disk.log = <<>>
    /\ chunk # None =>
         /\ chunk \in Voxels /\ (Natural # {} => ledger.reserved # None)
         /\ step # "chunk" => Ore(chunk) = Ore(Saved)

-----------------------------------------------------------------------------
(* The book. *)

Sides(o) ==
  /\ o.kind \in {"mine", "break"} => o.before = "ore" /\ o.after = "air"
  /\ o.kind = "place" => o.before \in {"air", "plain"} /\ o.after = "ore"

\* The operation o is one that a ledger l with the blocks "ore" has yet to see.
Awaits(l, ore, o) ==
  /\ o.kind = "mine"  => o.cell \in ore \ l.placed
  /\ o.kind = "break" => o.cell \in l.placed
  /\ o.kind = "place" => o.cell \notin ore

\* The ledger's blocks: those of the chunk on disk before the operation it has yet to see.
Unseen  == disk.journal # None /\ disk.journal.id > Whole.applied
Entered ==
  IF ~Unseen THEN Ore(Saved)
  ELSE IF disk.journal.before = "ore" THEN Ore(Saved) \cup {disk.journal.cell}
       ELSE Ore(Saved) \ {disk.journal.cell}

\* Each of them is placed or reserved.  In a chunk that had none all are placed, and one
\* may be reserved as well.
Balance ==
  /\ Whole.placed \subseteq Entered
  /\ IF Natural = {} THEN Entered = Whole.placed /\ {Whole.reserved, Kept.reserved} \subseteq {None, 1}
     ELSE Whole.reserved = Cardinality(Entered \ Whole.placed)

Accounts ==
  /\ IF Natural # {} /\ Whole.reserved = None
     THEN Whole.placed = {} /\ Ore(Saved) = Natural /\ disk.journal = None
     ELSE Balance
  /\ disk.journal # None =>
       /\ Sides(disk.journal) /\ disk.journal.id > 0
       /\ disk.journal.id + budget.ops <= MaxOps
       /\ Unseen => Awaits(Whole, Entered, disk.journal)
       /\ ~Unseen => Saved[disk.journal.cell] = disk.journal.after
       /\ disk.journal.before = "ore" => Saved[disk.journal.cell] \in {"ore", "air"}

\* Where the edit under way stands.
Progress ==
  /\ call = "edit" /\ (Opening \/ step = "voxel") =>
       /\ Sides(op) /\ chunk[op.cell] = op.before /\ Awaits(ledger, Ore(chunk), op)
  /\ step \in {"voxel", "chunk"} => Unseen /\ Saved[op.cell] # op.after
  /\ step = "chunk" =>
       /\ chunk[op.cell] = op.after
       /\ Ore(chunk) = IF op.after = "ore" THEN Ore(Saved) \cup {op.cell}
                       ELSE Ore(Saved) \ {op.cell}
  /\ step \in {"delta", "pending", "append", "unpend"} /\ op # Loss =>
       Saved[op.cell] = op.after
  /\ call = "boot" /\ Opening => Saved[op.cell] = op.after
  /\ (step \in {"pending", "append"} /\ op # Loss) \/ (call = "boot" /\ Opening) =>
       op.id > ledger.applied
  /\ step \in {"unpend", "finish"} /\ op # Loss => ~Unseen \/ Saved[op.cell] # op.after

IInv == FilesOK /\ LedgersOK /\ Course /\ Memory /\ Accounts /\ Progress

-----------------------------------------------------------------------------
(* Sequences of deltas, replayed.  The naturals are well ordered, so that a *)
(* claim about every position that is false has a least counterexample.    *)

LEMMA Least ==
  ASSUME NEW S \in SUBSET Nat, S # {}
  PROVE  \E n \in S : \A m \in S : n <= m
<1>1. PICK n \in S : \A m \in S : <<m, n>> \notin OpToRel(<, Nat)
  BY NatLessThanWellFounded, WFMin
<1>2. \A m \in S : ~(m < n)
  BY <1>1 DEF OpToRel
<1> QED BY <1>2

\* Each ledger of a replay follows from the one before it.
Steps(f, m, l, records) ==
  /\ DOMAIN f = 0..m /\ f[0] = l
  /\ \A i \in 1..m : f[i] = Follow(f[i - 1], records[i])

LEMMA SomeSteps ==
  ASSUME NEW l, NEW records, NEW n \in Nat
  PROVE  \E f : Steps(f, n, l, records)
<1> DEFINE bad == {m \in 0..n : \A f : ~Steps(f, m, l, records)}
<1>1. 0 \notin bad
  <2>1. Steps([i \in 0..0 |-> l], 0, l, records)
    BY DEF Steps
  <2> QED BY <2>1
<1>2. ASSUME NEW m \in 1..n, NEW f, Steps(f, m - 1, l, records)
      PROVE  \E g : Steps(g, m, l, records)
  <2> DEFINE g == [i \in 0..m |-> IF i = m THEN Follow(f[m - 1], records[m]) ELSE f[i]]
  <2>1. DOMAIN g = 0..m /\ g[0] = l
    BY <1>2 DEF Steps
  <2>2. \A i \in 1..m : g[i] = Follow(g[i - 1], records[i])
    BY <1>2 DEF Steps
  <2> QED BY <2>1, <2>2 DEF Steps
<1>3. bad = {}
  <2> SUFFICES ASSUME bad # {} PROVE FALSE
    OBVIOUS
  <2>1. bad \in SUBSET Nat
    OBVIOUS
  <2>2. PICK m \in bad : \A k \in bad : m <= k
    <3> HIDE DEF bad
    <3> QED BY <2>1, Least
  <2>3. m \in 1..n /\ m - 1 \in 0..n /\ m - 1 \notin bad
    <3>1. bad \subseteq 0..n
      OBVIOUS
    <3> HIDE DEF bad
    <3> QED BY <1>1, <2>2, <3>1
  <2>4. PICK f : Steps(f, m - 1, l, records)
    BY <2>3
  <2>5. \E g : Steps(g, m, l, records)
    BY <1>2, <2>3, <2>4
  <2> QED BY <2>2, <2>5
<1> QED BY <1>3

LEMMA SameSteps ==
  ASSUME NEW f, NEW g, NEW l, NEW records, NEW n \in Nat, NEW m \in Nat, NEW k \in Nat,
         Steps(f, n, l, records), Steps(g, m, l, records), k <= n, k <= m
  PROVE  f[k] = g[k]
<1> DEFINE bad == {i \in 0..k : f[i] # g[i]}
<1> SUFFICES ASSUME bad # {} PROVE FALSE
  OBVIOUS
<1>1. bad \in SUBSET Nat
  OBVIOUS
<1>2. PICK i \in bad : \A j \in bad : i <= j
  <2> HIDE DEF bad
  <2> QED BY <1>1, Least
<1>3. i # 0
  BY DEF Steps
<1>4. i \in 1..n /\ i \in 1..m /\ i - 1 \in 0..k /\ i - 1 \notin bad
  BY <1>2, <1>3
<1> QED BY <1>4 DEF Steps

LEMMA ReplaySteps ==
  ASSUME NEW l, NEW records \in Seq(Deltas)
  PROVE  Steps(Replay(l, records), Len(records), l, records)
<1> DEFINE n == Len(records)
           Next1(f) == [i \in 0..n |-> IF i = 0 THEN l ELSE Follow(f[i - 1], records[i])]
           after == CHOOSE f : f = Next1(f)
<1>1. n \in Nat
  OBVIOUS
<1>2. PICK f : Steps(f, n, l, records)
  BY <1>1, SomeSteps
<1>3. DEFINE g == [i \in 0..n |-> f[i]]
<1>4. g = Next1(g)
  <2>1. \A i \in 0..n : g[i] = IF i = 0 THEN l ELSE Follow(g[i - 1], records[i])
    BY <1>1, <1>2 DEF Steps
  <2> QED BY <2>1
<1>5. after = Next1(after)
  <2> HIDE DEF Next1, g
  <2> QED BY <1>4
<1>6. Replay(l, records) = after
  BY DEF Replay
<1> HIDE DEF after
<1>7. DOMAIN after = 0..n /\ \A i \in 0..n : after[i] = IF i = 0 THEN l ELSE Follow(after[i - 1], records[i])
  BY <1>5
<1> QED BY <1>1, <1>6, <1>7 DEF Steps

LEMMA ReplayAppended ==
  ASSUME NEW l, NEW records \in Seq(Deltas), NEW r \in Deltas
  PROVE  /\ \A i \in 0..Len(records) : Replay(l, Append(records, r))[i] = Replay(l, records)[i]
         /\ Replay(l, Append(records, r))[Len(records) + 1]
              = Follow(Replay(l, records)[Len(records)], r)
<1> DEFINE n == Len(records)
           f == Replay(l, records)
           g == Replay(l, Append(records, r))
<1>1. n \in Nat /\ Append(records, r) \in Seq(Deltas) /\ Len(Append(records, r)) = n + 1
      /\ Append(records, r)[n + 1] = r /\ \A i \in 1..n : Append(records, r)[i] = records[i]
  OBVIOUS
<1>2. Steps(f, n, l, records) /\ Steps(g, n + 1, l, Append(records, r))
  BY <1>1, ReplaySteps
<1>3. Steps([i \in 0..n |-> g[i]], n, l, records)
  BY <1>1, <1>2 DEF Steps
<1>4. \A i \in 0..n : g[i] = f[i]
  BY <1>1, <1>2, <1>3, SameSteps
<1>5. g[n + 1] = Follow(g[n], r)
  BY <1>1, <1>2 DEF Steps
<1> QED BY <1>1, <1>4, <1>5

LEMMA ReplayStale ==
  ASSUME NEW l, NEW records \in Seq(Deltas),
         \A i \in 1..Len(records) : records[i].seq <= l.seq
  PROVE  \A i \in 0..Len(records) : Replay(l, records)[i] = l
<1> DEFINE n == Len(records)
<1>1. n \in Nat
  OBVIOUS
<1>2. Steps(Replay(l, records), n, l, records)
  BY ReplaySteps
<1>3. Steps([i \in 0..n |-> l], n, l, records)
  BY <1>1 DEF Steps, Follow
<1>4. \A i \in 0..n : Replay(l, records)[i] = [j \in 0..n |-> l][i]
  BY <1>1, <1>2, <1>3, SameSteps
<1> QED BY <1>4

-----------------------------------------------------------------------------
(* What an operation does to a ledger, field by field. *)

LEMMA Constants ==
  /\ IsFiniteSet(Cells) /\ Natural \subseteq Cells
  /\ None \notin Nat /\ None \notin Writes /\ None \notin Voxels
  /\ None \notin Actions /\ None \notin Deltas /\ None \notin Seq(Deltas)
  /\ MaxOps \in Nat /\ MaxLosses \in Nat /\ MaxEdits \in Nat /\ MaxSaves \in Nat
  /\ MaxCrashes \in Nat
BY MaterialAssumption

LEMMA OpFields ==
  ASSUME NEW o \in Ops
  PROVE  /\ o.kind \in {"mine", "break", "place"} /\ o.id \in Nat /\ o.cell \in Cells
         /\ o.before \in {"air", "plain", "ore"} /\ o.after \in {"air", "plain", "ore"}
         /\ o \in Actions /\ o # Loss /\ o # None
BY Constants DEF Ops, Actions

Seen(l, o) ==
  [next |-> IF l.next > o.id THEN l.next ELSE o.id + 1,
   applied |-> o.id, seq |-> l.seq,
   reserved |-> IF o.kind = "mine" THEN l.reserved - 1 ELSE l.reserved,
   placed |-> IF o.kind = "break" THEN l.placed \ {o.cell}
              ELSE IF o.kind = "place" THEN l.placed \cup {o.cell} ELSE l.placed,
   lost |-> l.lost]

LEMMA Operation ==
  ASSUME NEW l \in Ledgers, NEW o \in Ops
  PROVE  /\ o.id > l.applied => ApplyOperation(l, o) = Seen(l, o)
         /\ o.id <= l.applied /\ l.applied < l.next => ApplyOperation(l, o) = l
<1>1. l = [next |-> l.next, applied |-> l.applied, seq |-> l.seq,
           reserved |-> l.reserved, placed |-> l.placed, lost |-> l.lost]
  BY DEF Ledgers
<1>2. /\ o.kind \in {"mine", "break", "place"} /\ o.id \in Nat
      /\ l.next \in Nat /\ l.applied \in Nat
  BY OpFields DEF Ledgers
<1> DEFINE known == [l EXCEPT !.next = IF @ > o.id THEN @ ELSE o.id + 1]
           done == [known EXCEPT !.applied = o.id]
<1>3. known = [next |-> IF l.next > o.id THEN l.next ELSE o.id + 1, applied |-> l.applied,
               seq |-> l.seq, reserved |-> l.reserved, placed |-> l.placed, lost |-> l.lost]
  BY <1>1
<1> HIDE DEF known
<1>4. done = [next |-> IF l.next > o.id THEN l.next ELSE o.id + 1, applied |-> o.id,
              seq |-> l.seq, reserved |-> l.reserved, placed |-> l.placed, lost |-> l.lost]
  BY <1>3 DEF done
<1>5. ASSUME o.id > l.applied PROVE ApplyOperation(l, o) = Seen(l, o)
  <2>1. ApplyOperation(l, o)
          = CASE o.kind = "mine"  -> [done EXCEPT !.reserved = @ - 1]
              [] o.kind = "break" -> [done EXCEPT !.placed = @ \ {o.cell}]
              [] o.kind = "place" -> [done EXCEPT !.placed = @ \cup {o.cell}]
    BY <1>2, <1>5 DEF ApplyOperation, known, done
  <2> HIDE DEF done
  <2>2. CASE o.kind = "mine"
    BY <1>4, <2>1, <2>2 DEF Seen
  <2>3. CASE o.kind = "break"
    BY <1>4, <2>1, <2>3 DEF Seen
  <2>4. CASE o.kind = "place"
    BY <1>4, <2>1, <2>4 DEF Seen
  <2> QED BY <1>2, <2>2, <2>3, <2>4
<1>6. ASSUME o.id <= l.applied, l.applied < l.next PROVE ApplyOperation(l, o) = l
  <2>1. ApplyOperation(l, o) = known
    BY <1>6 DEF ApplyOperation, known
  <2>2. l.next > o.id
    BY <1>2, <1>6
  <2> QED BY <1>1, <1>3, <2>1, <2>2
<1> QED BY <1>5, <1>6

\* The delta of a loss, and that of an operation.
Lossy(l, d) ==
  [next |-> l.next, applied |-> l.applied, seq |-> d.seq,
   reserved |-> l.reserved, placed |-> l.placed, lost |-> l.lost + 1]
Done(l, d) ==
  LET s == Seen(l, d.action) IN
  [next |-> s.next, applied |-> s.applied, seq |-> d.seq,
   reserved |-> s.reserved, placed |-> s.placed, lost |-> s.lost]

LEMMA DeltaFields ==
  ASSUME NEW l \in Ledgers, NEW d \in Deltas
  PROVE  /\ d.action = Loss => ApplyDelta(l, d) = Lossy(l, d)
         /\ d.action # Loss /\ d.action.id > l.applied => ApplyDelta(l, d) = Done(l, d)
<1>1. d.action \in Actions /\ (d.action # Loss => d.action \in Ops)
  BY DEF Deltas, Ops
<1>2. CASE d.action = Loss
  <2> DEFINE x == [l EXCEPT !.lost = @ + 1]
  <2>1. x = [next |-> l.next, applied |-> l.applied, seq |-> l.seq,
             reserved |-> l.reserved, placed |-> l.placed, lost |-> l.lost + 1]
    BY DEF Ledgers
  <2>2. ApplyDelta(l, d) = [x EXCEPT !.seq = d.seq]
    BY <1>2 DEF ApplyDelta, ApplyAction
  <2> HIDE DEF x
  <2> QED BY <1>2, <2>1, <2>2 DEF Lossy
<1>3. CASE d.action # Loss /\ d.action.id > l.applied
  <2> DEFINE x == Seen(l, d.action)
  <2>1. ApplyDelta(l, d) = [x EXCEPT !.seq = d.seq]
    BY <1>1, <1>3, Operation DEF ApplyDelta, ApplyAction
  <2>2. x = [next |-> x.next, applied |-> x.applied, seq |-> x.seq,
             reserved |-> x.reserved, placed |-> x.placed, lost |-> x.lost]
    BY DEF Seen
  <2> HIDE DEF x
  <2>3. ApplyDelta(l, d) = [next |-> x.next, applied |-> x.applied, seq |-> d.seq,
             reserved |-> x.reserved, placed |-> x.placed, lost |-> x.lost]
    BY <2>1, <2>2
  <2> QED BY <1>3, <2>3 DEF Done, x
<1> QED BY <1>2, <1>3

LEMMA DeltaTyped ==
  ASSUME NEW l \in Ledgers, NEW d \in Deltas, Fit(l, d.action), Sane(l), d.seq = l.seq + 1
  PROVE  Sane(ApplyDelta(l, d)) /\ ApplyDelta(l, d).seq = d.seq
<1>1. d.action \in Actions /\ d.seq \in Nat /\ (d.action # Loss => d.action \in Ops)
  BY DEF Deltas, Ops
<1>2. /\ l.next \in Nat /\ l.applied \in Nat /\ l.seq \in Nat /\ l.reserved \in {None} \cup Nat
      /\ l.placed \subseteq Cells /\ l.lost \in Nat /\ Cardinality(Cells) \in Nat
  BY Constants, FS_CardinalityType DEF Ledgers
<1>3. CASE d.action = Loss
  <2>1. ApplyDelta(l, d) = [next |-> l.next, applied |-> l.applied, seq |-> d.seq,
           reserved |-> l.reserved, placed |-> l.placed, lost |-> l.lost + 1]
    BY <1>3, DeltaFields DEF Lossy
  <2> QED BY <1>1, <1>2, <2>1 DEF Sane, Ledgers
<1>4. CASE d.action # Loss
  <2> DEFINE o == d.action
             s == Seen(l, o)
  <2>1. o \in Ops /\ o.id \in Nat /\ o.cell \in Cells /\ o.id > l.applied
        /\ (o.kind = "mine" => l.reserved \in Nat \ {0})
    BY <1>1, <1>4, OpFields DEF Fit
  <2>2. ApplyDelta(l, d) = [next |-> s.next, applied |-> s.applied, seq |-> d.seq,
           reserved |-> s.reserved, placed |-> s.placed, lost |-> s.lost]
    BY <1>4, <2>1, DeltaFields DEF Done
  <2>3. s.next \in Nat /\ s.applied \in Nat /\ s.applied < s.next /\ s.next > 0
        /\ s.lost = l.lost /\ s.applied >= l.applied + 1
    BY <1>2, <2>1 DEF Seen
  <2>4. s.placed \subseteq Cells
    BY <1>2, <2>1 DEF Seen
  <2>5. s.reserved \in {None} \cup Nat /\ s.reserved \in {None} \cup 0..Cardinality(Cells)
    <3>1. l.reserved \in {None} \cup 0..Cardinality(Cells)
      BY DEF Sane
    <3>2. CASE o.kind = "mine"
      <4>1. s.reserved = l.reserved - 1
        BY <3>2 DEF Seen
      <4> QED BY <1>2, <2>1, <3>1, <3>2, <4>1, Constants
    <3>3. CASE o.kind # "mine"
      BY <1>2, <3>1, <3>3 DEF Seen
    <3> QED BY <3>2, <3>3
  <2>6. d.seq <= s.applied + s.lost
    BY <1>1, <1>2, <2>1, <2>3 DEF Sane
  <2> HIDE DEF s, o
  <2> QED BY <1>1, <2>2, <2>3, <2>4, <2>5, <2>6, <1>2 DEF Sane, Ledgers
<1> QED BY <1>3, <1>4

-----------------------------------------------------------------------------
(* Logs that continue a ledger. *)

LEMMA LastTyped ==
  ASSUME NEW l, l.seq \in Nat, NEW log \in Seq(Deltas)
  PROVE  /\ LastOf(l, log) \in Nat /\ Len(log) \in Nat
         /\ \A i \in 1..Len(log) : log[i] \in Deltas /\ log[i].seq \in Nat
         /\ log # <<>> => Len(log) \in 1..Len(log)
<1>1. Len(log) \in Nat /\ (log # <<>> => Len(log) \in 1..Len(log))
      /\ \A i \in 1..Len(log) : log[i] \in Deltas
  OBVIOUS
<1>2. \A d \in Deltas : d.seq \in Nat
  BY DEF Deltas
<1> QED BY <1>1, <1>2 DEF LastOf

LEMMA OrderlyEmpty ==
  ASSUME NEW l
  PROVE  Orderly(l, <<>>) /\ LastOf(l, <<>>) = l.seq /\ Replay(l, <<>>)[Len(<<>>)] = l
<1> DEFINE none == <<>>
<1>1. none \in Seq(Deltas) /\ Len(none) = 0 /\ none = <<>> /\ \A i \in 1..Len(none) : FALSE
  OBVIOUS
<1> HIDE DEF none
<1>2. Steps(Replay(l, none), Len(none), l, none)
  BY <1>1, ReplaySteps
<1>3. Replay(l, none)[0] = l
  BY <1>2 DEF Steps
<1>4. Orderly(l, none) /\ LastOf(l, none) = l.seq /\ Replay(l, none)[Len(none)] = l
  BY <1>1, <1>3 DEF Orderly, LastOf
<1> QED BY <1>1, <1>4

LEMMA OrderlyAppend ==
  ASSUME NEW l, l.seq \in Nat, NEW log \in Seq(Deltas), Orderly(l, log),
         NEW r \in Deltas, r.seq = LastOf(l, log) + 1,
         NEW k, k = Replay(l, log)[Len(log)], ApplyDelta(k, r).seq = r.seq
  PROVE  /\ Append(log, r) \in Seq(Deltas) /\ Append(log, r) # <<>>
         /\ Final(Append(log, r)) = r
         /\ Orderly(l, Append(log, r)) /\ LastOf(l, Append(log, r)) = r.seq
         /\ Replay(l, Append(log, r))[Len(Append(log, r))] = ApplyDelta(k, r)
<1> DEFINE n == Len(log)
           longer == Append(log, r)
           f == Replay(l, log)
           g == Replay(l, longer)
<1>1. n \in Nat /\ longer \in Seq(Deltas) /\ Len(longer) = n + 1 /\ longer # <<>>
      /\ longer[n + 1] = r /\ \A i \in 1..n : longer[i] = log[i]
  OBVIOUS
<1>2. \A i \in 0..n : g[i] = f[i]
  BY ReplayAppended
<1>3. LastOf(l, log) \in Nat /\ r.seq \in Nat /\ \A i \in 1..n : log[i].seq \in Nat
  BY LastTyped
<1>4. f[n].seq = LastOf(l, log)
  BY DEF Orderly
<1>5. g[n + 1] = ApplyDelta(k, r)
  <2>1. g[n + 1] = Follow(f[n], r)
    BY ReplayAppended
  <2>2. ~(r.seq <= k.seq)
    BY <1>3, <1>4
  <2> QED BY <2>1, <2>2 DEF Follow
<1>6. LastOf(l, longer) = r.seq
  BY <1>1 DEF LastOf
<1>7. \A i \in 1..n : log[i].seq <= LastOf(l, log) /\ ~(log[i].seq > f[i - 1].seq + 1)
  BY DEF Orderly
<1>8. \A i \in 1..n : i - 1 \in 0..n
  BY <1>1
<1> HIDE DEF f, g, longer, n
<1>9. \A i \in 1..Len(longer) : longer[i].seq <= LastOf(l, longer)
  <2> TAKE i \in 1..Len(longer)
  <2>1. CASE i = n + 1
    BY <1>1, <1>3, <1>6, <2>1
  <2>2. CASE i \in 1..n
    BY <1>1, <1>3, <1>6, <1>7, <2>2
  <2> QED BY <1>1, <2>1, <2>2
<1>10. \A i \in 1..Len(longer) : ~(longer[i].seq > g[i - 1].seq + 1)
  <2> TAKE i \in 1..Len(longer)
  <2>1. CASE i = n + 1
    BY <1>1, <1>2, <1>3, <1>4, <2>1
  <2>2. CASE i \in 1..n
    BY <1>1, <1>2, <1>7, <1>8, <2>2
  <2> QED BY <1>1, <2>1, <2>2
<1>11. Orderly(l, longer)
  BY <1>1, <1>5, <1>6, <1>9, <1>10 DEF Orderly, g
<1> QED BY <1>1, <1>5, <1>6, <1>11 DEF longer, n, g, Final

\* A ledger that is as recent as the log has nothing to take from it.
LEMMA OrderlyRewritten ==
  ASSUME NEW old, NEW l, l.seq \in Nat, old.seq \in Nat, NEW log \in Seq(Deltas),
         Orderly(old, log), l.seq = LastOf(old, log)
  PROVE  /\ Orderly(l, log) /\ LastOf(l, log) = l.seq
         /\ Replay(l, log)[Len(log)] = l
<1>1. LastOf(l, log) = l.seq
  BY DEF LastOf
<1>2. /\ Len(log) \in Nat /\ \A i \in 1..Len(log) : log[i].seq \in Nat /\ log[i].seq <= l.seq
  BY LastTyped DEF Orderly
<1>3. \A i \in 0..Len(log) : Replay(l, log)[i] = l
  BY <1>2, ReplayStale
<1>4. \A i \in 1..Len(log) : ~(log[i].seq > Replay(l, log)[i - 1].seq + 1)
  <2> TAKE i \in 1..Len(log)
  <2>1. i - 1 \in 0..Len(log)
    BY <1>2
  <2>2. Replay(l, log)[i - 1] = l
    BY <1>3, <2>1
  <2> QED BY <1>2, <2>2
<1>5. Len(log) \in 0..Len(log)
  BY <1>2
<1> QED BY <1>1, <1>2, <1>3, <1>4, <1>5 DEF Orderly

-----------------------------------------------------------------------------
(* What a start makes of the files. *)

LEMMA FileFields ==
  ASSUME NEW d \in Files
  PROVE  /\ d = [chunk |-> d.chunk, ledger |-> d.ledger, log |-> d.log, torn |-> d.torn,
                 pending |-> d.pending, journal |-> d.journal, coordinator |-> d.coordinator]
         /\ d.chunk \in {None} \cup Voxels /\ d.ledger \in Ledgers /\ d.log \in Seq(Deltas)
         /\ d.torn \in BOOLEAN /\ d.pending \in {None} \cup Deltas
         /\ d.journal \in {None} \cup Ops /\ d.coordinator \in {None} \cup Seq(Deltas)
         /\ d.ledger.seq \in Nat /\ LastSeq(d) = LastOf(d.ledger, d.log)
         /\ LastSeq(d) \in Nat
<1>1. /\ d.ledger \in Ledgers /\ d.log \in Seq(Deltas)
  BY DEF Files
<1>2. d.ledger.seq \in Nat
  BY <1>1 DEF Ledgers
<1>3. LastSeq(d) = LastOf(d.ledger, d.log) /\ LastSeq(d) \in Nat
  BY <1>1, <1>2, LastTyped DEF LastSeq, LastOf
<1> QED BY <1>1, <1>2, <1>3 DEF Files

\* A delta that continues the log is applied to what the files hold.
LEMMA Continued ==
  ASSUME NEW d, WellKept(d), NEW r \in Deltas, r.seq = LastSeq(d) + 1, Fit(Base(d), r.action)
  PROVE  /\ Orderly(d.ledger, Append(d.log, r)) /\ LastOf(d.ledger, Append(d.log, r)) = r.seq
         /\ Append(d.log, r) \in Seq(Deltas) /\ Append(d.log, r) # <<>>
         /\ Final(Append(d.log, r)) = r
         /\ Replay(d.ledger, Append(d.log, r))[Len(Append(d.log, r))] = ApplyDelta(Base(d), r)
         /\ Sane(ApplyDelta(Base(d), r)) /\ Base(d).seq = LastSeq(d)
         /\ ApplyDelta(Base(d), r).seq = r.seq
<1>1. d \in Files /\ Orderly(d.ledger, d.log) /\ Sane(Base(d)) /\ Base(d) \in Ledgers
  BY DEF WellKept, Sane
<1>2. Base(d).seq = LastSeq(d) /\ LastSeq(d) = LastOf(d.ledger, d.log)
  BY <1>1, FileFields DEF Orderly, Base
<1>3. Sane(ApplyDelta(Base(d), r)) /\ ApplyDelta(Base(d), r).seq = r.seq
  BY <1>1, <1>2, DeltaTyped
<1>4. d.ledger.seq \in Nat /\ d.log \in Seq(Deltas)
  BY <1>1, FileFields
<1>5. r.seq = LastOf(d.ledger, d.log) + 1 /\ Base(d) = Replay(d.ledger, d.log)[Len(d.log)]
  BY <1>2 DEF Base
<1>6. /\ Orderly(d.ledger, Append(d.log, r)) /\ LastOf(d.ledger, Append(d.log, r)) = r.seq
      /\ Append(d.log, r) \in Seq(Deltas) /\ Append(d.log, r) # <<>>
      /\ Final(Append(d.log, r)) = r
      /\ Replay(d.ledger, Append(d.log, r))[Len(Append(d.log, r))] = ApplyDelta(Base(d), r)
  BY <1>1, <1>3, <1>4, <1>5, OrderlyAppend
<1> QED BY <1>2, <1>3, <1>6

\* The pending delta of a frame that is missing from the log, and only that, is repaired.
LEMMA Repaired ==
  ASSUME NEW d, WellKept(d), d.coordinator = None
  PROVE  /\ Repairs(d) <=> Ahead(d)
         /\ ~Ahead(d) => ~d.torn
         /\ Ahead(d) => d.pending \in Deltas /\ d.pending # None
<1>1. /\ d \in Files /\ Orderly(d.ledger, d.log) /\ (d.torn => Ahead(d))
      /\ d.pending # None => Ahead(d) \/ (d.log # <<>> /\ d.pending = Final(d.log))
  BY DEF WellKept
<1>2. d.log \in Seq(Deltas) /\ LastSeq(d) \in Nat /\ LastSeq(d) = LastOf(d.ledger, d.log)
      /\ d.pending \in {None} \cup Deltas /\ d.ledger.seq \in Nat
  BY <1>1, FileFields
<1>3. \A i \in 1..Len(d.log) : d.log[i].seq \in Nat /\ d.log[i].seq <= LastSeq(d)
  BY <1>1, <1>2, LastTyped DEF Orderly
<1>4. ASSUME Ahead(d) PROVE Repairs(d)
  BY <1>2, <1>3, <1>4 DEF Repairs, Ahead
<1>5. ASSUME Repairs(d), ~Ahead(d) PROVE FALSE
  <2>1. d.pending # None /\ ~d.torn /\ d.log # <<>> /\ d.pending = d.log[Len(d.log)]
    BY <1>1, <1>5 DEF Repairs, Final
  <2>2. Len(d.log) \in 1..Len(d.log)
    BY <1>2, <2>1, LastTyped
  <2> QED BY <1>5, <2>1, <2>2 DEF Repairs
<1> QED BY <1>1, <1>2, <1>4, <1>5 DEF Ahead

LEMMA StartReadsPlain ==
  ASSUME NEW d, WellKept(d), d.coordinator = None
  PROVE  /\ ~Unreadable(d) /\ Replayed(d) = Forecast(d)
         /\ Records(d) = IF Ahead(d) THEN Append(d.log, d.pending) ELSE d.log
<1>1. Records(d) = IF Ahead(d) THEN Append(d.log, d.pending) ELSE d.log
  BY Repaired DEF Records
<1>2. d \in Files /\ Orderly(d.ledger, d.log)
  BY DEF WellKept
<1>3. ~(d.torn /\ d.pending = None) /\ ~(Repairs(d) /\ d.pending.seq # LastSeq(d) + 1)
  BY Repaired DEF Ahead
<1>4. CASE Ahead(d)
  <2>1. d.pending \in Deltas /\ d.pending # None /\ d.pending.seq = LastSeq(d) + 1
    BY <1>4, Repaired DEF Ahead
  <2>2. d.pending # Final(d.log) \/ d.log = <<>>
    <3>1. d.ledger.seq \in Nat /\ LastSeq(d) \in Nat /\ d.log \in Seq(Deltas)
      BY <1>2, FileFields
    <3>2. d.log # <<>> => Final(d.log).seq = LastSeq(d)
      BY DEF LastSeq, Final
    <3> QED BY <2>1, <3>1, <3>2
  <2>3. Fit(Base(d), d.pending.action)
    BY <2>1, <2>2 DEF WellKept
  <2>4. /\ Orderly(d.ledger, Records(d))
        /\ Replay(d.ledger, Records(d))[Len(Records(d))] = ApplyDelta(Base(d), d.pending)
    BY <1>1, <1>4, <2>1, <2>3, Continued
  <2>5. Forecast(d) = ApplyDelta(Base(d), d.pending)
    BY <1>4 DEF Forecast
  <2>6. ASSUME NEW i \in 1..Len(Records(d))
        PROVE  ~(Records(d)[i].seq > Replay(d.ledger, Records(d))[i - 1].seq + 1)
    BY <2>4 DEF Orderly
  <2> QED BY <1>1, <1>3, <2>4, <2>5, <2>6 DEF Unreadable, Replayed
<1>5. CASE ~Ahead(d)
  <2> QED BY <1>1, <1>2, <1>3, <1>5 DEF Unreadable, Replayed, Forecast, Orderly, Base
<1> QED BY <1>1, <1>4, <1>5

\* Files that differ in the chunk and the journal alone hold the same ledger.
LEMMA SameLedger ==
  ASSUME NEW d, NEW e \in Files, WellKept(d), e.ledger = d.ledger, e.log = d.log,
         e.torn = d.torn, e.pending = d.pending, e.coordinator = d.coordinator
  PROVE  WellKept(e) /\ Base(e) = Base(d) /\ Forecast(e) = Forecast(d)
<1>1. Base(e) = Base(d) /\ LastSeq(e) = LastSeq(d)
  BY DEF Base, LastSeq
<1>2. Ahead(e) <=> Ahead(d)
  BY <1>1 DEF Ahead
<1>3. Forecast(e) = Forecast(d)
  BY <1>1, <1>2 DEF Forecast
<1> QED BY <1>1, <1>2, <1>3 DEF WellKept

LEMMA Checkpointed ==
  ASSUME NEW d, WellKept(d), NEW l, Sane(l), l.seq = Base(d).seq,
         d.pending = None, d.coordinator = None, ~d.torn, NEW e, e = [d EXCEPT !.ledger = l]
  PROVE  WellKept(e) /\ Base(e) = l /\ Forecast(e) = l
<1>1. d \in Files /\ Orderly(d.ledger, d.log) /\ Sane(d.ledger) /\ Sane(Base(d))
  BY DEF WellKept
<1>2. /\ e \in Files /\ e.ledger = l /\ e.log = d.log /\ ~e.torn /\ e.pending = None
      /\ e.coordinator = None
  BY <1>1 DEF Files, Sane
<1>3. d.ledger.seq \in Nat /\ d.log \in Seq(Deltas) /\ l.seq \in Nat
  BY <1>1, FileFields DEF Sane, Ledgers
<1>4. l.seq = LastOf(d.ledger, d.log)
  BY <1>1 DEF Orderly, Base
<1>5. Orderly(l, d.log) /\ Replay(l, d.log)[Len(d.log)] = l
  BY <1>1, <1>3, <1>4, OrderlyRewritten
<1>6. Base(e) = l
  BY <1>2, <1>5 DEF Base
<1>7. Forecast(e) = l
  BY <1>2, <1>6 DEF Forecast, Ahead
<1> QED BY <1>2, <1>5, <1>6, <1>7 DEF WellKept

LEMMA Cleared ==
  ASSUME NEW d, WellKept(d), d.pending = None, d.coordinator = None,
         NEW e, e = [d EXCEPT !.log = <<>>, !.torn = FALSE]
  PROVE  WellKept(e) /\ Base(e) = d.ledger /\ Forecast(e) = d.ledger
<1>1. d \in Files /\ Sane(d.ledger)
  BY DEF WellKept
<1>2. /\ e \in Files /\ e.ledger = d.ledger /\ e.log = <<>> /\ ~e.torn /\ e.pending = None
      /\ e.coordinator = None
  <2> DEFINE none == <<>>
  <2>1. e = [d EXCEPT !.log = none, !.torn = FALSE] /\ none \in Seq(Deltas)
    OBVIOUS
  <2>2. none = <<>>
    OBVIOUS
  <2> HIDE DEF none
  <2> QED BY <1>1, <2>1, <2>2 DEF Files
<1>3. Orderly(e.ledger, e.log) /\ Base(e) = d.ledger
  BY <1>2, OrderlyEmpty DEF Base
<1>4. Forecast(e) = d.ledger
  BY <1>2, <1>3 DEF Forecast, Ahead
<1> QED BY <1>1, <1>2, <1>3, <1>4 DEF WellKept

LEMMA Pended ==
  ASSUME NEW d, WellKept(d), d.pending = None, d.coordinator = None,
         NEW r \in Deltas, r.seq = LastSeq(d) + 1, Fit(Base(d), r.action),
         NEW e, e = [d EXCEPT !.pending = r]
  PROVE  /\ WellKept(e) /\ Base(e) = Base(d) /\ Ahead(e)
         /\ Forecast(e) = ApplyDelta(Base(d), r)
<1>1. d \in Files /\ Orderly(d.ledger, d.log) /\ Sane(d.ledger) /\ Sane(Base(d))
  BY DEF WellKept
<1>2. /\ e \in Files /\ e.ledger = d.ledger /\ e.log = d.log /\ e.torn = d.torn /\ e.pending = r
      /\ e.coordinator = None
  BY <1>1 DEF Files
<1>3. Base(e) = Base(d) /\ LastSeq(e) = LastSeq(d)
  BY <1>2 DEF Base, LastSeq
<1>4. Ahead(e)
  BY <1>2, <1>3, Constants DEF Ahead
<1>5. Forecast(e) = ApplyDelta(Base(d), r)
  BY <1>2, <1>3, <1>4 DEF Forecast
<1> QED BY <1>1, <1>2, <1>3, <1>4, <1>5 DEF WellKept

LEMMA Appended ==
  ASSUME NEW d, WellKept(d), d.coordinator = None, Ahead(d),
         NEW e, e = [d EXCEPT !.log = Append(d.log, d.pending), !.torn = FALSE]
  PROVE  /\ WellKept(e) /\ Base(e) = Forecast(d) /\ Forecast(e) = Forecast(d)
         /\ ~Ahead(e) /\ e.log # <<>> /\ e.pending = Final(e.log)
<1>1. d \in Files /\ Orderly(d.ledger, d.log) /\ Sane(d.ledger) /\ Sane(Base(d))
  BY DEF WellKept
<1> DEFINE r == d.pending
<1>2. r \in Deltas /\ r # None /\ r.seq = LastSeq(d) + 1
  BY <1>1, FileFields DEF Ahead
<1>3. LastSeq(d) \in Nat /\ LastSeq(d) = LastOf(d.ledger, d.log)
  BY <1>1, FileFields
<1>4. Fit(Base(d), r.action)
  <2>1. d.log # <<>> => Final(d.log).seq = LastSeq(d)
    BY DEF LastSeq, Final
  <2>2. ~(d.log # <<>> /\ d.pending = Final(d.log))
    BY <1>2, <1>3, <2>1
  <2> QED BY <1>2, <2>2 DEF WellKept
<1>5. /\ Orderly(d.ledger, Append(d.log, r)) /\ LastOf(d.ledger, Append(d.log, r)) = r.seq
      /\ Append(d.log, r) \in Seq(Deltas) /\ Append(d.log, r) # <<>>
      /\ Final(Append(d.log, r)) = r
      /\ Replay(d.ledger, Append(d.log, r))[Len(Append(d.log, r))] = ApplyDelta(Base(d), r)
      /\ Sane(ApplyDelta(Base(d), r))
  BY <1>2, <1>4, Continued
<1>6. /\ e \in Files /\ e.ledger = d.ledger /\ e.log = Append(d.log, r) /\ ~e.torn
      /\ e.pending = r /\ e.coordinator = None
  BY <1>1, <1>5 DEF Files
<1>7. Forecast(d) = ApplyDelta(Base(d), r) /\ Base(e) = ApplyDelta(Base(d), r)
  BY <1>5, <1>6 DEF Forecast, Base
<1>8. ~Ahead(e)
  <2>1. LastSeq(e) = LastOf(e.ledger, e.log)
    BY DEF LastSeq, LastOf
  <2>2. LastSeq(e) = r.seq
    BY <1>5, <1>6, <2>1
  <2> QED BY <1>2, <1>3, <1>6, <2>2 DEF Ahead
<1>9. Forecast(e) = Base(e)
  BY <1>6, <1>8 DEF Forecast
<1> QED BY <1>1, <1>5, <1>6, <1>7, <1>8, <1>9 DEF WellKept

LEMMA Unpended ==
  ASSUME NEW d, WellKept(d), d.coordinator = None, ~Ahead(d),
         NEW e, e = [d EXCEPT !.pending = None]
  PROVE  WellKept(e) /\ Base(e) = Base(d) /\ Forecast(e) = Base(d) /\ Forecast(d) = Base(d)
<1>1. /\ d \in Files /\ Orderly(d.ledger, d.log) /\ Sane(d.ledger) /\ Sane(Base(d))
      /\ ~d.torn
  BY DEF WellKept
<1>2. /\ e \in Files /\ e.ledger = d.ledger /\ e.log = d.log /\ ~e.torn /\ e.pending = None
      /\ e.coordinator = None
  BY <1>1 DEF Files
<1>3. Base(e) = Base(d) /\ Forecast(e) = Base(d) /\ Forecast(d) = Base(d)
  BY <1>2 DEF Base, Forecast, Ahead
<1> QED BY <1>1, <1>2, <1>3 DEF WellKept

LEMMA Staged ==
  ASSUME NEW d, WellKept(d), d.pending = None, d.coordinator = None, ~d.torn,
         NEW r \in Deltas, r.seq = LastSeq(d) + 1, Fit(Base(d), r.action),
         NEW e, e = [d EXCEPT !.coordinator = Append(d.log, r)]
  PROVE  /\ WellKept(e) /\ Base(e) = Base(d) /\ e.coordinator # None
         /\ Final(e.coordinator) = r /\ Forecast(e) = ApplyDelta(Base(d), r)
<1>1. d \in Files /\ Orderly(d.ledger, d.log) /\ Sane(d.ledger) /\ Sane(Base(d))
  BY DEF WellKept
<1>2. /\ Append(d.log, r) \in Seq(Deltas) /\ Append(d.log, r) # <<>>
      /\ Final(Append(d.log, r)) = r
  BY Continued
<1>3. /\ e \in Files /\ e.ledger = d.ledger /\ e.log = d.log /\ ~e.torn /\ e.pending = None
      /\ e.coordinator = Append(d.log, r)
  BY <1>1, <1>2 DEF Files
<1>4. Base(e) = Base(d) /\ LastSeq(e) = LastSeq(d) /\ e.coordinator # None
  <2>1. e.coordinator \in Seq(Deltas)
    BY <1>2, <1>3
  <2> QED
    <3>1. Base(e) = Base(d)
      BY <1>3 DEF Base
    <3>2. LastSeq(e) = LastSeq(d)
      BY <1>3 DEF LastSeq
    <3> QED BY <2>1, <3>1, <3>2, Constants
<1>5. Forecast(e) = ApplyDelta(Base(d), r)
  BY <1>2, <1>3, <1>4 DEF Forecast
<1>6. ~Ahead(e)
  BY <1>3 DEF Ahead
<1> QED BY <1>1, <1>2, <1>3, <1>4, <1>5 DEF WellKept

LEMMA Forwarded ==
  ASSUME NEW d, WellKept(d), NEW e, e = RolledForward(d)
  PROVE  /\ WellKept(e) /\ e.coordinator = None /\ Forecast(e) = Forecast(d)
         /\ e.chunk = d.chunk /\ e.journal = d.journal
         /\ d.coordinator # None => e.pending = None /\ ~e.torn /\ Base(e) = Forecast(d)
         /\ d.coordinator = None => e = d
<1>1. CASE d.coordinator = None
  BY <1>1 DEF RolledForward
<1>2. CASE d.coordinator # None
  <2> DEFINE r == Final(d.coordinator)
  <2>1. d \in Files /\ Orderly(d.ledger, d.log) /\ Sane(d.ledger) /\ Sane(Base(d))
    BY DEF WellKept
  <2>2. /\ d.coordinator \in Seq(Deltas) /\ d.coordinator # <<>> /\ d.pending = None
        /\ r.seq = LastSeq(d) + 1 /\ d.coordinator = Append(d.log, r) /\ Fit(Base(d), r.action)
    BY <1>2, <2>1, FileFields DEF WellKept
  <2>3. r \in Deltas
    BY <2>2 DEF Final
  <2>4. /\ Orderly(d.ledger, d.coordinator)
        /\ Replay(d.ledger, d.coordinator)[Len(d.coordinator)] = ApplyDelta(Base(d), r)
        /\ Sane(ApplyDelta(Base(d), r))
    <3>1. /\ Orderly(d.ledger, Append(d.log, r))
          /\ Replay(d.ledger, Append(d.log, r))[Len(Append(d.log, r))] = ApplyDelta(Base(d), r)
          /\ Sane(ApplyDelta(Base(d), r))
      BY <2>2, <2>3, Continued
    <3> HIDE DEF r
    <3> QED BY <2>2, <3>1
  <2>5. e = [d EXCEPT !.log = d.coordinator, !.torn = FALSE, !.coordinator = None]
    BY <1>2 DEF RolledForward
  <2>6. /\ e \in Files /\ e.ledger = d.ledger /\ e.log = d.coordinator /\ ~e.torn
        /\ e.pending = None /\ e.coordinator = None /\ e.chunk = d.chunk
        /\ e.journal = d.journal
    BY <2>1, <2>2, <2>5 DEF Files
  <2>7. Base(e) = ApplyDelta(Base(d), r) /\ Forecast(d) = ApplyDelta(Base(d), r)
    BY <1>2, <2>4, <2>6 DEF Base, Forecast
  <2>8. Forecast(e) = Base(e)
    BY <2>6 DEF Forecast, Ahead
  <2> HIDE DEF r
  <2> QED BY <1>2, <2>1, <2>4, <2>6, <2>7, <2>8 DEF WellKept
<1> QED BY <1>1, <1>2

\* A start can read the files, and what it reads is the forecast.
LEMMA StartReads ==
  ASSUME NEW d, WellKept(d)
  PROVE  ~Unreadable(RolledForward(d)) /\ Replayed(RolledForward(d)) = Forecast(d)
BY Forwarded, StartReadsPlain

\* The log as a start leaves it.
LEMMA Loaded ==
  ASSUME NEW d, WellKept(d), NEW e,
         e = [RolledForward(d) EXCEPT !.log = Records(RolledForward(d)), !.torn = FALSE]
  PROVE  /\ WellKept(e) /\ Base(e) = Forecast(d) /\ Forecast(e) = Forecast(d)
         /\ ~Ahead(e) /\ ~e.torn /\ e.coordinator = None
         /\ e.chunk = d.chunk /\ e.journal = d.journal
         /\ e.pending # None => e.log # <<>> /\ e.pending = Final(e.log)
<1> DEFINE f == RolledForward(d)
<1>1. /\ WellKept(f) /\ f.coordinator = None /\ Forecast(f) = Forecast(d)
      /\ f.chunk = d.chunk /\ f.journal = d.journal
  BY Forwarded
<1>2. e = [f EXCEPT !.log = Records(f), !.torn = FALSE]
  OBVIOUS
<1> HIDE DEF f
<1>3. f \in Files
  BY <1>1 DEF WellKept
<1>4. CASE Ahead(f)
  <2>1. e = [f EXCEPT !.log = Append(f.log, f.pending), !.torn = FALSE]
    BY <1>1, <1>2, <1>4, StartReadsPlain
  <2>2. /\ WellKept(e) /\ Base(e) = Forecast(f) /\ Forecast(e) = Forecast(f)
        /\ ~Ahead(e) /\ e.log # <<>> /\ e.pending = Final(e.log)
    BY <1>1, <1>4, <2>1, Appended
  <2>3. e.chunk = f.chunk /\ e.journal = f.journal /\ ~e.torn /\ e.coordinator = None
    BY <1>1, <1>3, <2>1 DEF Files
  <2> QED BY <1>1, <2>2, <2>3
<1>5. CASE ~Ahead(f)
  <2>1. e = [f EXCEPT !.log = f.log, !.torn = FALSE] /\ ~f.torn
    BY <1>1, <1>2, <1>5, StartReadsPlain, Repaired
  <2>2. e = f
    BY <1>3, <2>1 DEF Files
  <2>3. Forecast(f) = Base(f)
    BY <1>1, <1>5 DEF Forecast
  <2> QED BY <1>1, <1>5, <2>1, <2>2, <2>3 DEF WellKept
<1> QED BY <1>4, <1>5

-----------------------------------------------------------------------------
(* The book as a start would find it, and what a step writes in it.        *)

\* The journalled operation is one that a start would carry out.
Settles  == Unseen /\ Saved[disk.journal.cell] = disk.journal.after
Accepted == IF Settles THEN Seen(Whole, disk.journal).placed ELSE Whole.placed

Steady == Ore(Saved)' = Ore(Saved) /\ Accepted' = Accepted /\ Whole'.lost = Whole.lost
Wasted == Ore(Saved)' = Ore(Saved) /\ Accepted' = Accepted /\ Whole'.lost = Whole.lost + 1
Edited ==
  /\ disk.journal \in Ops /\ Sides(disk.journal)
  /\ disk'.journal = disk.journal /\ Whole' = Whole /\ ~Settles /\ Settles'
  /\ Awaits(Whole, Ore(Saved), disk.journal) /\ Ore(Saved) \subseteq Cells
  /\ Ore(Saved)' = IF disk.journal.after = "ore" THEN Ore(Saved) \cup {disk.journal.cell}
                   ELSE Ore(Saved) \ {disk.journal.cell}

LEMMA SteadyFiles ==
  ASSUME Saved' = Saved, disk'.journal = disk.journal, Whole'.placed = Whole.placed,
         Whole'.applied = Whole.applied, Whole'.lost = Whole.lost
  PROVE  Steady
<1>1. Ore(Saved)' = Ore(Saved)
  BY DEF Ore
<1>2. Settles' <=> Settles
  BY DEF Settles, Unseen
<1>3. Seen(Whole, disk.journal).placed' = Seen(Whole, disk.journal).placed
  BY DEF Seen
<1> QED BY <1>1, <1>2, <1>3 DEF Steady, Accepted

LEMMA SteadySame ==
  ASSUME disk' = disk
  PROVE  Steady
<1>1. Whole' = Whole /\ Saved' = Saved
  BY DEF Whole, Saved
<1> QED BY <1>1, SteadyFiles

LEMMA SteadyApart ==
  ASSUME Ore(Saved)' = Ore(Saved), Whole' = Whole, ~Settles, ~Settles'
  PROVE  Steady
BY DEF Steady, Accepted

-----------------------------------------------------------------------------
(* The steps.  An action that leaves the files alone leaves what a start    *)
(* would make of them.                                                     *)

LEMMA SameDisk ==
  ASSUME disk' = disk
  PROVE  /\ Kept' = Kept /\ Whole' = Whole /\ Saved' = Saved /\ Ore(Saved)' = Ore(Saved)
         /\ (Unseen' <=> Unseen) /\ Entered' = Entered /\ (FilesOK' <=> FilesOK)
         /\ (Estranged' <=> Estranged)
<1>1. Kept' = Kept /\ Whole' = Whole /\ Saved' = Saved /\ (FilesOK' <=> FilesOK)
  BY DEF Kept, Whole, Saved, FilesOK
<1>2. Ore(Saved)' = Ore(Saved)
  BY <1>1 DEF Ore
<1>3. Unseen' <=> Unseen
  BY <1>1 DEF Unseen
<1>4. Entered' = Entered
  BY <1>1, <1>2, <1>3 DEF Entered
<1> QED BY <1>1, <1>2, <1>3, <1>4 DEF Estranged

LEMMA SameAccounts ==
  ASSUME disk' = disk, Accounts, budget.ops' <= budget.ops, budget.ops \in Nat,
         budget.ops' \in Nat, FilesOK
  PROVE  Accounts'
<1>1. /\ Whole' = Whole /\ Kept' = Kept /\ Saved' = Saved /\ Ore(Saved)' = Ore(Saved)
      /\ (Unseen' <=> Unseen) /\ Entered' = Entered
  BY SameDisk
<1>2. Awaits(Whole, Entered, disk.journal)' <=> Awaits(Whole, Entered, disk.journal)
  BY <1>1 DEF Awaits
<1>3. Sides(disk.journal)' <=> Sides(disk.journal)
  BY DEF Sides
<1>4. disk.journal # None => disk.journal.id + budget.ops' <= MaxOps
  <2>1. disk.journal # None => disk.journal.id \in Nat
    BY FileFields, OpFields DEF FilesOK, WellKept
  <2> QED BY <2>1, Constants DEF Accounts
<1> QED BY <1>1, <1>2, <1>3, <1>4 DEF Accounts, Balance

LEMMA Counts ==
  ASSUME LedgersOK
  PROVE  /\ ledger.next \in Nat /\ ledger.applied \in Nat /\ ledger.seq \in Nat
         /\ ledger.lost \in Nat /\ ledger \in Ledgers
         /\ Whole.next \in Nat /\ Whole.applied \in Nat /\ Whole.seq \in Nat
         /\ Whole.lost \in Nat /\ Whole \in Ledgers
         /\ budget.ops \in Nat /\ budget.losses \in Nat /\ MaxOps \in Nat /\ MaxLosses \in Nat
         /\ Whole.next + budget.ops <= MaxOps + 1 /\ Whole.lost + budget.losses <= MaxLosses
         /\ ledger.next + budget.ops <= MaxOps + 1
<1>1. ledger \in Ledgers /\ Whole \in Ledgers
  BY DEF LedgersOK, Sane
<1>2. budget.ops \in Nat /\ budget.losses \in Nat
  BY DEF LedgersOK
<1> QED BY <1>1, <1>2, Constants DEF Ledgers, LedgersOK

LEMMA BudgetSpent ==
  ASSUME LedgersOK, NEW what \in {"ops", "losses", "edits", "saves", "crashes"}, Spend(what)
  PROVE  /\ budget' \in [ops : Nat, losses : Nat, edits : Nat, saves : Nat, crashes : Nat]
         /\ budget' = [budget EXCEPT ![what] = budget[what] - 1] /\ budget[what] > 0
         /\ \A w \in {"ops", "losses", "edits", "saves", "crashes"} :
              /\ budget[w] \in Nat /\ budget'[w] \in Nat
              /\ budget'[w] = IF w = what THEN budget[w] - 1 ELSE budget[w]
BY DEF LedgersOK, Spend

LEMMA BeginEdit ==
  ASSUME IInv, NEW c \in Cells, BeginBreak(c) \/ BeginPlace(c)
  PROVE  IInv'
<1>1. /\ call = "idle" /\ call' = "edit" /\ chunk # None /\ step = None
      /\ step' = IF dirty THEN "snapshot" ELSE "journal"
      /\ UNCHANGED <<disk, chunk, ledger, dirty>> /\ Spend("ops")
  BY DEF IInv, Course, BeginBreak, BeginPlace, Idle, Start, Checkpoint
<1>2. /\ op' \in Ops /\ op'.id = 0 /\ op'.cell = c /\ op'.before = chunk[c]
      /\ Sides(op') /\ Awaits(ledger, Ore(chunk), op')
  <2>1. chunk \in Voxels /\ chunk[c] \in {"air", "plain", "ore"}
    BY <1>1, Constants DEF IInv, Memory, Voxels, Down, Writes
  <2>2. CASE BeginBreak(c)
    <3>1. op' = [kind |-> IF c \in ledger.placed THEN "break" ELSE "mine", id |-> 0,
                    cell |-> c, before |-> "ore", after |-> "air"] /\ chunk[c] = "ore"
      BY <2>2 DEF BeginBreak, Start
    <3> QED BY <2>1, <3>1 DEF Ops, Actions, Loss, Sides, Awaits, Ore
  <2>3. CASE BeginPlace(c)
    <3>1. op' = [kind |-> "place", id |-> 0,
                  cell |-> c, before |-> chunk[c], after |-> "ore"] /\ chunk[c] # "ore"
      BY <2>3 DEF BeginPlace, Start
    <3> QED BY <2>1, <3>1 DEF Ops, Actions, Loss, Sides, Awaits, Ore
  <2> QED BY <2>2, <2>3
<1>3. /\ budget.ops > 0 /\ budget' \in [ops : Nat, losses : Nat, edits : Nat, saves : Nat, crashes : Nat]
      /\ budget.ops \in Nat /\ budget'.ops = budget.ops - 1 /\ budget'.losses = budget.losses
      /\ budget.losses \in Nat
  BY <1>1, BudgetSpent DEF IInv
<1>4. FilesOK' /\ Kept' = Kept /\ Whole' = Whole /\ Ore(Saved)' = Ore(Saved)
  BY <1>1, SameDisk DEF IInv
<1>5. LedgersOK'
  <2> LedgersOK
    BY DEF IInv
  <2>1. /\ Sane(ledger)' /\ Sane(Whole)'
    BY <1>1, <1>4 DEF IInv, LedgersOK, Sane
  <2>2. ledger.next \in Nat /\ Whole.next \in Nat /\ Whole.lost \in Nat
    BY DEF IInv, LedgersOK, Sane, Ledgers
  <2>3. op # Loss /\ op' # Loss
    BY <1>1, <1>2, OpFields, Constants DEF IInv, Course, Actions
  <2>4. ledger'.next + budget'.ops <= MaxOps
    BY ONLY <1>1, <1>3, Counts, LedgersOK
  <2>5. Whole'.next + budget'.ops <= MaxOps + 1
    BY ONLY <1>3, <1>4, Counts, LedgersOK
  <2>6. Whole'.lost + budget'.losses <= MaxLosses
    BY ONLY <1>3, <1>4, Counts, LedgersOK
  <2>7. /\ disk'.ledger.next <= MaxOps + 1 /\ disk'.ledger.lost <= MaxLosses
        /\ Kept'.lost <= MaxLosses /\ Kept'.next <= MaxOps + 1
    BY <1>1, <1>4 DEF IInv, LedgersOK
  <2>8. ledger'.next \in Nat
    BY <1>1, <2>2
  <2> QED BY <1>3, <2>1, <2>3, <2>4, <2>5, <2>6, <2>7, <2>8, Constants DEF LedgersOK
<1>6. Course'
  BY <1>1, <1>2, OpFields DEF IInv, Course, Down, Opening, Handlers, Writes
<1>7. Memory'
  BY <1>1, <1>4 DEF IInv, Memory, Down, Course
<1>8. Accounts'
  BY <1>1, <1>3, SameAccounts DEF IInv
<1>9. Progress'
  BY <1>1, <1>2 DEF IInv, Progress, Opening
<1> QED BY <1>4, <1>5, <1>6, <1>7, <1>8, <1>9 DEF IInv

\* The bounds, for a step that changes the accounts at most within them.
LEMMA LedgersKept ==
  ASSUME LedgersOK, ledger' = ledger, Whole' = Whole, budget' = budget,
         Kept'.next <= MaxOps + 1, Kept'.lost <= MaxLosses,
         disk'.ledger.next <= MaxOps + 1, disk'.ledger.lost <= MaxLosses,
         call' = "edit" /\ Opening' => call = "edit" /\ Opening,
         op' = Loss /\ step' \notin {"append", "unpend", "linked"} =>
           op = Loss /\ step \notin {"append", "unpend", "linked"}
  PROVE  LedgersOK'
<1>1. Sane(ledger)' /\ Sane(Whole)'
  BY DEF LedgersOK, Sane
<1> QED BY <1>1 DEF LedgersOK

LEMMA Names ==
  /\ None \notin {"journal", "voxel", "chunk", "delta", "pending", "append", "unpend", "finish",
             "snapshot", "clear", "tidy", "world", "stage", "linked", "read", "replay"}
  /\ None # Loss /\ Loss \notin Ops /\ None \notin Ops /\ Loss \in Actions
  /\ \A o \in Ops : o # Loss /\ o # None
BY Constants, OpFields DEF Writes, Actions, Ops

LEMMA BeginOther ==
  ASSUME IInv, RecordLoss \/ LinkLoss \/ SaveWorld
  PROVE  IInv'
<1>1. /\ call = "idle" /\ step = None /\ op = None
      /\ UNCHANGED <<disk, chunk, ledger, dirty>>
  BY DEF IInv, Course, RecordLoss, LinkLoss, SaveWorld, Idle
<1>2. PICK what \in {"losses", "saves"} :
        /\ Spend(what) /\ (what = "losses" <=> op' = Loss)
        /\ \/ call' = "loss" /\ op' = Loss /\ step' = IF dirty THEN "snapshot" ELSE "pending"
           \/ call' = "link" /\ op' = Loss /\ step' = IF dirty THEN "snapshot" ELSE "stage"
           \/ call' = "save" /\ op' = None /\ step' = "snapshot"
  BY Names DEF RecordLoss, LinkLoss, SaveWorld, Start, Checkpoint
<1>3. FilesOK' /\ Kept' = Kept /\ Whole' = Whole /\ Ore(Saved)' = Ore(Saved)
  BY <1>1, SameDisk DEF IInv
<1>4. /\ budget' \in [ops : Nat, losses : Nat, edits : Nat, saves : Nat, crashes : Nat]
      /\ budget'.ops = budget.ops /\ budget'.losses \in Nat /\ budget'.losses <= budget.losses
      /\ op' = Loss => budget'.losses < budget.losses
  BY <1>2, BudgetSpent DEF IInv
<1>5. LedgersOK'
  <2> LedgersOK
    BY DEF IInv
  <2>1. /\ Sane(ledger)' /\ Sane(Whole)'
    BY <1>1, <1>3 DEF LedgersOK, Sane
  <2>2. ledger'.next + budget'.ops <= MaxOps + 1 /\ Whole'.next + budget'.ops <= MaxOps + 1
    BY ONLY <1>1, <1>3, <1>4, Counts, LedgersOK
  <2>3. Whole'.lost + budget'.losses <= MaxLosses
    BY ONLY <1>3, <1>4, Counts, LedgersOK
  <2>4. op' = Loss => Whole'.lost + budget'.losses < MaxLosses
    BY ONLY <1>3, <1>4, Counts, LedgersOK
  <2>5. /\ disk'.ledger.next <= MaxOps + 1 /\ disk'.ledger.lost <= MaxLosses
        /\ Kept'.lost <= MaxLosses /\ Kept'.next <= MaxOps + 1
    BY <1>1, <1>3 DEF LedgersOK
  <2> QED BY <1>2, <1>4, <2>1, <2>2, <2>3, <2>4, <2>5 DEF LedgersOK
<1>6. Course'
  BY <1>1, <1>2, Names DEF IInv, Course, Down, Opening, Handlers, Writes
<1>7. Memory'
  BY <1>1, <1>2, <1>3, Names DEF IInv, Memory, Down, Course
<1>8. Accounts'
  BY <1>1, <1>4, SameAccounts, Counts DEF IInv
<1>9. Progress'
  BY <1>1, <1>2, Names DEF IInv, Progress, Opening
<1> QED BY <1>3, <1>5, <1>6, <1>7, <1>8, <1>9 DEF IInv

\* The accounts of the ledger in memory are those of the files.
LEMMA Accounted ==
  ASSUME IInv, ~Down, step # "read", step \notin {"append", "linked"}
  PROVE  /\ Whole = Kept
         /\ \A part \in {"applied", "placed", "lost", "seq"} : ledger[part] = Whole[part]
<1>1. disk.coordinator = None /\ ~Ahead(disk)
  <2>1. disk.coordinator = None
    BY DEF IInv, Course
  <2>2. CASE disk.pending = None
    BY <2>1, <2>2 DEF Ahead
  <2>3. CASE disk.pending # None
    <3>1. step = "unpend" /\ disk.log # <<>> /\ disk.pending = Final(disk.log)
      BY <2>3 DEF IInv, Course
    <3>2. disk \in Files
      BY DEF IInv, FilesOK, WellKept
    <3>3. LastSeq(disk) \in Nat /\ LastSeq(disk) = disk.pending.seq
      BY <3>1, <3>2, FileFields DEF LastSeq, Final
    <3> QED BY <2>1, <3>3 DEF Ahead
  <2> QED BY <2>2, <2>3
<1>2. Whole = Kept
  BY <1>1 DEF Whole, Kept, Forecast
<1> QED BY <1>2 DEF IInv, Memory

LEMMA DoValidate ==
  ASSUME IInv, Validate
  PROVE  IInv' /\ UNCHANGED disk
<1>1. /\ step = "delta" /\ UNCHANGED <<disk, chunk, ledger, dirty, budget>>
      /\ call \in {"edit", "boot"} /\ ~Down /\ (dirty => Miscounting)
      /\ op \in Ops /\ op.id \in Nat \ {0} /\ disk.journal = op /\ Saved[op.cell] = op.after
  <2>1. /\ step = "delta" /\ UNCHANGED <<disk, chunk, ledger, dirty, budget>>
        /\ call \in {"edit", "boot"} /\ ~Down
    BY DEF IInv, Course, Validate, Down
  <2>2. op \in Ops /\ op.id # 0 /\ disk.journal = op
    BY <2>1 DEF IInv, Course, Opening
  <2>3. dirty => Miscounting
    BY <2>1, Names DEF IInv, Memory
  <2>4. Saved[op.cell] = op.after
    BY <2>1, <2>2, Names DEF IInv, Progress
  <2> QED BY <2>1, <2>2, <2>3, <2>4, OpFields
<1>2. Whole = Kept /\ ledger.applied = Whole.applied
  BY <1>1, Accounted
<1>3. op.id > ledger.applied => Unseen
  BY <1>1, <1>2, Names DEF Unseen
<1>4. ~Exhausted(ledger, op)
  <2> SUFFICES ASSUME op.kind = "mine", op.id > ledger.applied PROVE ledger.reserved \notin {None, 0}
    BY DEF Exhausted
  <2>1. op.cell \in Entered \ Whole.placed /\ disk.journal # None
    BY <1>1, <1>3, Names DEF IInv, Accounts, Awaits
  <2>2. Natural # {} /\ Whole.reserved = Cardinality(Entered \ Whole.placed)
    BY <2>1 DEF IInv, Accounts, Balance
  <2>3. ledger.reserved = Whole.reserved
    BY <1>1, <1>2, <2>2 DEF IInv, Memory, Miscounting
  <2>4. Entered \ Whole.placed \subseteq Cells
    BY <1>1, OpFields DEF Entered, Ore
  <2>5. IsFiniteSet(Entered \ Whole.placed)
    BY <2>4, Constants, FS_Subset
  <2>6. Cardinality(Entered \ Whole.placed) \in Nat \ {0}
    BY <2>1, <2>5, FS_EmptySet, FS_CardinalityType
  <2> QED BY <2>2, <2>3, <2>6, Constants
<1>5. /\ UNCHANGED <<call, op>>
      /\ \/ op.id <= ledger.applied /\ step' = "finish" /\ ~dirty
         \/ op.id > ledger.applied /\ step' = IF dirty THEN "snapshot" ELSE "pending"
  BY <1>1, <1>4, OpFields, Counts DEF Validate, Checkpoint, Miscounting, IInv
<1>6. FilesOK' /\ Kept' = Kept /\ Whole' = Whole /\ Ore(Saved)' = Ore(Saved) /\ Saved' = Saved
      /\ (Unseen' <=> Unseen)
  BY <1>1, SameDisk DEF IInv
<1>7. LedgersOK'
  <2>1. /\ Kept'.next <= MaxOps + 1 /\ Kept'.lost <= MaxLosses
        /\ disk'.ledger.next <= MaxOps + 1 /\ disk'.ledger.lost <= MaxLosses
    BY <1>1, <1>6 DEF IInv, LedgersOK
  <2> QED BY <1>1, <1>5, <1>6, <2>1, LedgersKept, Names DEF IInv, Opening, Miscounting
<1>8. Course'
  BY <1>1, <1>5, Names DEF IInv, Course, Down, Opening, Handlers, Writes, Miscounting
<1>9. Memory'
  BY <1>1, <1>5, <1>6, Names DEF IInv, Memory, Down, Course, Miscounting
<1>10. Accounts'
  BY <1>1, SameAccounts, Counts DEF IInv
<1>11. Progress'
  <2>1. op.id <= ledger.applied => ~Unseen'
    BY <1>1, <1>2, <1>6, OpFields, Counts DEF Unseen, IInv
  <2> QED BY <1>1, <1>5, <1>6, <2>1, Names DEF Progress, Opening, Miscounting
<1> QED BY <1>1, <1>6, <1>7, <1>8, <1>9, <1>10, <1>11 DEF IInv

\* Where no operation is journalled, the ledger has all the blocks of the chunk.
LEMMA NoJournal ==
  ASSUME disk.journal = None
  PROVE  ~Unseen /\ Entered = Ore(Saved)
BY DEF Unseen, Entered

\* An edit under way has its chunk, and leaves nothing else to be written.
LEMMA EditReady ==
  ASSUME IInv, call \in {"edit", "boot"}, op \in Ops, step \in Writes,
         step \notin {"read", "replay", "snapshot", "clear", "tidy"}
  PROVE  /\ ~Down /\ chunk # None /\ chunk \in Voxels
         /\ Natural # {} => ledger.reserved # None
         /\ step # "delta" => ~dirty /\ ledger.reserved = Kept.reserved
<1>1. ~Down /\ step # None /\ step # "world"
  BY Names, Constants DEF Down, IInv, Course
<1>2. chunk # None
  BY <1>1 DEF IInv, Course
<1>3. step # "delta" => ~dirty
  BY <1>1, Constants DEF IInv, Memory, Miscounting
<1> QED BY <1>1, <1>2, <1>3 DEF IInv, Memory

LEMMA DoWriteJournal ==
  ASSUME IInv, WriteJournal
  PROVE  IInv' /\ Steady
<1>1. /\ step = "journal" /\ call = "edit" /\ op \in Ops /\ op.id = 0 /\ disk.journal = None
      /\ UNCHANGED <<chunk, dirty, budget>> /\ ledger' = [ledger EXCEPT !.next = @ + 1]
      /\ Sides(op) /\ chunk[op.cell] = op.before /\ Awaits(ledger, Ore(chunk), op)
      /\ disk.pending = None /\ disk.coordinator = None /\ ~disk.torn
  BY DEF IInv, Course, Opening, Progress, WriteJournal, Down
<1>2. ~dirty /\ chunk # None /\ (Natural # {} => ledger.reserved # None)
      /\ ledger.reserved = Kept.reserved /\ chunk \in Voxels /\ ~Down
  BY <1>1, EditReady DEF Writes
<1>3. /\ Whole = Kept
      /\ \A part \in {"applied", "placed", "lost", "seq"} : ledger[part] = Whole[part]
      /\ Ore(chunk) = Ore(Saved)
  BY <1>1, <1>2, Accounted DEF IInv, Memory
<1>4. /\ ledger' \in Ledgers /\ ledger'.next = ledger.next + 1
      /\ \A part \in {"applied", "placed", "lost", "seq", "reserved"} : ledger'[part] = ledger[part]
  BY <1>1, Counts DEF IInv, Ledgers
<1>5. Sane(ledger)'
  BY <1>4, Counts DEF IInv, LedgersOK, Sane
<1>6. ledger'.next + budget.ops <= MaxOps + 1 /\ ledger.next + budget.ops <= MaxOps
  <2>1. ledger.next + budget.ops <= MaxOps
    BY <1>1 DEF IInv, LedgersOK, Opening
  <2> QED BY <1>4, <2>1, Counts DEF IInv
<1>7. CASE call' = "idle"
  <2>1. UNCHANGED disk /\ step' = None /\ op' = None
    BY <1>1, <1>7 DEF WriteJournal, Return
  <2>2. FilesOK' /\ Kept' = Kept /\ Whole' = Whole /\ Ore(Saved)' = Ore(Saved)
    BY <2>1, SameDisk DEF IInv
  <2>3. LedgersOK'
    <3>1. Sane(Whole)'
      BY <2>2 DEF IInv, LedgersOK, Sane
    <3> QED BY <1>1, <1>5, <1>6, <1>7, <2>1, <2>2, <3>1, Names DEF IInv, LedgersOK
  <2>4. Course'
    BY <1>1, <1>7, <2>1, Names DEF IInv, Course, Down, Opening, Handlers, Writes
  <2>5. Memory'
    BY <1>1, <1>2, <1>3, <1>4, <1>7, <2>1, <2>2, Names DEF Memory, Down
  <2>6. Accounts'
    BY <1>1, <2>1, SameAccounts, Counts DEF IInv
  <2>7. Progress'
    BY <1>7, <2>1, Names DEF Progress, Opening
  <2>8. Steady
    BY <2>1, SteadySame
  <2> QED BY <2>2, <2>3, <2>4, <2>5, <2>6, <2>7, <2>8 DEF IInv
<1>8. CASE call' = "edit"
  <2>1. /\ op' = [op EXCEPT !.id = ledger.next] /\ disk' = [disk EXCEPT !.journal = op']
        /\ step' = "voxel"
    BY <1>1, <1>8 DEF WriteJournal, Return
  <2>2. /\ op' \in Ops /\ op'.id = ledger.next /\ op'.id > 0 /\ op'.cell = op.cell
        /\ op'.kind = op.kind /\ op'.before = op.before /\ op'.after = op.after
    <3>1. ledger.next \in Nat /\ ledger.next > 0
      BY Counts DEF IInv, LedgersOK, Sane
    <3>2. op.kind # "loss" /\ op \in Actions
      BY <1>1, OpFields
    <3> QED BY <1>1, <2>1, <3>1, <3>2 DEF Ops, Actions, Loss
  <2>3. disk \in Files /\ disk' \in Files /\ disk'.journal = op' /\ disk'.chunk = disk.chunk
        /\ disk'.ledger = disk.ledger /\ disk'.log = disk.log /\ disk'.torn = disk.torn
        /\ disk'.pending = disk.pending /\ disk'.coordinator = disk.coordinator
    <3>1. disk \in Files
      BY DEF IInv, FilesOK, WellKept
    <3> QED BY <2>1, <2>2, <3>1 DEF Files
  <2>4. FilesOK' /\ Kept' = Kept /\ Whole' = Whole
    <3>1. WellKept(disk') /\ Base(disk') = Base(disk) /\ Forecast(disk') = Forecast(disk)
      BY <2>3, SameLedger DEF IInv, FilesOK
    <3> QED BY <3>1 DEF FilesOK, Kept, Whole
  <2>5. Saved' = Saved /\ Ore(Saved)' = Ore(Saved)
    BY <2>3 DEF Saved, Ore
  <2>6. Unseen'
    <3>1. ledger.next > ledger.applied
      BY DEF IInv, LedgersOK, Sane
    <3> QED BY <1>3, <2>2, <2>3, <2>4, <3>1, Names DEF Unseen
  <2>7. op.cell \in Cells /\ (op.cell \in Ore(Saved) <=> op.before = "ore")
    BY <1>1, <1>3, OpFields DEF Ore
  <2>8. Entered' = Ore(Saved) /\ Entered = Ore(Saved)
    BY <1>1, <2>2, <2>3, <2>5, <2>6, <2>7, NoJournal DEF Entered
  <2>9. LedgersOK'
    <3>1. Sane(Whole)'
      BY <2>4 DEF IInv, LedgersOK, Sane
    <3> QED BY <1>1, <1>5, <1>6, <1>8, <2>1, <2>2, <2>3, <2>4, <3>1, Names DEF IInv, LedgersOK, Opening
  <2>10. Course'
    BY <1>1, <1>2, <1>8, <2>1, <2>2, <2>3, Names DEF IInv, Course, Down, Opening, Handlers, Writes
  <2>11. Memory'
    BY <1>1, <1>2, <1>3, <1>4, <1>8, <2>1, <2>4, <2>5, Names DEF Memory, Down
  <2>12. Accounts'
    <3>1. Natural # {} => Whole.reserved # None
      BY <1>2, <1>3
    <3>2. Sides(disk.journal)'
      BY <1>1, <2>2, <2>3 DEF Sides
    <3>3. Awaits(Whole, Entered, disk.journal)'
      BY <1>1, <1>3, <2>2, <2>3, <2>4, <2>8 DEF Awaits
    <3>4. disk'.journal.id + budget'.ops <= MaxOps /\ disk'.journal.id > 0
      BY <1>1, <1>6, <2>2, <2>3
    <3>5. disk'.journal.before = "ore" => Saved'[disk'.journal.cell] \in {"ore", "air"}
      BY <2>2, <2>3, <2>5, <2>7 DEF Ore
    <3>6. Balance'
      BY <2>4, <2>8, <3>1 DEF IInv, Accounts, Balance
    <3> QED BY <2>4, <2>6, <3>1, <3>2, <3>3, <3>4, <3>5, <3>6 DEF Accounts
  <2>13. Saved'[op'.cell] # op'.after
    BY <1>1, <2>2, <2>5, <2>7, OpFields DEF Ore, Sides
  <2>14. Steady
    BY <1>1, <2>3, <2>4, <2>5, <2>13, SteadyApart DEF Settles, Unseen
  <2>15. Progress'
    <3>1. Saved'[op'.cell] # op'.after
      BY <2>13
    <3>2. Sides(op)' /\ chunk'[op'.cell] = op'.before /\ Awaits(ledger, Ore(chunk), op)'
      BY <1>1, <1>4, <2>2 DEF Sides, Awaits, Ore
    <3> QED BY <1>8, <2>1, <2>6, <3>1, <3>2 DEF Progress, Opening
  <2> QED BY <2>4, <2>9, <2>10, <2>11, <2>12, <2>14, <2>15 DEF IInv
<1> QED BY <1>1, <1>7, <1>8 DEF WriteJournal, Return

\* The journal of an operation, and where the blocks of its cell stand.
LEMMA Journal ==
  ASSUME IInv, disk.journal # None
  PROVE  /\ disk.journal \in Ops /\ Sides(disk.journal) /\ disk.journal.id \in Nat \ {0}
         /\ disk.journal.before # disk.journal.after /\ disk.journal.cell \in Cells
         /\ (disk.journal.before = "ore") <=> (disk.journal.kind \in {"mine", "break"})
         /\ (disk.journal.before # "ore") <=> (disk.journal.after = "ore")
         /\ (Natural # {} => Whole.reserved # None) /\ Balance
<1>1. disk.journal \in Ops
  BY DEF IInv, FilesOK, WellKept, Files
<1>2. Sides(disk.journal) /\ disk.journal.id > 0
      /\ (Natural # {} => Whole.reserved # None) /\ Balance
  BY DEF IInv, Accounts
<1> QED BY <1>1, <1>2, OpFields DEF Sides

LEMMA EnteredBefore ==
  ASSUME IInv, disk.journal # None, Saved[disk.journal.cell] # disk.journal.after
  PROVE  Entered = Ore(Saved) /\ Unseen
<1>1. Unseen
  BY DEF IInv, Accounts
<1>2. CASE disk.journal.before = "ore"
  <2>1. disk.journal.kind \in {"mine", "break"} /\ disk.journal.after = "air"
    BY <1>2, Journal DEF Sides
  <2>2. Saved[disk.journal.cell] = "ore"
    BY <1>2, <2>1 DEF IInv, Accounts
  <2> QED BY <1>1, <1>2, <2>2, Journal DEF Entered, Ore
<1>3. CASE disk.journal.before # "ore"
  <2>1. disk.journal.after = "ore"
    BY <1>3, Journal
  <2> QED BY <1>1, <1>3, <2>1 DEF Entered, Ore
<1> QED BY <1>2, <1>3

LEMMA EnteredAfter ==
  ASSUME IInv, Unseen, Saved[disk.journal.cell] = disk.journal.after
  PROVE  /\ disk.journal.before = "ore" =>
              Entered = Ore(Saved) \cup {disk.journal.cell} /\ disk.journal.cell \notin Ore(Saved)
         /\ disk.journal.before # "ore" =>
              Entered = Ore(Saved) \ {disk.journal.cell} /\ disk.journal.cell \in Ore(Saved)
<1>1. disk.journal # None
  BY DEF Unseen
<1>2. (disk.journal.before = "ore") <=> (disk.journal.after # "ore")
  BY <1>1, Journal
<1>3. disk.journal.cell \in Cells
  BY <1>1, Journal
<1> QED BY <1>2, <1>3 DEF Entered, Ore

\* Writing or removing the journal, or writing the chunk, leaves the ledger alone.
LEMMA BesideLedger ==
  ASSUME IInv, NEW v \in {None} \cup Voxels, NEW j \in {None} \cup Ops,
         disk' = [disk EXCEPT !.chunk = v, !.journal = j]
  PROVE  /\ FilesOK' /\ Kept' = Kept /\ Whole' = Whole
         /\ disk'.chunk = v /\ disk'.journal = j /\ disk'.ledger = disk.ledger
         /\ disk'.log = disk.log /\ disk'.torn = disk.torn
         /\ disk'.pending = disk.pending /\ disk'.coordinator = disk.coordinator
<1>1. disk \in Files
  BY DEF IInv, FilesOK, WellKept
<1>2. /\ disk' \in Files
      /\ disk'.chunk = v /\ disk'.journal = j /\ disk'.ledger = disk.ledger
      /\ disk'.log = disk.log /\ disk'.torn = disk.torn
      /\ disk'.pending = disk.pending /\ disk'.coordinator = disk.coordinator
  BY <1>1 DEF Files
<1>3. WellKept(disk') /\ Base(disk') = Base(disk) /\ Forecast(disk') = Forecast(disk)
  BY <1>2, SameLedger DEF IInv, FilesOK
<1> QED BY <1>2, <1>3 DEF FilesOK, Kept, Whole

LEMMA JournalWritten ==
  ASSUME IInv, NEW j \in {None} \cup Ops, disk' = [disk EXCEPT !.journal = j]
  PROVE  disk' = [disk EXCEPT !.chunk = disk.chunk, !.journal = j] /\ Saved' = Saved
         /\ Ore(Saved)' = Ore(Saved) /\ disk.chunk \in {None} \cup Voxels
<1>1. disk \in Files
  BY DEF IInv, FilesOK, WellKept
<1>2. disk' = [disk EXCEPT !.chunk = disk.chunk, !.journal = j] /\ disk'.chunk = disk.chunk
  BY <1>1 DEF Files
<1>3. Saved' = Saved
  BY <1>2 DEF Saved
<1> QED BY <1>1, <1>2, <1>3 DEF Ore, Files

LEMMA DoSetVoxel ==
  ASSUME IInv, SetVoxel
  PROVE  IInv' /\ Steady
<1>1. /\ step = "voxel" /\ call = "edit" /\ op \in Ops /\ disk.journal = op /\ op # None
      /\ UNCHANGED <<ledger, dirty, budget>>
      /\ Sides(op) /\ chunk[op.cell] = op.before /\ Unseen /\ Saved[op.cell] # op.after
      /\ disk.pending = None /\ disk.coordinator = None /\ ~disk.torn
  BY Names DEF IInv, Course, Opening, Progress, SetVoxel, Down
<1>2. ~dirty /\ chunk # None /\ (Natural # {} => ledger.reserved # None)
      /\ ledger.reserved = Kept.reserved /\ chunk \in Voxels /\ ~Down
  BY <1>1, EditReady DEF Writes
<1>3. /\ Whole = Kept
      /\ \A part \in {"applied", "placed", "lost", "seq"} : ledger[part] = Whole[part]
      /\ Ore(chunk) = Ore(Saved)
  BY <1>1, <1>2, Accounted DEF IInv, Memory
<1>4. op.cell \in Cells /\ op.before # op.after /\ ((op.before # "ore") <=> (op.after = "ore"))
  BY <1>1, Journal
<1>5. CASE step' = "chunk"
  <2>1. chunk' = [chunk EXCEPT ![op.cell] = op.after] /\ UNCHANGED <<disk, call, op>>
    BY <1>5, Names DEF SetVoxel, Return
  <2>2. FilesOK' /\ Kept' = Kept /\ Whole' = Whole /\ Ore(Saved)' = Ore(Saved) /\ Saved' = Saved
        /\ (Unseen' <=> Unseen)
    BY <2>1, SameDisk DEF IInv
  <2>3. LedgersOK'
    <3>1. /\ Kept'.next <= MaxOps + 1 /\ Kept'.lost <= MaxLosses
          /\ disk'.ledger.next <= MaxOps + 1 /\ disk'.ledger.lost <= MaxLosses
      BY <2>1, <2>2 DEF IInv, LedgersOK
    <3> QED BY <1>1, <1>5, <2>1, <2>2, <3>1, LedgersKept, Names DEF IInv, Opening
  <2>4. chunk' \in Voxels /\ chunk' # None
    <3>1. op.after \in {"air", "plain", "ore"}
      BY <1>1, OpFields
    <3>2. chunk' \in Voxels
      BY <1>2, <1>4, <2>1, <3>1 DEF Voxels
    <3> QED BY <3>2, Constants
  <2>5. Course'
    BY <1>1, <1>5, <2>1, <2>4, Names DEF IInv, Course, Down, Opening, Handlers, Writes
  <2>6. Memory'
    BY <1>1, <1>2, <1>3, <1>5, <2>1, <2>2, <2>4, Names DEF IInv, Memory, Down
  <2>7. Accounts'
    <3>1. disk' = disk /\ budget'.ops = budget.ops
      BY <1>1, <2>1
    <3> QED BY <3>1, SameAccounts, Counts DEF IInv
  <2>8. chunk'[op'.cell] = op'.after
    BY <1>2, <1>4, <2>1 DEF Voxels
  <2>9. \A c \in Cells : c # op.cell => chunk'[c] = chunk[c]
    BY <1>2, <2>1 DEF Voxels
  <2>10. Ore(chunk)' = IF op'.after = "ore" THEN Ore(Saved)' \cup {op'.cell}
                       ELSE Ore(Saved)' \ {op'.cell}
    <3>1. Ore(chunk') = IF op.after = "ore" THEN Ore(chunk) \cup {op.cell}
                        ELSE Ore(chunk) \ {op.cell}
      BY <1>4, <2>1, <2>8, <2>9 DEF Ore
    <3>2. Ore(chunk)' = Ore(chunk')
      BY DEF Ore
    <3> QED BY <1>3, <2>1, <2>2, <3>1, <3>2
  <2>11. Progress'
    BY <1>1, <1>5, <2>1, <2>2, <2>8, <2>10, Names DEF Progress, Opening
  <2>12. Steady
    BY <2>1, SteadySame
  <2> QED BY <2>2, <2>3, <2>5, <2>6, <2>7, <2>11, <2>12 DEF IInv
<1>6. CASE step' = None
  <2>1. disk' = [disk EXCEPT !.journal = None] /\ UNCHANGED chunk /\ call' = "idle" /\ op' = None
    BY <1>6, Names DEF SetVoxel, Return
  <2>2. /\ disk' = [disk EXCEPT !.chunk = disk.chunk, !.journal = None] /\ Saved' = Saved
        /\ Ore(Saved)' = Ore(Saved) /\ disk.chunk \in {None} \cup Voxels
    BY <2>1, JournalWritten
  <2>3. /\ FilesOK' /\ Kept' = Kept /\ Whole' = Whole
        /\ disk'.journal = None /\ disk'.ledger = disk.ledger /\ disk'.torn = disk.torn
        /\ disk'.pending = disk.pending /\ disk'.coordinator = disk.coordinator
    BY <2>2, BesideLedger
  <2>4. LedgersOK'
    <3>1. /\ Kept'.next <= MaxOps + 1 /\ Kept'.lost <= MaxLosses
          /\ disk'.ledger.next <= MaxOps + 1 /\ disk'.ledger.lost <= MaxLosses
      BY <2>3 DEF IInv, LedgersOK
    <3> QED BY <1>1, <1>6, <2>1, <2>3, <3>1, LedgersKept, Names DEF IInv
  <2>5. Course'
    BY <1>1, <1>6, <2>1, <2>3, Names DEF IInv, Course, Down, Opening, Handlers, Writes
  <2>6. Memory'
    BY <1>1, <1>2, <1>3, <1>6, <2>1, <2>2, <2>3, Names DEF IInv, Memory, Down
  <2>7. Entered' = Entered /\ ~Unseen'
    <3>1. Entered = Ore(Saved)
      BY <1>1, EnteredBefore
    <3> QED BY <2>2, <2>3, <3>1 DEF Unseen, Entered
  <2>8. Accounts'
    BY <1>1, <2>2, <2>3, <2>7, Journal DEF Accounts, Balance
  <2>9. Progress'
    BY <1>6, <2>1, Names DEF Progress, Opening
  <2>10. Steady
    BY <1>1, <2>2, <2>3, <2>7, SteadyApart DEF Settles
  <2> QED BY <2>3, <2>4, <2>5, <2>6, <2>8, <2>9, <2>10 DEF IInv
<1> QED BY <1>5, <1>6 DEF SetVoxel, Return

LEMMA DoSaveChunk ==
  ASSUME IInv, SaveChunk, MayFail \subseteq CleanFailures
  PROVE  IInv' /\ Edited
<1>1. /\ step = "chunk" /\ call = "edit" /\ op \in Ops /\ disk.journal = op /\ op # None
      /\ UNCHANGED <<chunk, ledger, dirty, budget, call, op>>
      /\ disk' = [disk EXCEPT !.chunk = chunk] /\ step' = "delta"
      /\ chunk[op.cell] = op.after /\ Unseen
      /\ Ore(chunk) = IF op.after = "ore" THEN Ore(Saved) \cup {op.cell}
                      ELSE Ore(Saved) \ {op.cell}
      /\ disk.pending = None /\ disk.coordinator = None /\ ~disk.torn
  BY Names DEF IInv, Course, Opening, Progress, SaveChunk, Down, CleanFailures
<1>2. ~dirty /\ chunk # None /\ (Natural # {} => ledger.reserved # None)
      /\ ledger.reserved = Kept.reserved /\ chunk \in Voxels /\ ~Down
  BY <1>1, EditReady DEF Writes
<1>3. /\ Whole = Kept
      /\ \A part \in {"applied", "placed", "lost", "seq"} : ledger[part] = Whole[part]
  BY <1>1, <1>2, Accounted
<1>4. op.cell \in Cells /\ op.before # op.after /\ ((op.before # "ore") <=> (op.after = "ore"))
  BY <1>1, Journal
<1>5. disk \in Files /\ disk.journal \in {None} \cup Ops /\ chunk \in {None} \cup Voxels
  BY <1>2 DEF IInv, FilesOK, WellKept, Files
<1>6. disk' = [disk EXCEPT !.chunk = chunk, !.journal = disk.journal]
  BY <1>1, <1>5 DEF Files
<1>7. /\ FilesOK' /\ Kept' = Kept /\ Whole' = Whole /\ disk'.chunk = chunk
      /\ disk'.journal = disk.journal /\ disk'.ledger = disk.ledger /\ disk'.torn = disk.torn
      /\ disk'.pending = disk.pending /\ disk'.coordinator = disk.coordinator
  BY <1>5, <1>6, BesideLedger
<1>8. Saved' = chunk
  BY <1>2, <1>7 DEF Saved
<1>9. Ore(Saved)' = Ore(chunk) /\ Ore(chunk)' = Ore(chunk)
  BY <1>1, <1>8 DEF Ore
<1>10. (Unseen' <=> Unseen) /\ Entered' = Entered
  <2>1. Unseen' <=> Unseen
    BY <1>7 DEF Unseen
  <2>2. Entered = IF op.before = "ore" THEN Ore(Saved) \cup {op.cell} ELSE Ore(Saved) \ {op.cell}
    BY <1>1 DEF Entered
  <2>3. Entered' = IF op.before = "ore" THEN Ore(chunk) \cup {op.cell} ELSE Ore(chunk) \ {op.cell}
    BY <1>1, <1>7, <1>9, <2>1 DEF Entered
  <2> QED BY <1>1, <1>4, <2>1, <2>2, <2>3
<1>11. LedgersOK'
  <2>1. /\ Kept'.next <= MaxOps + 1 /\ Kept'.lost <= MaxLosses
        /\ disk'.ledger.next <= MaxOps + 1 /\ disk'.ledger.lost <= MaxLosses
    BY <1>7 DEF IInv, LedgersOK
  <2> QED BY <1>1, <1>7, <2>1, LedgersKept, Names DEF IInv, Opening
<1>12. Course'
  BY <1>1, <1>2, <1>7, Names DEF IInv, Course, Down, Opening, Handlers, Writes
<1>13. Memory'
  BY <1>1, <1>2, <1>3, <1>7, <1>9, Names DEF Memory, Down
<1>14. Accounts'
  <2>1. Awaits(Whole, Entered, disk.journal)'
    BY <1>1, <1>7, <1>10, Names DEF IInv, Accounts, Awaits
  <2>2. disk'.journal.before = "ore" => Saved'[disk'.journal.cell] \in {"ore", "air"}
    BY <1>1, <1>7, <1>8, Journal DEF Sides
  <2>3. Sides(disk.journal)'
    BY <1>1, <1>7, Journal DEF Sides
  <2>4. disk'.journal.id + budget'.ops <= MaxOps /\ disk'.journal.id > 0
    BY <1>1, <1>7 DEF IInv, Accounts
  <2>5. Balance' /\ (Natural # {} => Whole'.reserved # None)
    BY <1>1, <1>7, <1>10, Journal DEF Balance
  <2> QED BY <1>1, <1>7, <1>10, <2>1, <2>2, <2>3, <2>4, <2>5 DEF Accounts
<1>16. Awaits(Whole, Ore(Saved), disk.journal) /\ Ore(Saved) \subseteq Cells
         /\ Saved[op.cell] # op.after
  <2>1. Saved[op.cell] # op.after
    BY <1>1 DEF IInv, Progress
  <2>2. Entered = Ore(Saved) /\ Unseen
    BY <1>1, <2>1, EnteredBefore
  <2> QED BY <1>1, <2>1, <2>2 DEF IInv, Accounts, Ore
<1>15. Progress'
  BY <1>1, <1>8, Names DEF Progress, Opening
<1>17. Edited
  BY <1>1, <1>4, <1>7, <1>8, <1>9, <1>10, <1>16, Journal DEF Edited, Settles
<1> QED BY <1>7, <1>11, <1>12, <1>13, <1>14, <1>15, <1>17 DEF IInv

LEMMA NotAhead ==
  ASSUME IInv, step \notin {"append"}, ~Down
  PROVE  ~Ahead(disk) /\ (step # "linked" => disk.coordinator = None)
<1>1. CASE disk.pending = None
  BY <1>1 DEF Ahead, IInv, Course
<1>2. CASE disk.pending # None
  <2>1. disk.log # <<>> /\ disk.pending = Final(disk.log)
    BY <1>2 DEF IInv, Course
  <2>2. disk \in Files
    BY DEF IInv, FilesOK, WellKept
  <2>3. LastSeq(disk) \in Nat /\ LastSeq(disk) = disk.pending.seq
    BY <2>1, <2>2, FileFields DEF LastSeq, Final
  <2> QED BY <2>3 DEF Ahead, IInv, Course
<1> QED BY <1>1, <1>2

\* An operation moves the block of its cell from one account to the other, or out.
LEMMA Balanced ==
  ASSUME IInv, Unseen, Saved[disk.journal.cell] = disk.journal.after
  PROVE  LET o == disk.journal
             s == Seen(Whole, o)
         IN  /\ o.kind = "mine" => Whole.reserved \in Nat \ {0}
             /\ s.placed \subseteq Ore(Saved)
             /\ Natural = {} => s.placed = Ore(Saved) /\ s.reserved = Whole.reserved
             /\ Natural # {} => /\ s.reserved = Cardinality(Ore(Saved) \ s.placed)
                               /\ s.reserved # None
<1> DEFINE o == disk.journal
           s == Seen(Whole, o)
<1>1. o # None
  BY DEF Unseen
<1>2. /\ o \in Ops /\ Sides(o) /\ o.cell \in Cells /\ Whole.placed \subseteq Entered
      /\ (Natural # {} => Whole.reserved = Cardinality(Entered \ Whole.placed))
      /\ (Natural = {} => Entered = Whole.placed)
      /\ Awaits(Whole, Entered, o) /\ o.kind \in {"mine", "break", "place"}
  BY <1>1, Journal, OpFields DEF IInv, Accounts, Balance
<1>3. /\ o.before = "ore" => Entered = Ore(Saved) \cup {o.cell} /\ o.cell \notin Ore(Saved)
      /\ o.before # "ore" => Entered = Ore(Saved) \ {o.cell} /\ o.cell \in Ore(Saved)
  BY EnteredAfter
<1>4. IsFiniteSet(Entered \ Whole.placed) /\ IsFiniteSet(Ore(Saved))
  <2>1. Entered \subseteq Cells /\ Ore(Saved) \subseteq Cells
    BY <1>2, <1>3 DEF Ore
  <2> QED BY <2>1, Constants, FS_Subset
<1>5. s.reserved = (IF o.kind = "mine" THEN Whole.reserved - 1 ELSE Whole.reserved)
      /\ s.placed = IF o.kind = "break" THEN Whole.placed \ {o.cell}
                    ELSE IF o.kind = "place" THEN Whole.placed \cup {o.cell} ELSE Whole.placed
  BY DEF Seen
<1> HIDE DEF s, o
<1> SUFFICES /\ o.kind = "mine" => Whole.reserved \in Nat \ {0}
             /\ s.placed \subseteq Ore(Saved)
             /\ Natural = {} => s.placed = Ore(Saved) /\ s.reserved = Whole.reserved
             /\ Natural # {} => /\ s.reserved = Cardinality(Ore(Saved) \ s.placed)
                               /\ s.reserved # None
  BY DEF s, o
<1>6. CASE o.kind = "mine"
  <2>1. /\ o.before = "ore" /\ o.cell \in Entered \ Whole.placed /\ Natural # {}
    BY <1>2, <1>6 DEF Sides, Awaits
  <2>2. Ore(Saved) \ s.placed = (Entered \ Whole.placed) \ {o.cell} /\ s.placed \subseteq Ore(Saved)
    BY <1>2, <1>3, <1>5, <1>6, <2>1
  <2>3. /\ Cardinality((Entered \ Whole.placed) \ {o.cell})
             = Cardinality(Entered \ Whole.placed) - 1
        /\ Cardinality(Entered \ Whole.placed) \in Nat
        /\ Cardinality((Entered \ Whole.placed) \ {o.cell}) \in Nat
    <3>1. IsFiniteSet((Entered \ Whole.placed) \ {o.cell})
      BY <1>4, FS_RemoveElement
    <3> QED BY <1>4, <2>1, <3>1, FS_RemoveElement, FS_CardinalityType
  <2>4. Whole.reserved \in Nat \ {0}
    BY ONLY <1>2, <2>1, <2>3
  <2>5. s.reserved = Cardinality(Ore(Saved) \ s.placed) /\ s.reserved \in Nat
    BY ONLY <1>2, <1>5, <1>6, <2>1, <2>2, <2>3
  <2> QED BY <2>1, <2>2, <2>4, <2>5, Constants
<1>7. CASE o.kind = "break"
  <2>1. o.before = "ore" /\ o.cell \in Whole.placed
    BY <1>2, <1>7 DEF Sides, Awaits
  <2>2. Ore(Saved) \ s.placed = Entered \ Whole.placed /\ s.placed \subseteq Ore(Saved)
    BY <1>2, <1>3, <1>5, <1>7, <2>1
  <2>3. Cardinality(Entered \ Whole.placed) \in Nat
    BY <1>4, FS_CardinalityType
  <2>4. Natural = {} => s.placed = Ore(Saved)
    BY <1>2, <2>2
  <2> QED BY <1>2, <1>5, <1>7, <2>2, <2>3, <2>4, Constants
<1>8. CASE o.kind = "place"
  <2>1. o.before # "ore"
    BY <1>2, <1>8 DEF Sides
  <2>2. Ore(Saved) \ s.placed = Entered \ Whole.placed /\ s.placed \subseteq Ore(Saved)
    BY <1>2, <1>3, <1>5, <1>8, <2>1
  <2>3. Cardinality(Entered \ Whole.placed) \in Nat
    BY <1>4, FS_CardinalityType
  <2>4. Natural = {} => s.placed = Ore(Saved)
    BY <1>2, <2>2
  <2> QED BY <1>2, <1>5, <1>8, <2>2, <2>3, <2>4, Constants
<1> QED BY <1>2, <1>6, <1>7, <1>8

\* The next delta, and that the files can take it.
LEMMA NextDelta ==
  ASSUME IInv, ~Down, step \in {"pending", "stage"},
         op # Loss => op = disk.journal /\ Saved[op.cell] = op.after /\ op.id > ledger.applied
  PROVE  /\ Delta(ledger, op) \in Deltas /\ Delta(ledger, op).action = op
         /\ Delta(ledger, op).seq = LastSeq(disk) + 1 /\ Delta(ledger, op).seq = Kept.seq + 1
         /\ Fit(Kept, op)
<1>1. /\ Whole = Kept
      /\ \A part \in {"applied", "placed", "lost", "seq"} : ledger[part] = Whole[part]
  BY Accounted
<1>2. op \in Actions
  BY Names DEF IInv, Course, Opening, Ops
<1>3. Delta(ledger, op) \in Deltas /\ Delta(ledger, op).action = op
      /\ Delta(ledger, op).seq = ledger.seq + 1
  BY <1>2, Counts DEF Delta, Deltas, IInv
<1>4. Kept.seq = LastSeq(disk)
  <2>1. disk \in Files /\ Orderly(disk.ledger, disk.log)
    BY DEF IInv, FilesOK, WellKept
  <2> QED BY <2>1, FileFields DEF Orderly, Kept, Base
<1>5. ASSUME op # Loss PROVE Fit(Kept, op)
  <2>1. op \in Ops /\ op # None
    BY <1>2, <1>5, Names DEF Ops
  <2>2. Unseen
    BY <1>1, <1>5, <2>1 DEF Unseen
  <2>3. op.kind = "mine" => Whole.reserved \in Nat \ {0}
    BY <1>5, <2>2, Balanced
  <2> QED BY <1>1, <1>5, <2>3 DEF Fit
<1> QED BY <1>1, <1>3, <1>4, <1>5 DEF Fit

LEMMA DoWritePending ==
  ASSUME IInv, WritePending, MayFail \subseteq CleanFailures
  PROVE  IInv' /\ (Steady \/ Wasted)
<1> DEFINE r == Delta(ledger, op)
<1>1. /\ step = "pending" /\ call \in {"edit", "boot", "loss"} /\ ~Down
      /\ UNCHANGED <<chunk, ledger, dirty, budget, call, op>>
      /\ disk' = [disk EXCEPT !.pending = r] /\ step' = "append"
      /\ disk.pending = None /\ disk.coordinator = None /\ ~disk.torn
  BY Names DEF IInv, Course, WritePending, Down, CleanFailures
<1>2. /\ op # Loss => op \in Ops /\ op = disk.journal /\ Saved[op.cell] = op.after
                      /\ op.id > ledger.applied /\ op # None
      /\ op = Loss => disk.journal = None
  <2>1. /\ call \in {"edit", "boot"} => op \in Ops /\ disk.journal = op
        /\ call = "loss" => op = Loss /\ disk.journal = None
    BY <1>1 DEF IInv, Course, Opening
  <2> QED BY <1>1, <2>1, Names DEF IInv, Progress
<1>3. /\ r \in Deltas /\ r.action = op
      /\ r.seq = LastSeq(disk) + 1 /\ r.seq = Kept.seq + 1
      /\ Fit(Kept, op)
  BY <1>1, <1>2, NextDelta
<1>4. /\ Whole = Kept
      /\ \A part \in {"applied", "placed", "lost", "seq"} : ledger[part] = Whole[part]
  BY <1>1, Accounted
<1>5. /\ WellKept(disk') /\ Base(disk') = Base(disk) /\ Ahead(disk')
      /\ Forecast(disk') = ApplyDelta(Base(disk), r)
  BY <1>1, <1>3, Pended DEF IInv, FilesOK, Kept
<1>6. FilesOK' /\ Kept' = Kept /\ Whole' = ApplyDelta(Whole, r)
  BY <1>4, <1>5 DEF FilesOK, Kept, Whole
<1>7. Sane(Whole')
  BY <1>3, <1>4, <1>6, DeltaTyped, Counts DEF IInv, LedgersOK
<1>8. disk \in Files
  BY DEF IInv, FilesOK, WellKept
<1>9. /\ disk'.chunk = disk.chunk /\ disk'.journal = disk.journal /\ disk'.ledger = disk.ledger
      /\ disk'.log = disk.log /\ disk'.torn = disk.torn /\ disk'.pending = r
      /\ disk'.coordinator = disk.coordinator
  BY <1>1, <1>8 DEF Files
<1>10. Saved' = Saved /\ Ore(Saved)' = Ore(Saved)
  BY <1>9 DEF Saved, Ore
<1> HIDE DEF r
<1>11. ASSUME op # Loss
       PROVE  /\ Whole' = Done(Whole, r) /\ ~Unseen' /\ Whole'.next <= MaxOps + 1 - budget.ops
              /\ Whole'.lost = Whole.lost /\ Whole'.applied = op.id
              /\ Accounts' /\ Steady
  <2>1. Whole' = Done(Whole, r)
    BY <1>2, <1>3, <1>4, <1>6, <1>11, DeltaFields, Counts DEF IInv
  <2>2. /\ Whole'.applied = op.id /\ Whole'.lost = Whole.lost
        /\ Whole'.next = (IF Whole.next > op.id THEN Whole.next ELSE op.id + 1)
        /\ Whole'.placed = Seen(Whole, op).placed /\ Whole'.reserved = Seen(Whole, op).reserved
    BY <1>3, <2>1 DEF Done, Seen
  <2>3. op.id + budget.ops <= MaxOps /\ op.id \in Nat
    BY <1>2, <1>11, OpFields DEF IInv, Accounts
  <2>4. Whole'.next <= MaxOps + 1 - budget.ops
    BY <2>2, <2>3, Counts DEF IInv
  <2>5. ~Unseen'
    BY <1>2, <1>9, <1>11, <2>2, <2>3 DEF Unseen
  <2>6. Entered' = Ore(Saved)
    BY <1>10, <2>5 DEF Entered
  <2>7. Unseen
    BY <1>2, <1>4, <1>11 DEF Unseen
  <2>8. /\ Whole'.placed \subseteq Ore(Saved)
        /\ Natural = {} => Whole'.placed = Ore(Saved) /\ Whole'.reserved = Whole.reserved
        /\ Natural # {} => /\ Whole'.reserved = Cardinality(Ore(Saved) \ Whole'.placed)
                           /\ Whole'.reserved # None
    BY <1>2, <1>11, <2>2, <2>7, Balanced
  <2>9. Sides(disk.journal)' /\ disk'.journal.id > 0 /\ disk'.journal.id + budget'.ops <= MaxOps
        /\ (disk'.journal.before = "ore" => Saved'[disk'.journal.cell] \in {"ore", "air"})
    BY <1>1, <1>2, <1>9, <1>10, <1>11 DEF Sides, IInv, Accounts
  <2>10. Accounts'
    <3>1. Balance
      BY <1>2, <1>11, Journal
    <3>2. Balance'
      BY <1>6, <2>6, <2>8, <3>1 DEF Balance
    <3> QED BY <1>2, <1>9, <1>10, <1>11, <2>5, <2>8, <2>9, <3>2 DEF Accounts
  <2>11. Steady
    <3>1. Settles /\ ~Settles'
      BY <1>2, <1>11, <2>5, <2>7 DEF Settles
    <3>2. Accepted = Seen(Whole, op).placed /\ Accepted' = Whole'.placed
      BY <1>2, <1>11, <3>1 DEF Accepted
    <3> QED BY <1>10, <2>2, <3>2 DEF Steady
  <2> QED BY <2>1, <2>2, <2>4, <2>5, <2>10, <2>11
<1>12. ASSUME op = Loss
       PROVE  /\ Whole' = Lossy(Whole, r) /\ Whole'.next = Whole.next
              /\ Whole'.lost = Whole.lost + 1 /\ Whole.lost + budget.losses < MaxLosses
              /\ Accounts' /\ Wasted
  <2>1. Whole' = Lossy(Whole, r)
    BY <1>3, <1>6, <1>12, DeltaFields, Counts DEF IInv
  <2>2. /\ Whole'.next = Whole.next /\ Whole'.lost = Whole.lost + 1
        /\ Whole'.placed = Whole.placed /\ Whole'.reserved = Whole.reserved
    BY <2>1 DEF Lossy
  <2>3. Whole.lost + budget.losses < MaxLosses
    BY <1>1, <1>12 DEF IInv, LedgersOK
  <2>4. Entered' = Ore(Saved) /\ Entered = Ore(Saved) /\ ~Unseen'
    BY <1>2, <1>9, <1>10, <1>12, NoJournal DEF Unseen, Entered
  <2>5. Accounts'
    BY <1>2, <1>6, <1>9, <1>10, <1>12, <2>2, <2>4 DEF IInv, Accounts, Balance
  <2>6. Wasted
    <3>1. ~Settles /\ ~Settles'
      BY <1>2, <1>12, <2>4 DEF Settles, Unseen
    <3> QED BY <1>10, <2>2, <3>1 DEF Wasted, Accepted
  <2> QED BY <2>1, <2>2, <2>3, <2>5, <2>6
<1>13. LedgersOK'
  <2>1. Sane(ledger)' /\ Sane(Whole)'
    BY <1>1, <1>7 DEF IInv, LedgersOK, Sane
  <2>2. Whole'.next + budget'.ops <= MaxOps + 1 /\ Whole'.lost + budget'.losses <= MaxLosses
    <3>1. LedgersOK /\ Whole' \in Ledgers
      BY <1>7 DEF IInv, Sane
    <3>2. Whole'.next \in Nat /\ Whole'.lost \in Nat
      BY <3>1 DEF Ledgers
    <3>3. budget' = budget
      BY <1>1
    <3> QED BY ONLY <3>1, <3>2, <3>3, <1>11, <1>12, Counts
  <2>3. /\ Kept'.next <= MaxOps + 1 /\ Kept'.lost <= MaxLosses
        /\ disk'.ledger.next <= MaxOps + 1 /\ disk'.ledger.lost <= MaxLosses
    BY <1>6, <1>9 DEF IInv, LedgersOK
  <2> QED BY <1>1, <2>1, <2>2, <2>3 DEF IInv, LedgersOK, Opening
<1>14. Course'
  <2>1. disk'.pending = Delta(ledger, op)'
    BY <1>1, <1>9 DEF Delta, r
  <2> QED BY <1>1, <1>9, <2>1, Names DEF IInv, Course, Down, Opening, Handlers, Writes
<1>15. Memory'
  <2>1. ~dirty
    BY <1>1, Names DEF IInv, Memory, Miscounting
  <2> QED BY <1>1, <1>6, <1>10, <2>1, Names DEF IInv, Memory, Down
<1>16. Progress'
  BY <1>1, <1>2, <1>10, Names DEF Progress, Opening
<1>17. Steady \/ Wasted
  BY <1>11, <1>12
<1> QED BY <1>6, <1>11, <1>12, <1>13, <1>14, <1>15, <1>16, <1>17 DEF IInv

\* Two ledgers with the same accounts have the same accounts after a delta.
LEMMA SameAfterDelta ==
  ASSUME NEW k \in Ledgers, NEW l \in Ledgers, NEW d \in Deltas, Fit(k, d.action),
         l.applied = k.applied, l.placed = k.placed, l.lost = k.lost, l.seq = k.seq,
         l.reserved = k.reserved
  PROVE  LET x == ApplyDelta(l, d)
             y == ApplyDelta(k, d)
         IN  /\ x.applied = y.applied /\ x.placed = y.placed /\ x.lost = y.lost
             /\ x.seq = y.seq /\ x.reserved = y.reserved
             /\ d.action # Loss =>
                  x.next = IF l.next > d.action.id THEN l.next ELSE d.action.id + 1
             /\ d.action = Loss => x.next = l.next
<1>1. CASE d.action = Loss
  <2>1. ApplyDelta(l, d) = Lossy(l, d) /\ ApplyDelta(k, d) = Lossy(k, d)
    BY <1>1, DeltaFields
  <2> QED BY <1>1, <2>1 DEF Lossy
<1>2. CASE d.action # Loss
  <2>1. d.action.id > l.applied /\ d.action.id > k.applied
    BY <1>2 DEF Fit
  <2>2. ApplyDelta(l, d) = Done(l, d) /\ ApplyDelta(k, d) = Done(k, d)
    BY <1>2, <2>1, DeltaFields
  <2> QED BY <1>2, <2>2 DEF Done, Seen
<1> QED BY <1>1, <1>2

LEMMA FitPending ==
  ASSUME NEW d, WellKept(d), Ahead(d)
  PROVE  d.pending \in Deltas /\ Fit(Base(d), d.pending.action)
         /\ d.pending.seq = LastSeq(d) + 1 /\ d.coordinator = None
<1>1. d \in Files
  BY DEF WellKept
<1>2. LastSeq(d) \in Nat /\ d.pending \in Deltas /\ d.pending.seq = LastSeq(d) + 1
      /\ d.pending # None
  BY <1>1, FileFields DEF Ahead
<1>3. d.log # <<>> => Final(d.log).seq = LastSeq(d)
  BY DEF LastSeq, Final
<1> QED BY <1>2, <1>3 DEF WellKept

\* Memory takes the delta that the files have taken.
LEMMA MemoryFollows ==
  ASSUME IInv, ~Down, ~dirty, step # "read", NEW d \in Deltas, d.seq = ledger.seq + 1,
         d.action = op, Fit(Kept, op), op # Loss => op.id + budget.ops <= MaxOps,
         ledger' = ApplyDelta(ledger, d)
  PROVE  /\ Sane(ledger)' /\ ledger' \in Ledgers /\ ledger'.next + budget.ops <= MaxOps + 1
         /\ \A part \in {"applied", "placed", "lost", "seq", "reserved"} :
              ledger'[part] = ApplyDelta(Kept, d)[part]
         /\ ledger.reserved # None => ledger'.reserved # None
         /\ op # Loss => ledger'.applied = op.id
<1>1. /\ ledger.applied = Kept.applied /\ ledger.placed = Kept.placed /\ ledger.lost = Kept.lost
      /\ ledger.seq = Kept.seq /\ ledger.reserved = Kept.reserved
  BY DEF IInv, Memory
<1>2. ledger \in Ledgers /\ Kept \in Ledgers /\ Sane(ledger)
  BY Counts DEF IInv, FilesOK, WellKept, Sane, Kept, LedgersOK
<1>3. Fit(ledger, op)
  BY <1>1 DEF Fit
<1>4. Sane(ledger')
  BY <1>2, <1>3, DeltaTyped
<1>5. Sane(ledger)' /\ ledger' \in Ledgers
  BY <1>4 DEF Sane
<1>6. /\ \A part \in {"applied", "placed", "lost", "seq", "reserved"} :
              ledger'[part] = ApplyDelta(Kept, d)[part]
      /\ op # Loss => ledger'.next = IF ledger.next > op.id THEN ledger.next ELSE op.id + 1
      /\ op = Loss => ledger'.next = ledger.next
  BY <1>1, <1>2, SameAfterDelta
<1>7. op # Loss => op.id \in Nat /\ op \in Ops
  BY OpFields DEF Deltas, Ops
<1>8. ledger'.next + budget.ops <= MaxOps + 1
  <2>1. LedgersOK /\ ledger'.next \in Nat
    BY <1>5 DEF IInv, Ledgers
  <2> QED BY ONLY <1>6, <1>7, <2>1, Counts, op # Loss => op.id + budget.ops <= MaxOps
<1>9. (ledger.reserved # None => ledger'.reserved # None) /\ (op # Loss => ledger'.applied = op.id)
  <2>1. CASE op = Loss
    <3>1. ledger' = Lossy(ledger, d)
      BY <1>2, <2>1, DeltaFields
    <3> QED BY <2>1, <3>1 DEF Lossy
  <2>2. CASE op # Loss
    <3>1. ledger' = Done(ledger, d)
      BY <1>2, <1>3, <2>2, DeltaFields DEF Fit
    <3>2. /\ ledger'.applied = op.id
          /\ ledger'.reserved = IF op.kind = "mine" THEN ledger.reserved - 1 ELSE ledger.reserved
      BY <3>1 DEF Done, Seen
    <3>3. op.kind = "mine" => ledger.reserved \in Nat \ {0}
      BY <1>3, <2>2 DEF Fit
    <3>4. op.kind = "mine" => ledger.reserved - 1 \in Nat
      BY <3>3
    <3> QED BY <2>2, <3>2, <3>4, Constants
  <2> QED BY <2>1, <2>2
<1> QED BY <1>5, <1>6, <1>8, <1>9

LEMMA DoAppendFrame ==
  ASSUME IInv, AppendFrame
  PROVE  IInv' /\ Steady
<1> DEFINE r == Delta(ledger, op)
<1>1. /\ step = "append" /\ call \in {"edit", "boot", "loss"} /\ ~Down /\ ~dirty
      /\ UNCHANGED <<chunk, dirty, call, op, budget>>
      /\ disk' = [disk EXCEPT !.log = Append(disk.log, r)] /\ step' = "unpend"
      /\ ledger' = ApplyDelta(ledger, r)
      /\ disk.pending = r /\ disk.coordinator = None /\ ~disk.torn
  BY Names DEF IInv, Course, Memory, AppendFrame, Down, Miscounting
<1>2. /\ op # Loss => op \in Ops /\ op = disk.journal /\ Saved[op.cell] = op.after
                      /\ op.id > ledger.applied /\ op # None
      /\ op = Loss => disk.journal = None
      /\ op \in Actions
  <2>1. /\ call \in {"edit", "boot"} => op \in Ops /\ disk.journal = op
        /\ call = "loss" => op = Loss /\ disk.journal = None
    BY <1>1 DEF IInv, Course, Opening
  <2> QED BY <1>1, <2>1, Names DEF IInv, Progress, Ops
<1>3. r \in Deltas /\ r.seq = ledger.seq + 1 /\ r.action = op
  BY <1>2, Counts DEF Delta, Deltas, IInv
<1>4. /\ ledger.seq = Kept.seq /\ Kept.seq = LastSeq(disk) /\ disk \in Files
  <2>1. disk \in Files /\ Orderly(disk.ledger, disk.log)
    BY DEF IInv, FilesOK, WellKept
  <2> QED BY <1>1, <2>1, FileFields DEF Orderly, Kept, Base, IInv, Memory
<1>5. Ahead(disk) /\ WellKept(disk)
  BY <1>1, <1>3, <1>4, Constants DEF Ahead, IInv, FilesOK
<1>6. Fit(Kept, op)
  BY <1>1, <1>3, <1>5, FitPending DEF Kept
<1> HIDE DEF r
<1>7. disk' = [disk EXCEPT !.log = Append(disk.log, disk.pending), !.torn = FALSE]
  BY <1>1, <1>4 DEF Files
<1>8. /\ WellKept(disk') /\ Base(disk') = Forecast(disk) /\ Forecast(disk') = Forecast(disk)
      /\ ~Ahead(disk') /\ disk'.log # <<>> /\ disk'.pending = Final(disk'.log)
  BY <1>1, <1>5, <1>7, Appended
<1>9. FilesOK' /\ Kept' = Whole /\ Whole' = Whole /\ Whole = ApplyDelta(Kept, r)
  BY <1>1, <1>5, <1>8 DEF FilesOK, Kept, Whole, Forecast
<1>10. /\ disk'.chunk = disk.chunk /\ disk'.journal = disk.journal /\ disk'.ledger = disk.ledger
       /\ disk'.torn = disk.torn /\ disk'.pending = disk.pending
       /\ disk'.coordinator = disk.coordinator
  BY <1>4, <1>7, <1>1 DEF Files
<1>11. Saved' = Saved /\ Ore(Saved)' = Ore(Saved)
  BY <1>10 DEF Saved, Ore
<1>12. (Unseen' <=> Unseen) /\ Entered' = Entered
  BY <1>9, <1>10, <1>11 DEF Unseen, Entered
<1>13. /\ Sane(ledger)' /\ ledger' \in Ledgers /\ ledger'.next + budget.ops <= MaxOps + 1
       /\ \A part \in {"applied", "placed", "lost", "seq", "reserved"} :
            ledger'[part] = ApplyDelta(Kept, r)[part]
       /\ ledger.reserved # None => ledger'.reserved # None
       /\ op # Loss => ledger'.applied = op.id
  <2>1. op # Loss => op.id + budget.ops <= MaxOps
    BY <1>2 DEF IInv, Accounts
  <2> QED BY <1>1, <1>3, <1>6, <2>1, MemoryFollows
<1>14. LedgersOK'
  <2>1. Sane(Whole)'
    BY <1>9 DEF IInv, LedgersOK, Sane
  <2>2. Kept'.next <= MaxOps + 1 /\ Kept'.lost <= MaxLosses
    <3>1. LedgersOK
      BY DEF IInv
    <3> QED BY ONLY <1>9, <3>1, Counts
  <2> QED BY <1>1, <1>9, <1>10, <1>13, <2>1, <2>2 DEF IInv, LedgersOK, Opening
<1>15. Course'
  BY <1>1, <1>8, <1>10, Names DEF IInv, Course, Down, Opening, Handlers, Writes
<1>16. Memory'
  BY <1>1, <1>9, <1>11, <1>13, Names DEF IInv, Memory, Down
<1>17. Accounts'
  <2>1. Awaits(Whole, Entered, disk.journal)' <=> Awaits(Whole, Entered, disk.journal)
    BY <1>9, <1>10, <1>12 DEF Awaits
  <2>2. Sides(disk.journal)' <=> Sides(disk.journal)
    BY <1>10 DEF Sides
  <2> QED BY <1>1, <1>9, <1>10, <1>11, <1>12, <2>1, <2>2 DEF IInv, Accounts, Balance
<1>18. Progress'
  <2>1. op # Loss => ~Unseen'
    <3>1. op # Loss => Kept'.applied = op.id
      BY <1>9, <1>13
    <3>2. op # Loss => Whole'.applied = op.id /\ op.id \in Nat
      BY <1>2, <1>9, <3>1, OpFields
    <3> QED BY <1>2, <1>10, <3>2 DEF Unseen
  <2> QED BY <1>1, <1>2, <1>11, <2>1, Names DEF Progress, Opening
<1>19. Steady
  BY <1>9, <1>10, <1>11, SteadyFiles
<1> QED BY <1>9, <1>14, <1>15, <1>16, <1>17, <1>18, <1>19 DEF IInv

LEMMA DoDropPending ==
  ASSUME IInv, DropPending
  PROVE  IInv' /\ Steady
<1>1. /\ step = "unpend" /\ call \in {"edit", "boot", "loss"} /\ ~Down /\ ~dirty
      /\ UNCHANGED <<chunk, ledger, dirty, budget>>
      /\ disk' = [disk EXCEPT !.pending = None]
      /\ op = Loss => call' = "idle" /\ step' = None /\ op' = None
      /\ op # Loss => step' = "finish" /\ UNCHANGED <<call, op>>
      /\ disk.coordinator = None /\ ~disk.torn
  BY Names DEF IInv, Course, Memory, DropPending, Down, Return, Miscounting
<1>2. /\ op # Loss => op \in Ops /\ op = disk.journal /\ call \in {"edit", "boot"}
                      /\ ~Unseen
      /\ op = Loss => disk.journal = None
  <2>1. /\ call \in {"edit", "boot"} => op \in Ops /\ disk.journal = op
        /\ call = "loss" => op = Loss /\ disk.journal = None
    BY <1>1 DEF IInv, Course, Opening
  <2> QED BY <1>1, <2>1, Names DEF IInv, Progress
<1>3. disk \in Files /\ WellKept(disk)
  BY DEF IInv, FilesOK, WellKept
<1>4. /\ WellKept(disk') /\ Base(disk') = Base(disk) /\ Forecast(disk') = Base(disk)
      /\ Forecast(disk) = Base(disk)
  BY <1>1, <1>3, NotAhead, Unpended
<1>5. FilesOK' /\ Kept' = Kept /\ Whole' = Whole
  BY <1>4 DEF FilesOK, Kept, Whole
<1>6. /\ disk'.chunk = disk.chunk /\ disk'.journal = disk.journal /\ disk'.ledger = disk.ledger
      /\ disk'.torn = disk.torn /\ disk'.pending = None /\ disk'.log = disk.log
      /\ disk'.coordinator = disk.coordinator
  BY <1>1, <1>3 DEF Files
<1>7. Saved' = Saved /\ Ore(Saved)' = Ore(Saved)
  BY <1>6 DEF Saved, Ore
<1>8. (Unseen' <=> Unseen) /\ Entered' = Entered
  BY <1>5, <1>6, <1>7 DEF Unseen, Entered
<1>9. LedgersOK'
  <2>1. /\ Kept'.next <= MaxOps + 1 /\ Kept'.lost <= MaxLosses
        /\ disk'.ledger.next <= MaxOps + 1 /\ disk'.ledger.lost <= MaxLosses
    BY <1>5, <1>6 DEF IInv, LedgersOK
  <2> QED BY <1>1, <1>2, <1>5, <2>1, LedgersKept, Names DEF IInv, Opening
<1>10. Course'
  BY <1>1, <1>2, <1>6, Names DEF IInv, Course, Down, Opening, Handlers, Writes
<1>11. Memory'
  BY <1>1, <1>5, <1>7, Names DEF IInv, Memory, Down
<1>12. Accounts'
  <2>1. Awaits(Whole, Entered, disk.journal)' <=> Awaits(Whole, Entered, disk.journal)
    BY <1>5, <1>6, <1>8 DEF Awaits
  <2>2. Sides(disk.journal)' <=> Sides(disk.journal)
    BY <1>6 DEF Sides
  <2> QED BY <1>1, <1>5, <1>6, <1>7, <1>8, <2>1, <2>2 DEF IInv, Accounts, Balance
<1>13. Progress'
  BY <1>1, <1>2, <1>8, Names DEF Progress, Opening
<1>14. Steady
  BY <1>5, <1>6, <1>7, SteadyFiles
<1> QED BY <1>5, <1>9, <1>10, <1>11, <1>12, <1>13, <1>14 DEF IInv

LEMMA DoFinish ==
  ASSUME IInv, Finish
  PROVE  IInv' /\ Steady
<1>1. /\ step = "finish" /\ call \in {"edit", "boot"} /\ ~Down /\ op \in Ops /\ disk.journal = op
      /\ op # None /\ op # Loss /\ UNCHANGED <<chunk, ledger, dirty>>
      /\ disk' = [disk EXCEPT !.journal = None]
      /\ disk.pending = None /\ disk.coordinator = None /\ ~disk.torn
      /\ ~Unseen \/ Saved[op.cell] # op.after
  BY Names DEF IInv, Course, Opening, Progress, Finish, Down
<1>2. ~dirty /\ chunk # None /\ (Natural # {} => ledger.reserved # None)
      /\ ledger.reserved = Kept.reserved /\ chunk \in Voxels /\ ~Down
  BY <1>1, EditReady DEF Writes
<1>3. \/ call' = "idle" /\ step' = None /\ op' = None /\ budget' = budget
      \/ call' = "loss" /\ step' = "pending" /\ op' = Loss /\ Spend("losses")
  BY <1>2 DEF Finish, Return, Start, Checkpoint
<1>4. /\ disk' = [disk EXCEPT !.chunk = disk.chunk, !.journal = None] /\ Saved' = Saved
      /\ Ore(Saved)' = Ore(Saved) /\ disk.chunk \in {None} \cup Voxels
  BY <1>1, JournalWritten
<1>5. /\ FilesOK' /\ Kept' = Kept /\ Whole' = Whole
      /\ disk'.journal = None /\ disk'.ledger = disk.ledger /\ disk'.torn = disk.torn
      /\ disk'.pending = disk.pending /\ disk'.coordinator = disk.coordinator
  BY <1>4, BesideLedger
<1>6. /\ budget' \in [ops : Nat, losses : Nat, edits : Nat, saves : Nat, crashes : Nat]
      /\ budget'.ops = budget.ops /\ budget'.losses \in Nat /\ budget'.losses <= budget.losses
      /\ op' = Loss => budget'.losses < budget.losses
  BY <1>3, BudgetSpent, Counts, Names DEF IInv, LedgersOK
<1>7. LedgersOK'
  <2> LedgersOK
    BY DEF IInv
  <2>1. /\ Sane(ledger)' /\ Sane(Whole)'
    BY <1>1, <1>5 DEF LedgersOK, Sane
  <2>2. ledger'.next + budget'.ops <= MaxOps + 1 /\ Whole'.next + budget'.ops <= MaxOps + 1
    BY ONLY <1>1, <1>5, <1>6, Counts, LedgersOK
  <2>3. Whole'.lost + budget'.losses <= MaxLosses
    BY ONLY <1>5, <1>6, Counts, LedgersOK
  <2>4. op' = Loss => Whole'.lost + budget'.losses < MaxLosses
    BY ONLY <1>5, <1>6, Counts, LedgersOK
  <2>5. /\ disk'.ledger.next <= MaxOps + 1 /\ disk'.ledger.lost <= MaxLosses
        /\ Kept'.lost <= MaxLosses /\ Kept'.next <= MaxOps + 1
    BY <1>5 DEF LedgersOK
  <2> QED BY <1>3, <1>6, <2>1, <2>2, <2>3, <2>4, <2>5 DEF LedgersOK
<1>8. Course'
  BY <1>1, <1>3, <1>5, Names DEF IInv, Course, Down, Opening, Handlers, Writes
<1>9. Memory'
  BY <1>1, <1>2, <1>3, <1>4, <1>5, Names DEF IInv, Memory, Down
<1>10. Entered' = Entered /\ ~Unseen'
  <2>1. Entered = Ore(Saved)
    BY <1>1, EnteredBefore DEF Entered
  <2> QED BY <1>4, <1>5, <2>1 DEF Unseen, Entered
<1>11. Accounts'
  BY <1>1, <1>4, <1>5, <1>10, Journal DEF Accounts, Balance
<1>12. Progress'
  BY <1>3, Names DEF Progress, Opening
<1>13. Steady
  BY <1>1, <1>4, <1>5, <1>10, SteadyApart DEF Settles
<1> QED BY <1>5, <1>7, <1>8, <1>9, <1>11, <1>12, <1>13 DEF IInv

LEMMA DoWriteLedger ==
  ASSUME IInv, WriteLedger
  PROVE  IInv' /\ Steady
<1>1. /\ step = "snapshot" /\ call \in {"edit", "loss", "link", "save", "boot"} /\ ~Down
      /\ UNCHANGED <<chunk, ledger, dirty, budget>> /\ (call # "boot" => disk.journal = None)
      /\ call = "boot" => Natural = {}
      /\ disk.pending = None /\ disk.coordinator = None /\ ~disk.torn
  BY Names DEF IInv, Course, Opening, WriteLedger, Down
<1>2. /\ Whole = Kept
      /\ \A part \in {"applied", "placed", "lost", "seq"} : ledger[part] = Whole[part]
  BY <1>1, Accounted
<1>3. CASE step' = "clear"
  <2>1. disk' = [disk EXCEPT !.ledger = ledger] /\ UNCHANGED <<call, op>>
    BY <1>3, Names DEF WriteLedger, Return
  <2>2. disk \in Files /\ WellKept(disk) /\ Sane(ledger) /\ ledger \in Ledgers
    BY DEF IInv, FilesOK, WellKept, LedgersOK, Sane
  <2>3. WellKept(disk') /\ Base(disk') = ledger /\ Forecast(disk') = ledger
    BY <1>1, <1>2, <2>1, <2>2, Checkpointed DEF Kept
  <2>4. FilesOK' /\ Kept' = ledger /\ Whole' = ledger
    BY <2>3 DEF FilesOK, Kept, Whole
  <2>5. /\ disk'.chunk = disk.chunk /\ disk'.journal = disk.journal /\ disk'.ledger = ledger
        /\ disk'.torn = disk.torn /\ disk'.pending = disk.pending
        /\ disk'.coordinator = disk.coordinator
    BY <2>1, <2>2 DEF Files
  <2>6. Saved' = Saved /\ Ore(Saved)' = Ore(Saved)
    BY <2>5 DEF Saved, Ore
  <2>7. LedgersOK'
    <3>1. Sane(ledger)' /\ Sane(Whole)'
      BY <1>1, <2>2, <2>4 DEF Sane
    <3>2. /\ ledger.next <= MaxOps + 1 /\ ledger.lost <= MaxLosses
          /\ ledger.lost + budget.losses <= MaxLosses
      <4>1. LedgersOK
        BY DEF IInv
      <4> QED BY ONLY <1>2, <4>1, Counts
    <3> QED BY <1>1, <1>2, <1>3, <2>1, <2>4, <2>5, <3>1, <3>2 DEF IInv, LedgersOK, Opening
  <2>8. Course'
    BY <1>1, <1>3, <2>1, <2>5, Names DEF IInv, Course, Down, Opening, Handlers, Writes
  <2>9. Memory'
    BY <1>1, <1>3, <2>1, <2>4, <2>5, <2>6, Names DEF IInv, Memory, Down
  <2>10. Accounts'
    <3>1. (Unseen' <=> Unseen) /\ Entered' = Entered
      BY <1>2, <2>4, <2>5, <2>6 DEF Entered, Unseen
    <3>2. (Sides(disk.journal)' <=> Sides(disk.journal))
          /\ (Awaits(Whole, Entered, disk.journal)' <=> Awaits(Whole, Entered, disk.journal))
      BY <1>2, <2>4, <2>5, <3>1 DEF Sides, Awaits
    <3>3. CASE Natural = {}
      <4>1. Balance /\ ledger.reserved \in {Kept.reserved, 1}
        BY <1>1, <3>3 DEF IInv, Accounts, Memory
      <4>2. Balance'
        BY <1>2, <2>4, <3>1, <3>3, <4>1 DEF Balance
      <4> QED BY <1>1, <2>5, <2>6, <3>1, <3>2, <3>3, <4>2 DEF IInv, Accounts
    <3>4. CASE Natural # {} /\ ledger.reserved = Whole.reserved
      BY <1>1, <1>2, <2>4, <2>5, <2>6, <3>1, <3>2, <3>4 DEF IInv, Accounts, Balance
    <3>5. CASE Natural # {} /\ ledger.reserved # Whole.reserved
      <4>1. Whole.reserved = None /\ ledger.reserved = Cardinality(Natural)
        BY <1>1, <1>2, <3>5 DEF IInv, Memory
      <4>2. Whole.placed = {} /\ Ore(Saved) = Natural /\ disk.journal = None
        BY <3>5, <4>1 DEF IInv, Accounts
      <4>3. ledger.placed = {} /\ Ore(Saved) \ ledger.placed = Natural /\ ledger.reserved # None
        <5>1. Cardinality(Natural) \in Nat
          BY Constants, FS_Subset, FS_CardinalityType
        <5> QED BY <1>2, <4>1, <4>2, <5>1, Constants
      <4>4. Entered' = Ore(Saved)
        BY <3>1, <4>2, NoJournal
      <4>5. Balance'
        BY <2>4, <3>5, <4>1, <4>3, <4>4 DEF Balance
      <4> QED BY <2>4, <2>5, <4>2, <4>3, <4>5 DEF Accounts
    <3> QED BY <3>3, <3>4, <3>5
  <2>11. Progress'
    BY <1>1, <1>3, <2>1, <2>6, Names DEF IInv, Progress, Opening
  <2>12. Steady
    BY <1>2, <2>4, <2>5, <2>6, <1>1, SteadyFiles
  <2> QED BY <2>4, <2>7, <2>8, <2>9, <2>10, <2>11, <2>12 DEF IInv
<1>4. CASE step' # "clear"
  <2>1. /\ UNCHANGED disk /\ call # "boot"
        /\ \/ call = "save" /\ step' = "world" /\ UNCHANGED <<call, op>>
           \/ call' = "idle" /\ step' = None /\ op' = None
    BY <1>4 DEF WriteLedger, Return
  <2>2. FilesOK' /\ Kept' = Kept /\ Whole' = Whole /\ Ore(Saved)' = Ore(Saved) /\ Saved' = Saved
    BY <2>1, SameDisk DEF IInv
  <2>3. LedgersOK'
    <3>1. /\ Kept'.next <= MaxOps + 1 /\ Kept'.lost <= MaxLosses
          /\ disk'.ledger.next <= MaxOps + 1 /\ disk'.ledger.lost <= MaxLosses
      BY <2>1, <2>2 DEF IInv, LedgersOK
    <3> QED BY <1>1, <2>1, <2>2, <3>1, LedgersKept, Names DEF IInv, Opening
  <2>4. Course'
    BY <1>1, <2>1, Names DEF IInv, Course, Down, Opening, Handlers, Writes
  <2>5. Memory'
    BY <1>1, <2>1, <2>2, Names DEF IInv, Memory, Down
  <2>6. Accounts'
    <3>1. disk' = disk /\ budget'.ops = budget.ops
      BY <1>1, <2>1
    <3> QED BY <3>1, SameAccounts, Counts DEF IInv
  <2>7. Progress'
    BY <2>1, Names DEF Progress, Opening
  <2>8. Steady
    BY <2>1, SteadySame
  <2> QED BY <2>2, <2>3, <2>4, <2>5, <2>6, <2>7, <2>8 DEF IInv
<1> QED BY <1>3, <1>4

LEMMA DoClearLog ==
  ASSUME IInv, ClearLog
  PROVE  IInv' /\ Steady
<1>1. /\ step = "clear" /\ call \in {"edit", "loss", "link", "save", "boot"} /\ ~Down
      /\ UNCHANGED <<chunk, ledger, dirty, call, op, budget>>
      /\ disk' = [disk EXCEPT !.log = <<>>, !.torn = FALSE] /\ step' = "tidy"
      /\ disk.pending = None /\ disk.coordinator = None /\ ~disk.torn
  BY Names DEF IInv, Course, Opening, ClearLog, Down
<1>2. Kept = ledger /\ disk.ledger = ledger
  BY <1>1 DEF IInv, Memory
<1>3. disk \in Files /\ WellKept(disk)
  BY DEF IInv, FilesOK, WellKept
<1>4. WellKept(disk') /\ Base(disk') = ledger /\ Forecast(disk') = ledger
  BY <1>1, <1>2, <1>3, Cleared
<1>5. FilesOK' /\ Kept' = Kept /\ Whole' = Whole
  BY <1>1, <1>2, <1>4, Accounted DEF FilesOK, Kept, Whole
<1>6. /\ disk'.chunk = disk.chunk /\ disk'.journal = disk.journal /\ disk'.ledger = disk.ledger
      /\ disk'.torn = disk.torn /\ disk'.pending = disk.pending /\ disk'.log = <<>>
      /\ disk'.coordinator = disk.coordinator
  <2> DEFINE none == <<>>
  <2>1. disk' = [disk EXCEPT !.log = none, !.torn = FALSE] /\ none = <<>>
    BY <1>1
  <2> HIDE DEF none
  <2> QED BY <1>1, <1>3, <2>1 DEF Files
<1>7. Saved' = Saved /\ Ore(Saved)' = Ore(Saved)
  BY <1>6 DEF Saved, Ore
<1>8. LedgersOK'
  <2>1. /\ Kept'.next <= MaxOps + 1 /\ Kept'.lost <= MaxLosses
        /\ disk'.ledger.next <= MaxOps + 1 /\ disk'.ledger.lost <= MaxLosses
    BY <1>5, <1>6 DEF IInv, LedgersOK
  <2> QED BY <1>1, <1>5, <2>1, LedgersKept, Names DEF IInv, Opening
<1>9. Course'
  BY <1>1, <1>6, Names DEF IInv, Course, Down, Opening, Handlers, Writes
<1>10. Memory'
  BY <1>1, <1>2, <1>5, <1>6, <1>7, Names DEF IInv, Memory, Down
<1>11. Accounts'
  <2>1. (Unseen' <=> Unseen) /\ Entered' = Entered
    BY <1>5, <1>6, <1>7 DEF Unseen, Entered
  <2>2. (Sides(disk.journal)' <=> Sides(disk.journal))
        /\ (Awaits(Whole, Entered, disk.journal)' <=> Awaits(Whole, Entered, disk.journal))
    BY <1>5, <1>6, <2>1 DEF Sides, Awaits
  <2> QED BY <1>1, <1>5, <1>6, <1>7, <2>1, <2>2 DEF IInv, Accounts, Balance
<1>12. Progress'
  BY <1>1, <1>7, Names DEF IInv, Progress, Opening
<1>13. Steady
  BY <1>5, <1>6, <1>7, SteadyFiles
<1> QED BY <1>5, <1>8, <1>9, <1>10, <1>11, <1>12, <1>13 DEF IInv

LEMMA DoTidy ==
  ASSUME IInv, Tidy
  PROVE  IInv' /\ Steady
<1>1. /\ step = "tidy" /\ call \in {"edit", "loss", "link", "save", "boot"} /\ ~Down
      /\ UNCHANGED <<chunk, ledger, call, op, budget>>
      /\ disk' = [disk EXCEPT !.pending = None] /\ dirty' = FALSE
      /\ disk.pending = None /\ disk.coordinator = None /\ ~disk.torn
      /\ call = "edit" => op \in Ops /\ op.id = 0
      /\ step' = AfterSave
  BY Names DEF IInv, Course, Opening, Tidy, Down
<1>2. /\ call = "save" => step' = "world"
      /\ call = "link" => step' = "stage"
      /\ call = "edit" => step' = "journal"
      /\ call \in {"loss", "boot"} => step' = "pending"
  BY <1>1 DEF AfterSave, Journalled
<1>3. Kept = ledger
  BY <1>1 DEF IInv, Memory
<1>4. UNCHANGED disk
  <2>1. disk \in Files
    BY DEF IInv, FilesOK, WellKept
  <2> QED BY <1>1, <2>1 DEF Files
<1>5. FilesOK' /\ Kept' = Kept /\ Whole' = Whole /\ Ore(Saved)' = Ore(Saved) /\ Saved' = Saved
  BY <1>4, SameDisk DEF IInv
<1>6. LedgersOK'
  <2>1. /\ Kept'.next <= MaxOps + 1 /\ Kept'.lost <= MaxLosses
        /\ disk'.ledger.next <= MaxOps + 1 /\ disk'.ledger.lost <= MaxLosses
    BY <1>4, <1>5 DEF IInv, LedgersOK
  <2> QED BY <1>1, <1>5, <2>1, LedgersKept, Names DEF IInv, Opening
<1>7. Course'
  BY <1>1, <1>2, <1>4, Names DEF IInv, Course, Down, Opening, Handlers, Writes
<1>8. Memory'
  BY <1>1, <1>2, <1>3, <1>5, Names DEF IInv, Memory, Down
<1>9. Accounts'
  <2>1. budget'.ops = budget.ops
    BY <1>1
  <2> QED BY <1>4, <2>1, SameAccounts, Counts DEF IInv
<1>10. Progress'
  BY <1>1, <1>2, <1>5, Names DEF IInv, Progress, Opening, Course
<1>11. Steady
  BY <1>4, SteadySame
<1> QED BY <1>5, <1>6, <1>7, <1>8, <1>9, <1>10, <1>11 DEF IInv

LEMMA DoStage ==
  ASSUME IInv, Stage
  PROVE  IInv' /\ Wasted
<1> DEFINE r == Delta(ledger, op)
<1>1. /\ step = "stage" /\ call = "link" /\ ~Down /\ ~dirty /\ op = Loss /\ disk.journal = None
      /\ UNCHANGED <<chunk, ledger, dirty, budget, call, op>>
      /\ disk' = [disk EXCEPT !.coordinator = Append(disk.log, r)] /\ step' = "linked"
      /\ disk.pending = None /\ disk.coordinator = None /\ ~disk.torn
  BY Names DEF IInv, Course, Memory, Stage, Down, Miscounting
<1>2. /\ r \in Deltas /\ r.action = op
      /\ r.seq = LastSeq(disk) + 1 /\ r.seq = Kept.seq + 1
      /\ Fit(Kept, op)
  BY <1>1, NextDelta
<1>3. /\ Whole = Kept
      /\ \A part \in {"applied", "placed", "lost", "seq"} : ledger[part] = Whole[part]
  BY <1>1, Accounted
<1>4. disk \in Files /\ WellKept(disk)
  BY DEF IInv, FilesOK, WellKept
<1>5. /\ WellKept(disk') /\ Base(disk') = Base(disk)
      /\ Forecast(disk') = ApplyDelta(Base(disk), r)
  BY <1>1, <1>2, <1>4, Staged DEF Kept
<1>6. FilesOK' /\ Kept' = Kept /\ Whole' = ApplyDelta(Whole, r)
  BY <1>3, <1>5 DEF FilesOK, Kept, Whole
<1>7. Sane(Whole')
  BY <1>2, <1>3, <1>6, DeltaTyped, Counts DEF IInv, LedgersOK
<1>8. Append(disk.log, r) \in Seq(Deltas)
  BY <1>2, <1>4, FileFields
<1>9. /\ disk'.chunk = disk.chunk /\ disk'.journal = disk.journal /\ disk'.ledger = disk.ledger
      /\ disk'.log = disk.log /\ disk'.torn = disk.torn /\ disk'.pending = disk.pending
      /\ disk'.coordinator = Append(disk.log, r)
  BY <1>1, <1>4 DEF Files
<1>10. Saved' = Saved /\ Ore(Saved)' = Ore(Saved)
  BY <1>9 DEF Saved, Ore
<1>11. Whole' = Lossy(Whole, r)
  BY <1>1, <1>2, <1>6, DeltaFields, Counts DEF IInv
<1> HIDE DEF r
<1>12. /\ Whole'.next = Whole.next /\ Whole'.lost = Whole.lost + 1
       /\ Whole'.placed = Whole.placed /\ Whole'.reserved = Whole.reserved
  BY <1>11 DEF Lossy
<1>13. LedgersOK'
  <2>1. Sane(ledger)' /\ Sane(Whole)'
    BY <1>1, <1>7 DEF IInv, LedgersOK, Sane
  <2>2. Whole.lost + budget.losses < MaxLosses
    BY <1>1 DEF IInv, LedgersOK
  <2>3. Whole'.next + budget'.ops <= MaxOps + 1 /\ Whole'.lost + budget'.losses <= MaxLosses
    <3>1. LedgersOK /\ budget' = budget
      BY <1>1 DEF IInv
    <3> QED BY ONLY <1>12, <2>2, <3>1, Counts
  <2> QED BY <1>1, <1>6, <1>9, <2>1, <2>3 DEF IInv, LedgersOK, Opening
<1>14. Course'
  <2>1. disk'.coordinator = Append(disk.log, Delta(ledger, op))'
    BY <1>1, <1>9 DEF Delta, r
  <2> QED BY <1>1, <1>9, <2>1, Names DEF IInv, Course, Down, Opening, Handlers, Writes
<1>15. Memory'
  BY <1>1, <1>6, <1>10, Names DEF IInv, Memory, Down
<1>16. Accounts'
  <2>1. Entered' = Entered
    BY <1>1, <1>9, <1>10 DEF Unseen, Entered
  <2> QED BY <1>1, <1>6, <1>9, <1>10, <1>12, <2>1 DEF IInv, Accounts, Balance
<1>17. Progress'
  BY <1>1, Names DEF Progress, Opening
<1>18. Wasted
  BY <1>1, <1>9, <1>10, <1>12 DEF Wasted, Accepted, Settles, Unseen
<1> QED BY <1>6, <1>13, <1>14, <1>15, <1>16, <1>17, <1>18 DEF IInv

LEMMA DoLinked ==
  ASSUME IInv, Linked
  PROVE  IInv' /\ Steady
<1> DEFINE r == Delta(ledger, op)
<1>1. /\ step = "linked" /\ call = "link" /\ ~Down /\ ~dirty /\ op = Loss /\ disk.journal = None
      /\ UNCHANGED <<chunk, dirty, budget>>
      /\ call' = "idle" /\ step' = None /\ op' = None
      /\ disk' = RolledForward(disk) /\ ledger' = ApplyDelta(ledger, r)
  BY Names DEF IInv, Course, Memory, Linked, Down, Return, Miscounting
<1>2. r \in Deltas /\ r.action = op /\ r.seq = ledger.seq + 1
  BY <1>1, Counts, Names DEF Delta, Deltas, IInv
<1>3. disk \in Files /\ WellKept(disk)
  BY DEF IInv, FilesOK, WellKept
<1>4. Kept.seq = LastSeq(disk) /\ LastSeq(disk) \in Nat /\ ledger.seq = Kept.seq
  BY <1>1, <1>3, FileFields DEF WellKept, Orderly, Kept, Base, IInv, Memory
<1>5. Fit(Kept, op)
  BY <1>1 DEF Fit
<1>6. disk.coordinator # None /\ Final(disk.coordinator) = r
  <2>1. disk.coordinator = Append(disk.log, r)
    BY <1>1 DEF IInv, Course
  <2>2. Append(disk.log, r) \in Seq(Deltas) /\ Final(Append(disk.log, r)) = r
    BY <1>2, <1>3, <1>4, <1>5, Continued DEF Kept
  <2> QED BY <2>1, <2>2, Constants
<1> HIDE DEF r
<1>7. /\ WellKept(disk') /\ disk'.coordinator = None /\ Forecast(disk') = Forecast(disk)
      /\ disk'.chunk = disk.chunk /\ disk'.journal = disk.journal
      /\ disk'.pending = None /\ ~disk'.torn /\ Base(disk') = Forecast(disk)
  BY <1>1, <1>3, <1>6, Forwarded
<1>8. FilesOK' /\ Kept' = Whole /\ Whole' = Whole /\ Whole = ApplyDelta(Kept, r)
  BY <1>6, <1>7 DEF FilesOK, Kept, Whole, Forecast
<1>9. Saved' = Saved /\ Ore(Saved)' = Ore(Saved)
  BY <1>7 DEF Saved, Ore
<1>10. disk'.ledger = disk.ledger
  BY <1>1, <1>3 DEF RolledForward, Files
<1>11. /\ Sane(ledger)' /\ ledger' \in Ledgers /\ ledger'.next + budget.ops <= MaxOps + 1
       /\ \A part \in {"applied", "placed", "lost", "seq", "reserved"} :
            ledger'[part] = ApplyDelta(Kept, r)[part]
       /\ ledger.reserved # None => ledger'.reserved # None
  BY <1>1, <1>2, <1>5, MemoryFollows, Names
<1>12. LedgersOK'
  <2>1. Sane(Whole)'
    BY <1>8 DEF IInv, LedgersOK, Sane
  <2>2. Kept'.next <= MaxOps + 1 /\ Kept'.lost <= MaxLosses
    <3>1. LedgersOK
      BY DEF IInv
    <3> QED BY ONLY <1>8, <3>1, Counts
  <2> QED BY <1>1, <1>8, <1>10, <1>11, <2>1, <2>2, Names DEF IInv, LedgersOK, Opening
<1>13. Course'
  BY <1>1, <1>7, Names DEF IInv, Course, Down, Opening, Handlers, Writes
<1>14. Memory'
  BY <1>1, <1>8, <1>9, <1>11, Names DEF IInv, Memory, Down
<1>15. Accounts'
  <2>1. Entered' = Entered
    BY <1>1, <1>7, <1>9 DEF Unseen, Entered
  <2> QED BY <1>1, <1>7, <1>8, <1>9, <2>1 DEF IInv, Accounts, Balance
<1>16. Progress'
  BY <1>1, Names DEF Progress, Opening
<1>17. Steady
  BY <1>7, <1>8, <1>9, SteadyFiles
<1> QED BY <1>8, <1>12, <1>13, <1>14, <1>15, <1>16, <1>17 DEF IInv

\* An adoption counts what is natural in a chunk of which nothing was recorded.
LEMMA Reserving ==
  ASSUME IInv, ~Down, step \notin {"read", "append", "linked"}
  PROVE  /\ Saved \in Voxels
         /\ ledger.reserved # None => Reserve(ledger, Saved) = ledger
         /\ ledger.reserved = None /\ Natural # {} =>
              /\ Kept.reserved = None
              /\ Reserve(ledger, Saved) # ledger
              /\ Reserve(ledger, Saved) = [ledger EXCEPT !.reserved = Cardinality(Natural)]
         /\ Cardinality(Natural) \in 0..Cardinality(Cells)
<1>1. Saved \in Voxels
  <2>1. disk \in Files
    BY DEF IInv, FilesOK, WellKept
  <2>2. Generated \in Voxels
    BY DEF Generated, Voxels
  <2> QED BY <2>1, <2>2 DEF Saved, Files
<1>2. Cardinality(Natural) \in 0..Cardinality(Cells)
  <2>1. IsFiniteSet(Natural) /\ Cardinality(Natural) <= Cardinality(Cells)
    BY Constants, FS_Subset
  <2> QED BY <2>1, Constants, FS_CardinalityType
<1>3. ledger.reserved # None => Reserve(ledger, Saved) = ledger
  BY DEF Reserve
<1>4. ASSUME ledger.reserved = None, Natural # {}
      PROVE  /\ Kept.reserved = None /\ Reserve(ledger, Saved) # ledger
             /\ Reserve(ledger, Saved) = [ledger EXCEPT !.reserved = Cardinality(Natural)]
  <2>1. Cardinality(Natural) # None
    BY <1>2, Constants
  <2>2. Kept.reserved = None /\ ledger.placed = Kept.placed
    BY <1>4, <2>1 DEF IInv, Memory
  <2>3. Whole.placed = {} /\ Ore(Saved) = Natural /\ Whole.placed = ledger.placed
    BY <1>4, <2>2, Accounted DEF IInv, Accounts
  <2>4. {c \in Cells : Saved[c] = "ore" /\ c \notin ledger.placed} = Natural
    BY <2>3 DEF Ore
  <2>5. Reserve(ledger, Saved) = [ledger EXCEPT !.reserved = Cardinality(Natural)]
    BY <1>4, <2>4 DEF Reserve
  <2>6. [ledger EXCEPT !.reserved = Cardinality(Natural)] # ledger
    <3>1. ledger \in Ledgers
      BY Counts DEF IInv
    <3>2. [ledger EXCEPT !.reserved = Cardinality(Natural)].reserved = Cardinality(Natural)
      BY <3>1 DEF Ledgers
    <3> QED BY <1>4, <2>1, <3>2
  <2> QED BY <2>2, <2>5, <2>6
<1> QED BY <1>1, <1>2, <1>3, <1>4

\* In a chunk that had none, an adoption counts at most the block of a journalled
\* placement that the ledger has yet to see.
LEMMA Miscounted ==
  ASSUME IInv, ~Down, step \notin {"read", "append", "linked"}, Natural = {}
  PROVE  /\ Entered = Ore(Saved) => Reserve(ledger, Saved) = ledger
         /\ Reserve(ledger, Saved) # ledger =>
              /\ ledger.reserved = None /\ Unseen /\ 1 \in 0..Cardinality(Cells)
              /\ Reserve(ledger, Saved) = [ledger EXCEPT !.reserved = 1]
<1> DEFINE natural == {c \in Cells : Saved[c] = "ore" /\ c \notin ledger.placed}
<1>1. ledger.placed = Entered
  BY Accounted DEF IInv, Accounts, Balance
<1>2. natural = Ore(Saved) \ Entered
  BY <1>1 DEF Ore
<1>3. Reserve(ledger, Saved) = IF ledger.reserved = None /\ natural # {}
                               THEN [ledger EXCEPT !.reserved = Cardinality(natural)] ELSE ledger
  BY DEF Reserve
<1> HIDE DEF natural
<1>4. ASSUME Reserve(ledger, Saved) # ledger
      PROVE  /\ ledger.reserved = None /\ Unseen /\ 1 \in 0..Cardinality(Cells)
             /\ Reserve(ledger, Saved) = [ledger EXCEPT !.reserved = 1]
  <2>1. ledger.reserved = None /\ natural # {}
    BY <1>3, <1>4
  <2>2. Unseen /\ natural = {disk.journal.cell}
    BY <1>2, <2>1 DEF Entered
  <2>3. Cardinality(natural) = 1
    BY <2>2, FS_Singleton
  <2>4. disk.journal.cell \in Cells
    BY <2>2, Journal DEF Unseen
  <2>5. 1 <= Cardinality(Cells) /\ Cardinality(Cells) \in Nat
    <3>1. {disk.journal.cell} \subseteq Cells
      BY <2>4
    <3> QED BY <2>2, <2>3, <3>1, Constants, FS_Subset, FS_CardinalityType
  <2> QED BY <1>3, <2>1, <2>2, <2>3, <2>5
<1> QED BY <1>2, <1>3, <1>4

LEMMA DoAdopt ==
  ASSUME IInv, Adopt
  PROVE  IInv'
<1>1. /\ call = "idle" /\ step = None /\ op = None /\ ~Down /\ chunk = None
      /\ UNCHANGED <<disk, call, step, op, budget>>
      /\ chunk' = Saved /\ ledger' = Reserve(ledger, Saved)
      /\ dirty' = (dirty \/ ledger' # ledger) /\ dirty \in BOOLEAN
  BY DEF IInv, Course, Adopt, Idle, Down
<1>2. /\ Saved \in Voxels
      /\ ledger.reserved # None \/ Natural = {} => ledger' = ledger
      /\ ledger.reserved = None /\ Natural # {} =>
           /\ Kept.reserved = None /\ ledger' # ledger
           /\ ledger' = [ledger EXCEPT !.reserved = Cardinality(Natural)]
      /\ Cardinality(Natural) \in 0..Cardinality(Cells)
  <2>1. Entered = Ore(Saved)
    BY <1>1, NoJournal DEF IInv, Course
  <2> QED BY <1>1, <2>1, Reserving, Miscounted, Names
<1>3. FilesOK' /\ Kept' = Kept /\ Whole' = Whole /\ Ore(Saved)' = Ore(Saved) /\ Saved' = Saved
  BY <1>1, SameDisk DEF IInv
<1>4. Cardinality(Natural) # None /\ Cardinality(Natural) \in Nat
  BY <1>2, Constants, FS_CardinalityType
<1>5. /\ ledger' \in Ledgers
      /\ \A part \in {"next", "applied", "placed", "lost", "seq"} : ledger'[part] = ledger[part]
      /\ Natural # {} => ledger'.reserved # None
      /\ \/ ledger'.reserved = Kept.reserved /\ ledger' = ledger
         \/ /\ Natural # {} /\ dirty'
            /\ Kept.reserved = None /\ ledger'.reserved = Cardinality(Natural)
  <2>1. ledger \in Ledgers
    BY Counts DEF IInv
  <2>2. CASE ledger.reserved # None \/ Natural = {}
    <3>1. ledger' = ledger
      BY <1>2, <2>2
    <3>2. ledger.reserved = Kept.reserved \/
          (Natural # {} /\ dirty /\ Kept.reserved = None /\ ledger.reserved = Cardinality(Natural))
      BY <1>1, Names DEF IInv, Memory
    <3> QED BY <1>1, <2>1, <2>2, <3>1, <3>2
  <2>3. CASE ledger.reserved = None /\ Natural # {}
    <3>1. ledger' = [ledger EXCEPT !.reserved = Cardinality(Natural)]
      BY <1>2, <2>3
    <3>2. dirty'
      BY <1>1, <1>2, <2>3
    <3> QED BY <1>2, <1>4, <2>1, <2>3, <3>1, <3>2 DEF Ledgers
  <2> QED BY <2>2, <2>3
<1>6. LedgersOK'
  <2>1. Sane(ledger)'
    BY <1>2, <1>5 DEF IInv, LedgersOK, Sane
  <2>2. Sane(Whole)'
    BY <1>3 DEF IInv, LedgersOK, Sane
  <2> QED BY <1>1, <1>3, <1>5, <2>1, <2>2 DEF IInv, LedgersOK, Opening
<1>7. Course'
  BY <1>1, SameDisk, Names DEF IInv, Course, Down, Opening, Handlers, Writes
<1>8. Memory'
  <2>1. chunk' # None
    BY <1>1, <1>2, Constants
  <2>2. Ore(chunk)' = Ore(Saved)
    BY <1>1 DEF Ore
  <2> QED BY <1>1, <1>2, <1>3, <1>5, <2>1, <2>2, Names DEF IInv, Memory, Down
<1>9. Accounts'
  <2>1. budget'.ops = budget.ops
    BY <1>1
  <2> QED BY <1>1, <2>1, SameAccounts, Counts DEF IInv
<1>10. Progress'
  BY <1>1, Names DEF Progress, Opening
<1> QED BY <1>3, <1>6, <1>7, <1>8, <1>9, <1>10 DEF IInv

\* Writing an edited chunk between handlers changes no finite block on disk.
LEMMA DoWrite ==
  ASSUME IInv, Evict \/ SaveChunks
  PROVE  IInv' /\ Steady
<1>1. /\ call \in {"idle", "save"} /\ step \in {None, "world"} /\ op = None /\ ~Down
      /\ disk.journal = None /\ disk' = Written /\ UNCHANGED <<ledger, dirty, budget>>
      /\ call' = "idle" /\ step' = None /\ op' = None /\ chunk' \in {None, chunk}
  BY Names DEF IInv, Course, Evict, SaveChunks, Idle, Down, Return
<1>2. disk \in Files
  BY DEF IInv, FilesOK, WellKept
<1>3. chunk # None => chunk \in Voxels /\ Ore(chunk) = Ore(Saved)
                         /\ (Natural # {} => ledger.reserved # None)
  BY <1>1, Names DEF IInv, Memory
<1> DEFINE v == IF chunk \in {None, Saved} THEN disk.chunk ELSE chunk
<1>4. v \in {None} \cup Voxels
  BY <1>2, <1>3 DEF Files
<1>5. disk' = [disk EXCEPT !.chunk = v, !.journal = disk.journal]
  BY <1>1, <1>2 DEF Written, Files
<1>6. disk.journal \in {None} \cup Ops
  BY <1>2 DEF Files
<1> HIDE DEF v
<1>7. /\ FilesOK' /\ Kept' = Kept /\ Whole' = Whole
      /\ disk'.chunk = v /\ disk'.journal = disk.journal /\ disk'.ledger = disk.ledger
      /\ disk'.torn = disk.torn
      /\ disk'.pending = disk.pending /\ disk'.coordinator = disk.coordinator
  BY <1>4, <1>5, <1>6, BesideLedger
<1>8. Ore(Saved)' = Ore(Saved)
  <2>1. Ore(Saved)' = Ore(Saved')
    BY DEF Ore
  <2>2. CASE chunk \in {None, Saved}
    <3>1. Saved' = Saved
      BY <1>7, <2>2 DEF v, Saved
    <3> QED BY <2>1, <3>1
  <2>3. CASE chunk \notin {None, Saved}
    <3>1. Saved' = chunk
      BY <1>7, <2>3 DEF v, Saved
    <3> QED BY <1>3, <2>1, <2>3, <3>1
  <2> QED BY <2>2, <2>3
<1>9. LedgersOK'
  <2>1. /\ Kept'.next <= MaxOps + 1 /\ Kept'.lost <= MaxLosses
        /\ disk'.ledger.next <= MaxOps + 1 /\ disk'.ledger.lost <= MaxLosses
    BY <1>7 DEF IInv, LedgersOK
  <2> QED BY <1>1, <1>7, <2>1, LedgersKept, Names DEF IInv
<1>10. Course'
  BY <1>1, <1>7, Names DEF IInv, Course, Down, Opening, Handlers, Writes
<1>11. Memory'
  <2>1. chunk' # None => chunk' = chunk
    BY <1>1
  <2>2. Ore(chunk)' = Ore(chunk')
    BY DEF Ore
  <2> QED BY <1>1, <1>3, <1>7, <1>8, <2>1, <2>2, Names DEF IInv, Memory, Down
<1>12. Accounts'
  <2>1. Entered' = Entered
    BY <1>1, <1>7, <1>8 DEF Unseen, Entered
  <2> QED BY <1>1, <1>7, <1>8, <2>1 DEF IInv, Accounts, Balance
<1>13. Progress'
  BY <1>1, Names DEF Progress, Opening
<1>14. Steady
  BY <1>1, <1>7, <1>8, SteadyApart DEF Settles, Unseen
<1> QED BY <1>7, <1>9, <1>10, <1>11, <1>12, <1>13, <1>14 DEF IInv

LEMMA DoPlainEdit ==
  ASSUME IInv, NEW c \in Cells, PlainEdit(c)
  PROVE  IInv'
<1>1. /\ call = "idle" /\ step = None /\ op = None /\ ~Down
      /\ UNCHANGED <<disk, ledger, dirty, call, step, op>> /\ Spend("edits")
      /\ chunk # None /\ chunk[c] # "ore"
      /\ chunk' = [chunk EXCEPT ![c] = IF chunk[c] = "air" THEN "plain" ELSE "air"]
  BY DEF IInv, Course, PlainEdit, Idle, Down
<1>2. chunk \in Voxels /\ Ore(chunk) = Ore(Saved) /\ (Natural # {} => ledger.reserved # None)
  BY <1>1, Names DEF IInv, Memory
<1>3. chunk' \in Voxels /\ chunk' # None /\ Ore(chunk') = Ore(chunk)
  <2>1. chunk' \in Voxels /\ \A x \in Cells : chunk'[x] = "ore" <=> chunk[x] = "ore"
    BY <1>1, <1>2 DEF Voxels
  <2> QED BY <2>1, Constants DEF Ore
<1>4. FilesOK' /\ Kept' = Kept /\ Whole' = Whole /\ Ore(Saved)' = Ore(Saved) /\ Saved' = Saved
  BY <1>1, SameDisk DEF IInv
<1>5. /\ budget' \in [ops : Nat, losses : Nat, edits : Nat, saves : Nat, crashes : Nat]
      /\ budget'.ops = budget.ops /\ budget'.losses = budget.losses
  BY <1>1, BudgetSpent DEF IInv
<1>6. LedgersOK'
  <2>1. Sane(ledger)' /\ Sane(Whole)'
    BY <1>1, <1>4 DEF IInv, LedgersOK, Sane
  <2> QED BY <1>1, <1>4, <1>5, <2>1 DEF IInv, LedgersOK, Opening
<1>7. Course'
  BY <1>1, SameDisk, Names DEF IInv, Course, Down, Opening, Handlers, Writes
<1>8. Memory'
  <2>1. Ore(chunk)' = Ore(Saved)
    BY <1>2, <1>3 DEF Ore
  <2> QED BY <1>1, <1>2, <1>3, <1>4, <2>1, Names DEF IInv, Memory, Down
<1>9. Accounts'
  BY <1>1, <1>5, SameAccounts, Counts DEF IInv
<1>10. Progress'
  BY <1>1, Names DEF Progress, Opening
<1> QED BY <1>4, <1>6, <1>7, <1>8, <1>9, <1>10 DEF IInv

LEMMA Pending ==
  ASSUME IInv, step = "append"
  PROVE  Ahead(disk) /\ disk.coordinator = None /\ ~Down
<1>1. /\ ~Down /\ disk.pending = Delta(ledger, op) /\ disk.coordinator = None
      /\ call \in {"edit", "boot", "loss"}
  BY Names DEF IInv, Course, Down
<1>2. op \in Actions
  BY <1>1, Names DEF IInv, Course, Opening, Ops
<1>3. Delta(ledger, op) \in Deltas /\ Delta(ledger, op).seq = ledger.seq + 1
  BY <1>2, Counts DEF Delta, Deltas, IInv
<1>4. Kept.seq = LastSeq(disk)
  <2>1. disk \in Files /\ Orderly(disk.ledger, disk.log)
    BY DEF IInv, FilesOK, WellKept
  <2> QED BY <2>1, FileFields DEF Orderly, Kept, Base
<1>5. ledger.seq = Kept.seq
  BY <1>1 DEF IInv, Memory
<1> QED BY <1>1, <1>3, <1>4, <1>5, Constants DEF Ahead

\* A frame may be cut short: its pending record makes it whole again.
LEMMA DoCrash ==
  ASSUME IInv, Crash
  PROVE  IInv' /\ Steady
<1>1. /\ ~Down /\ chunk' = None /\ ledger' = Fresh /\ dirty' = FALSE
      /\ call' = "down" /\ step' = None /\ op' = None /\ Spend("crashes")
      /\ disk' = disk \/ (step = "append" /\ disk' = [disk EXCEPT !.torn = TRUE])
  BY DEF Crash, Return, Down
<1>2. disk \in Files /\ WellKept(disk)
  BY DEF IInv, FilesOK, WellKept
<1>3. /\ FilesOK' /\ Kept' = Kept /\ Whole' = Whole
      /\ disk'.chunk = disk.chunk /\ disk'.journal = disk.journal /\ disk'.ledger = disk.ledger
  <2>1. CASE disk' = disk
    BY <2>1, SameDisk DEF IInv
  <2>2. CASE step = "append" /\ disk' = [disk EXCEPT !.torn = TRUE]
    <3>1. Ahead(disk)
      BY <2>2, Pending
    <3>2. /\ disk' \in Files /\ disk'.chunk = disk.chunk /\ disk'.journal = disk.journal
          /\ disk'.ledger = disk.ledger /\ disk'.log = disk.log /\ disk'.torn
          /\ disk'.pending = disk.pending /\ disk'.coordinator = disk.coordinator
      BY <1>2, <2>2 DEF Files
    <3>3. Base(disk') = Base(disk) /\ LastSeq(disk') = LastSeq(disk)
      BY <3>2 DEF Base, LastSeq
    <3>4. Ahead(disk') /\ Forecast(disk') = Forecast(disk)
      BY <3>1, <3>2, <3>3 DEF Ahead, Forecast
    <3>5. WellKept(disk')
      BY <1>2, <3>1, <3>2, <3>3, <3>4 DEF WellKept
    <3> QED BY <3>2, <3>3, <3>4, <3>5 DEF FilesOK, Kept, Whole
  <2> QED BY <1>1, <2>1, <2>2
<1>4. Saved' = Saved /\ Ore(Saved)' = Ore(Saved)
  BY <1>3 DEF Saved, Ore
<1>5. (Unseen' <=> Unseen) /\ Entered' = Entered
  BY <1>3, <1>4 DEF Unseen, Entered
<1>6. /\ budget' \in [ops : Nat, losses : Nat, edits : Nat, saves : Nat, crashes : Nat]
      /\ budget'.ops = budget.ops /\ budget'.losses = budget.losses
  BY <1>1, BudgetSpent DEF IInv
<1>7. LedgersOK'
  <2>1. Sane(Fresh)
    BY Constants DEF Sane, Ledgers, Fresh
  <2>2. Sane(ledger)' /\ Sane(Whole)'
    BY <1>1, <1>3, <2>1 DEF IInv, LedgersOK, Sane
  <2>3. ledger'.next + budget'.ops <= MaxOps + 1
    <3>1. LedgersOK /\ ledger'.next = 1
      BY <1>1 DEF IInv, Fresh
    <3>2. ledger.next > 0
      BY DEF IInv, LedgersOK, Sane
    <3> QED BY ONLY <1>6, <3>1, <3>2, Counts
  <2> QED BY <1>1, <1>3, <1>6, <2>2, <2>3, Names DEF IInv, LedgersOK
<1>8. Course'
  BY <1>1, Names DEF IInv, Course, Down, Opening, Handlers, Writes
<1>9. Memory'
  BY <1>1 DEF Memory, Down
<1>10. Accounts'
  <2>1. Awaits(Whole, Entered, disk.journal)' <=> Awaits(Whole, Entered, disk.journal)
    BY <1>3, <1>5 DEF Awaits
  <2>2. Sides(disk.journal)' <=> Sides(disk.journal)
    BY <1>3 DEF Sides
  <2> QED BY <1>3, <1>4, <1>5, <1>6, <2>1, <2>2 DEF IInv, Accounts, Balance
<1>11. Progress'
  BY <1>1, Names DEF Progress, Opening
<1>12. Steady
  BY <1>3, <1>4, SteadyFiles
<1> QED BY <1>3, <1>7, <1>8, <1>9, <1>10, <1>11, <1>12 DEF IInv

LEMMA DoLoad ==
  ASSUME IInv, Load
  PROVE  IInv' /\ Steady
<1>1. disk \in Files /\ WellKept(disk)
  BY DEF IInv, FilesOK, WellKept
<1>2. ~Unreadable(RolledForward(disk))
  BY <1>1, StartReads
<1>3. /\ call = "down" /\ step = None /\ call' = "boot" /\ step' = "read" /\ op' = None
      /\ disk' = [RolledForward(disk) EXCEPT !.log = Records(RolledForward(disk)), !.torn = FALSE]
      /\ UNCHANGED <<chunk, ledger, dirty, budget>> /\ ~dirty /\ chunk = None
  BY <1>2 DEF Load, IInv, Course, Down
<1>4. /\ WellKept(disk') /\ Base(disk') = Forecast(disk) /\ Forecast(disk') = Forecast(disk)
      /\ ~disk'.torn /\ disk'.coordinator = None
      /\ disk'.chunk = disk.chunk /\ disk'.journal = disk.journal
      /\ disk'.pending # None => disk'.log # <<>> /\ disk'.pending = Final(disk'.log)
  BY <1>1, <1>3, Loaded
<1>5. FilesOK' /\ Kept' = Whole /\ Whole' = Whole
  BY <1>4 DEF FilesOK, Kept, Whole
<1>6. disk'.ledger = disk.ledger
  <2>1. RolledForward(disk) \in Files /\ RolledForward(disk).ledger = disk.ledger
    <3>1. RolledForward(disk) \in Files
      BY <1>1, Forwarded DEF WellKept
    <3> QED BY <1>1, <3>1 DEF RolledForward, Files
  <2> QED BY <1>3, <2>1 DEF Files
<1>7. Saved' = Saved /\ Ore(Saved)' = Ore(Saved)
  BY <1>4 DEF Saved, Ore
<1>8. (Unseen' <=> Unseen) /\ Entered' = Entered
  BY <1>4, <1>5, <1>7 DEF Unseen, Entered
<1>9. LedgersOK'
  <2>1. Sane(ledger)' /\ Sane(Whole)'
    BY <1>3, <1>5 DEF IInv, LedgersOK, Sane
  <2>2. Kept'.next <= MaxOps + 1 /\ Kept'.lost <= MaxLosses
    <3>1. LedgersOK
      BY DEF IInv
    <3> QED BY ONLY <1>5, <3>1, Counts
  <2> QED BY <1>3, <1>5, <1>6, <2>1, <2>2, Names DEF IInv, LedgersOK, Opening
<1>10. Course'
  <2>1. /\ call' = "boot" /\ step' = "read" /\ op' = None /\ ~dirty' /\ chunk' = None
        /\ dirty' \in BOOLEAN /\ ledger' = Fresh
    BY <1>3 DEF IInv, Course
  <2> QED BY ONLY <1>4, <2>1, Names DEF Course, Down, Opening, Handlers, Writes
<1>11. Memory'
  BY <1>3 DEF Memory
<1>12. Accounts'
  <2>1. Awaits(Whole, Entered, disk.journal)' <=> Awaits(Whole, Entered, disk.journal)
    BY <1>4, <1>5, <1>8 DEF Awaits
  <2>2. Sides(disk.journal)' <=> Sides(disk.journal)
    BY <1>4 DEF Sides
  <2> QED BY <1>3, <1>4, <1>5, <1>7, <1>8, <2>1, <2>2 DEF IInv, Accounts, Balance
<1>13. Progress'
  BY <1>3, Names DEF Progress, Opening
<1>14. Steady
  BY <1>4, <1>5, <1>7, SteadyFiles
<1> QED BY <1>5, <1>9, <1>10, <1>11, <1>12, <1>13, <1>14 DEF IInv

LEMMA DoReadLedger ==
  ASSUME IInv, ReadLedger
  PROVE  IInv' /\ Steady
<1>1. /\ step = "read" /\ call = "boot" /\ op = None /\ ~dirty /\ chunk = None /\ ~Down
      /\ disk' = [disk EXCEPT !.pending = None] /\ ledger' = Replayed(disk)
      /\ step' = "replay" /\ UNCHANGED <<chunk, dirty, call, op, budget>> /\ dirty \in BOOLEAN
      /\ ~disk.torn
  BY Names DEF IInv, Course, ReadLedger, Down
<1>2. disk \in Files /\ WellKept(disk)
  BY DEF IInv, FilesOK, WellKept
<1>3. disk.coordinator = None /\ ~Ahead(disk)
  BY <1>1, NotAhead
<1>4. /\ WellKept(disk') /\ Base(disk') = Base(disk) /\ Forecast(disk') = Base(disk)
      /\ Forecast(disk) = Base(disk)
  BY <1>1, <1>2, <1>3, Unpended
<1>5. FilesOK' /\ Kept' = Kept /\ Whole' = Whole /\ Whole = Kept
  BY <1>4 DEF FilesOK, Kept, Whole
<1>6. ledger' = Whole
  BY <1>1, <1>2, <1>3, StartReadsPlain DEF Whole
<1>7. /\ disk'.chunk = disk.chunk /\ disk'.journal = disk.journal /\ disk'.ledger = disk.ledger
      /\ disk'.torn = disk.torn /\ disk'.pending = None /\ disk'.coordinator = disk.coordinator
  BY <1>1, <1>2 DEF Files
<1>8. Saved' = Saved /\ Ore(Saved)' = Ore(Saved)
  BY <1>7 DEF Saved, Ore
<1>9. (Unseen' <=> Unseen) /\ Entered' = Entered
  BY <1>5, <1>7, <1>8 DEF Unseen, Entered
<1>10. LedgersOK'
  <2>1. Sane(ledger)' /\ Sane(Whole)'
    BY <1>5, <1>6 DEF IInv, LedgersOK, Sane
  <2> QED BY <1>1, <1>5, <1>6, <1>7, <2>1, Names DEF IInv, LedgersOK, Opening
<1>11. Course'
  BY <1>1, <1>3, <1>7, Names DEF Course, Down, Opening, Handlers, Writes
<1>12. Memory'
  BY <1>1, <1>5, <1>6, Names DEF Memory, Down
<1>13. Accounts'
  <2>1. Awaits(Whole, Entered, disk.journal)' <=> Awaits(Whole, Entered, disk.journal)
    BY <1>5, <1>7, <1>9 DEF Awaits
  <2>2. Sides(disk.journal)' <=> Sides(disk.journal)
    BY <1>7 DEF Sides
  <2> QED BY <1>1, <1>5, <1>7, <1>8, <1>9, <2>1, <2>2 DEF IInv, Accounts, Balance
<1>14. Progress'
  BY <1>1, Names DEF Progress, Opening
<1>15. Steady
  BY <1>5, <1>7, <1>8, SteadyFiles
<1> QED BY <1>5, <1>10, <1>11, <1>12, <1>13, <1>14, <1>15 DEF IInv

\* The side of the journal that is on disk decides what is left to do.
LEMMA DoReplayJournal ==
  ASSUME IInv, ReplayJournal
  PROVE  IInv'
<1>1. /\ step = "replay" /\ call = "boot" /\ op = None /\ ~dirty /\ chunk = None /\ ~Down
      /\ UNCHANGED <<disk, budget>> /\ dirty \in BOOLEAN
      /\ ~disk.torn /\ disk.pending = None /\ disk.coordinator = None
  BY Names DEF IInv, Course, Memory, ReplayJournal, Down, Miscounting
<1>2. FilesOK' /\ Kept' = Kept /\ Whole' = Whole /\ Ore(Saved)' = Ore(Saved) /\ Saved' = Saved
      /\ (Unseen' <=> Unseen) /\ (Estranged' <=> Estranged)
  BY <1>1, SameDisk DEF IInv
<1>3. /\ Whole = Kept /\ ledger.reserved = Kept.reserved
      /\ \A part \in {"applied", "placed", "lost", "seq"} : ledger[part] = Whole[part]
  BY <1>1, Accounted, Names DEF IInv, Memory
<1>4. Accounts'
  BY <1>1, SameAccounts, Counts DEF IInv
<1>5. /\ Kept'.next <= MaxOps + 1 /\ Kept'.lost <= MaxLosses
      /\ disk'.ledger.next <= MaxOps + 1 /\ disk'.ledger.lost <= MaxLosses
  BY <1>1, <1>2 DEF IInv, LedgersOK
<1>6. CASE disk.journal = None
  <2>1. UNCHANGED <<chunk, ledger, dirty>> /\ call' = "idle" /\ step' = None /\ op' = None
    BY <1>6 DEF ReplayJournal, Return
  <2>2. LedgersOK'
    BY <1>1, <1>2, <1>5, <2>1, LedgersKept, Names DEF IInv
  <2>3. Course'
    BY <1>1, <1>6, <2>1, Names DEF Course, Down, Opening, Handlers, Writes
  <2>4. Memory'
    BY <1>1, <1>2, <1>3, <2>1, Names DEF Memory, Down
  <2>5. Progress'
    BY <2>1, Names DEF Progress, Opening
  <2> QED BY <1>2, <1>4, <2>2, <2>3, <2>4, <2>5 DEF IInv
<1>7. CASE disk.journal # None /\ Reserve(ledger, Saved) = ledger
  <2> DEFINE j == disk.journal
  <2>1. /\ j \in Ops /\ j.id # 0 /\ j.before # j.after
        /\ Natural # {} => Whole.reserved # None
    BY <1>7, Journal
  <2>2. Saved \in Voxels /\ Reserve(ledger, Saved) = ledger
    BY <1>1, <1>7, Reserving, Names
  <2>3. /\ chunk' = Saved /\ ledger' = ledger /\ ~dirty' /\ dirty' \in BOOLEAN
    BY <1>1, <1>7, <2>2 DEF ReplayJournal
  <2>4. \/ Saved[j.cell] = j.after /\ op' = j /\ step' = "delta" /\ call' = "boot"
        \/ Saved[j.cell] = j.before /\ op' = j /\ step' = "finish" /\ call' = "boot"
        \/ /\ Saved[j.cell] \notin {j.before, j.after}
           /\ call' = "refused" /\ step' = None /\ op' = None
    <3>1. CASE Saved[j.cell] = j.after
      BY <1>1, <1>7, <3>1 DEF ReplayJournal
    <3>2. CASE Saved[j.cell] = j.before
      BY <1>1, <1>7, <2>1, <3>2 DEF ReplayJournal
    <3>3. CASE Saved[j.cell] \notin {j.before, j.after}
      BY <1>1, <1>7, <3>3 DEF ReplayJournal, Return
    <3> QED BY <3>1, <3>2, <3>3
  <2>5. disk'.journal = j /\ disk' = disk
    BY <1>1
  <2>6. Saved[j.cell] \notin {j.before, j.after} => Estranged'
    BY <1>2, <1>7 DEF Estranged
  <2> HIDE DEF j
  <2>7. LedgersOK'
    BY <1>1, <1>2, <1>5, <2>1, <2>3, <2>4, LedgersKept, Names DEF IInv
  <2>8. Saved # None
    BY <2>2, Constants
  <2>9. Course'
    BY <1>1, <1>2, <1>3, <2>1, <2>2, <2>3, <2>4, <2>5, <2>6, <2>8, Names DEF Course, Down, Opening, Handlers, Writes
  <2>10. Memory'
    <3>1. Ore(chunk)' = Ore(Saved)
      BY <2>3 DEF Ore
    <3> QED BY <1>1, <1>2, <1>3, <2>1, <2>2, <2>3, <2>4, <3>1, Names DEF Memory, Down
  <2>11. Progress'
    BY <1>2, <2>1, <2>4, Names DEF Progress, Opening
  <2> QED BY <1>2, <1>4, <2>7, <2>9, <2>10, <2>11 DEF IInv
<1>8. CASE disk.journal # None /\ Reserve(ledger, Saved) # ledger
  <2> DEFINE j == disk.journal
  <2>1. j \in Ops /\ j.id # 0 /\ j.before # j.after
    BY <1>8, Journal
  <2>2. Natural = {}
    BY <1>1, <1>3, <1>8, Journal, Reserving, Names
  <2>3. /\ Saved \in Voxels /\ ledger.reserved = None /\ Unseen /\ 1 \in 0..Cardinality(Cells)
        /\ Reserve(ledger, Saved) = [ledger EXCEPT !.reserved = 1]
    BY <1>1, <1>8, <2>2, Miscounted, Reserving, Names
  <2>4. Saved[j.cell] = j.after
    BY <1>1, <1>8, <2>2, EnteredBefore, Miscounted, Names
  <2>5. /\ chunk' = Saved /\ ledger' = [ledger EXCEPT !.reserved = 1] /\ dirty' = TRUE
        /\ op' = j /\ step' = "delta" /\ call' = "boot"
    <3>1. /\ chunk' = Saved /\ ledger' = Reserve(ledger, Saved)
          /\ dirty' = (dirty \/ ledger' # ledger)
      BY <1>8 DEF ReplayJournal
    <3>2. Saved[disk.journal.cell] = disk.journal.after
      BY <2>4
    <3>3. op' = j /\ step' = "delta" /\ call' = call
      BY <1>8, <2>1, <3>2 DEF ReplayJournal
    <3> QED BY <1>1, <1>8, <2>3, <3>1, <3>3
  <2>6. /\ ledger' \in Ledgers /\ ledger'.reserved = 1
        /\ \A part \in {"next", "applied", "placed", "lost", "seq"} : ledger'[part] = ledger[part]
    BY <2>5, Counts DEF IInv, Ledgers
  <2>7. disk'.journal = j /\ disk' = disk /\ Saved # None
    BY <1>1, <2>3, Constants
  <2>8. j.id > ledger.applied
    BY <1>3, <2>3 DEF Unseen
  <2> HIDE DEF j
  <2>9. LedgersOK'
    <3>1. Sane(ledger)' /\ Sane(Whole)'
      BY <1>2, <2>3, <2>6 DEF IInv, LedgersOK, Sane
    <3> QED BY <1>1, <1>2, <2>1, <2>5, <2>6, <2>7, <3>1, Names DEF IInv, LedgersOK, Opening
  <2>10. Course'
    BY <1>1, <2>1, <2>5, <2>7, Names DEF Course, Down, Opening, Handlers, Writes
  <2>11. Memory'
    <3>1. Ore(chunk)' = Ore(Saved)
      BY <2>5 DEF Ore
    <3> QED BY <1>1, <1>2, <1>3, <2>2, <2>3, <2>5, <2>6, <2>8, <3>1, Names DEF Memory, Down, Miscounting
  <2>12. Progress'
    BY <1>2, <2>1, <2>4, <2>5, Names DEF Progress, Opening
  <2> QED BY <1>2, <1>4, <2>9, <2>10, <2>11, <2>12 DEF IInv
<1> QED BY <1>6, <1>7, <1>8

-----------------------------------------------------------------------------
(* The invariant. *)

LEMMA Begun ==
  ASSUME Init
  PROVE  IInv
<1> DEFINE none == <<>>
<1>1. none \in Seq(Deltas) /\ none = <<>>
  OBVIOUS
<1>2. Fresh \in Ledgers /\ Sane(Fresh)
  BY Constants DEF Sane, Ledgers, Fresh
<1>3. Orderly(Fresh, none) /\ Replay(Fresh, none)[Len(none)] = Fresh
  BY <1>1, OrderlyEmpty
<1> HIDE DEF none
<1>4. /\ disk \in Files /\ disk.chunk = None /\ disk.ledger = Fresh /\ disk.log = none
      /\ ~disk.torn /\ disk.pending = None /\ disk.journal = None /\ disk.coordinator = None
  BY <1>1, <1>2 DEF Init, Files
<1>5. Base(disk) = Fresh
  BY <1>3, <1>4 DEF Base
<1>6. ~Ahead(disk) /\ Forecast(disk) = Fresh
  BY <1>4, <1>5 DEF Ahead, Forecast
<1>7. FilesOK /\ Kept = Fresh /\ Whole = Fresh
  BY <1>2, <1>3, <1>4, <1>5, <1>6 DEF FilesOK, WellKept, Kept, Whole
<1>8. /\ ledger = Fresh /\ chunk = None /\ ~dirty /\ dirty \in BOOLEAN
      /\ call = "idle" /\ step = None /\ op = None
      /\ budget = [ops |-> MaxOps, losses |-> MaxLosses, edits |-> MaxEdits,
                   saves |-> MaxSaves, crashes |-> MaxCrashes]
  BY DEF Init
<1>9. /\ Fresh.next = 1 /\ Fresh.applied = 0 /\ Fresh.seq = 0 /\ Fresh.reserved = None
      /\ Fresh.placed = {} /\ Fresh.lost = 0
  BY DEF Fresh
<1>10. Ore(Saved) = Natural
  BY <1>4, Constants DEF Saved, Ore, Generated
<1>11. LedgersOK
  <2>1. budget \in [ops : Nat, losses : Nat, edits : Nat, saves : Nat, crashes : Nat]
        /\ budget.ops = MaxOps /\ budget.losses = MaxLosses
    BY <1>8, Constants
  <2> QED BY <1>2, <1>4, <1>7, <1>8, <1>9, <2>1, Names, Constants DEF LedgersOK
<1>12. Course
  BY <1>4, <1>8, Names DEF Course, Down, Opening, Handlers, Writes
<1>13. Memory
  BY <1>7, <1>8, Names DEF Memory, Down
<1>14. Accounts
  BY <1>4, <1>7, <1>9, <1>10, NoJournal DEF Accounts, Balance
<1>15. Progress
  BY <1>8, Names DEF Progress, Opening
<1> QED BY <1>7, <1>11, <1>12, <1>13, <1>14, <1>15 DEF IInv

LEMMA Stepped ==
  ASSUME IInv, [Next]_vars, MayFail \subseteq CleanFailures
  PROVE  IInv'
<1>1. CASE UNCHANGED vars
  <2>1. UNCHANGED <<disk, chunk, ledger, dirty, call, step, op, budget>>
    BY <1>1 DEF vars
  <2>2. FilesOK' /\ Kept' = Kept /\ Whole' = Whole /\ Ore(Saved)' = Ore(Saved) /\ Saved' = Saved
        /\ (Unseen' <=> Unseen) /\ (Estranged' <=> Estranged)
    BY <2>1, SameDisk DEF IInv
  <2>3. LedgersOK'
    <3>1. Sane(ledger)' /\ Sane(Whole)'
      BY <2>1, <2>2 DEF IInv, LedgersOK, Sane
    <3> QED BY <2>1, <2>2, <3>1 DEF IInv, LedgersOK, Opening
  <2>4. Course'
    <3>1. Delta(ledger, op)' = Delta(ledger, op)
      BY <2>1 DEF Delta
    <3>2. (Down' <=> Down) /\ (Opening' <=> Opening)
      BY <2>1 DEF Down, Opening
    <3> QED BY <2>1, <2>2, <3>1, <3>2 DEF IInv, Course
  <2>5. Memory'
    <3>1. Ore(chunk)' = Ore(chunk) /\ (Down' <=> Down)
      BY <2>1 DEF Ore, Down
    <3>2. Miscounting' <=> Miscounting
      BY <2>1 DEF Miscounting
    <3> QED BY <2>1, <2>2, <3>1, <3>2 DEF IInv, Memory
  <2>6. Accounts'
    <3>1. budget'.ops = budget.ops
      BY <2>1
    <3> QED BY <2>1, <3>1, SameAccounts, Counts DEF IInv
  <2>7. Progress'
    <3>1. Ore(chunk)' = Ore(chunk)
      BY <2>1 DEF Ore
    <3>2. Sides(op)' <=> Sides(op)
      BY <2>1 DEF Sides
    <3>3. Awaits(ledger, Ore(chunk), op)' <=> Awaits(ledger, Ore(chunk), op)
      BY <2>1, <3>1 DEF Awaits
    <3>4. Opening' <=> Opening
      BY <2>1 DEF Opening
    <3> QED BY <2>1, <2>2, <3>1, <3>2, <3>3, <3>4 DEF IInv, Progress
  <2> QED BY <2>2, <2>3, <2>4, <2>5, <2>6, <2>7 DEF IInv
<1>2. ASSUME NEW c \in Cells, BeginBreak(c) \/ BeginPlace(c) \/ PlainEdit(c)
      PROVE  IInv'
  BY <1>2, BeginEdit, DoPlainEdit
<1>3. CASE WriteJournal \/ SetVoxel \/ SaveChunk \/ Validate \/ WritePending
  BY <1>3, DoWriteJournal, DoSetVoxel, DoSaveChunk, DoValidate, DoWritePending
<1>4. CASE AppendFrame \/ DropPending \/ Finish \/ WriteLedger \/ ClearLog \/ Tidy
  BY <1>4, DoAppendFrame, DoDropPending, DoFinish, DoWriteLedger, DoClearLog, DoTidy
<1>5. CASE RecordLoss \/ LinkLoss \/ SaveWorld \/ Stage \/ Linked
  BY <1>5, BeginOther, DoStage, DoLinked
<1>6. CASE Adopt \/ Evict \/ SaveChunks
  BY <1>6, DoAdopt, DoWrite
<1>7. CASE Crash \/ Load \/ ReadLedger \/ ReplayJournal
  BY <1>7, DoCrash, DoLoad, DoReadLedger, DoReplayJournal
<1> QED BY <1>1, <1>2, <1>3, <1>4, <1>5, <1>6, <1>7 DEF Next

\* Where the process stands between two writes, and how the ledger in memory, the ledger
\* files, the chunk and the journal agree with each other there (materials.rs,
\* material_transactions.rs, world/persistence.rs), if a failing write is reported before
\* anything was written.
THEOREM MaterialInductive ==
  ASSUME MayFail \subseteq CleanFailures
  PROVE  Spec => []IInv
<1>1. Init => IInv
  BY Begun
<1>2. IInv /\ [Next]_vars => IInv'
  BY Stepped
<1> QED BY <1>1, <1>2, PTL DEF Spec

\* The ledger's files can be read at every write, whatever write the process dies before, and
\* a start is refused only for a voxel that neither side of the journal names (load,
\* replay_delta_log; replay_pending_material_operation).
THEOREM LedgerLoads ==
  ASSUME MayFail \subseteq CleanFailures
  PROVE  Spec => []LedgerInv
<1>1. IInv => LedgerInv
  <2> SUFFICES ASSUME IInv PROVE LedgerInv
    OBVIOUS
  <2>1. disk \in Files /\ WellKept(disk) /\ Sane(disk.ledger) /\ Sane(ledger)
    BY DEF IInv, FilesOK, WellKept, LedgersOK
  <2>2. LedgerAlwaysLoads
    BY <2>1, StartReads DEF LedgerAlwaysLoads, IInv, Course
  <2>3. chunk \in {None} \cup Voxels /\ disk.chunk \in {None} \cup Voxels
    <3>1. call = "down" \/ step = "read" => chunk = None
      BY DEF IInv, Course
    <3>2. call = "refused" => chunk \in Voxels
      BY DEF IInv, Course
    <3>3. call \notin {"down", "refused"} /\ step # "read" => chunk \in {None} \cup Voxels
      BY DEF IInv, Memory, Down
    <3> QED BY <2>1, <3>1, <3>2, <3>3 DEF Files
  <2>4. ledger.lost <= MaxLosses
    <3>1. Kept.lost <= MaxLosses
      BY DEF IInv, LedgersOK
    <3>2. call = "down" \/ step = "read" => ledger.lost = 0
      BY DEF IInv, Course, Fresh
    <3>3. call = "refused" => ledger.lost = Kept.lost
      BY DEF IInv, Course
    <3>4. call \notin {"down", "refused"} /\ step # "read" => ledger.lost = Kept.lost
      BY DEF IInv, Memory, Down
    <3> QED BY <3>1, <3>2, <3>3, <3>4, Constants
  <2>5. ledger.next <= MaxOps + 1 /\ disk.ledger.next <= MaxOps + 1
        /\ disk.ledger.lost <= MaxLosses
    <3>1. LedgersOK
      BY DEF IInv
    <3>2. ledger.next <= MaxOps + 1
      BY ONLY <3>1, Counts
    <3> QED BY <3>1, <3>2 DEF LedgersOK
  <2>6. ASSUME NEW l, Sane(l), l.next <= MaxOps + 1, l.lost <= MaxLosses
        PROVE  /\ l.next \in 1..(MaxOps + 1) /\ l.applied < l.next
               /\ l.reserved \in {None} \cup 0..Cardinality(Cells)
               /\ l.placed \subseteq Cells /\ l.lost \in 0..MaxLosses
               /\ l.seq <= MaxOps + MaxLosses
    <3>1. /\ l.next \in Nat /\ l.applied \in Nat /\ l.seq \in Nat /\ l.lost \in Nat
          /\ l.placed \subseteq Cells
      BY <2>6 DEF Sane, Ledgers
    <3> QED BY <2>6, <3>1, Constants DEF Sane
  <2>7. dirty \in BOOLEAN /\ call \in Handlers /\ step \in {None} \cup Writes
    BY DEF IInv, Course
  <2>8. TypeOK
    BY <2>1, <2>3, <2>4, <2>5, <2>6, <2>7 DEF TypeOK
  <2> QED BY <2>2, <2>8 DEF LedgerInv
<1> QED BY <1>1, MaterialInductive, PTL

-----------------------------------------------------------------------------
(* What a start would find is a book that agrees with the voxels. *)

LEMMA Adopted ==
  ASSUME IInv
  PROVE  LET l == Reserve(Whole, Saved) IN
         /\ \A part \in {"applied", "next", "placed", "lost"} : l[part] = Whole[part]
         /\ l \in Ledgers /\ (Whole.reserved # None => l = Whole)
         /\ Natural # {} =>
              /\ l.reserved \in Nat
              /\ Whole.reserved = None => l.reserved = Cardinality(Natural)
         /\ Natural = {} =>
              l.reserved \in {None, 1} /\ (Entered = Ore(Saved) => l = Whole)
<1> DEFINE natural == {c \in Cells : Saved[c] = "ore" /\ c \notin Whole.placed}
<1>1. Whole \in Ledgers /\ Cardinality(Natural) \in Nat
  BY Counts, Constants, FS_Subset, FS_CardinalityType DEF IInv
<1>2. Reserve(Whole, Saved) = IF Whole.reserved = None /\ natural # {}
                              THEN [Whole EXCEPT !.reserved = Cardinality(natural)] ELSE Whole
  BY DEF Reserve
<1>3. natural = Ore(Saved) \ Whole.placed
  BY DEF Ore
<1> HIDE DEF natural
<1>4. CASE Whole.reserved # None
  <2>1. Reserve(Whole, Saved) = Whole
    BY <1>2, <1>4
  <2>2. Natural = {} => Whole.reserved \in {None, 1}
    BY <1>4 DEF IInv, Accounts, Balance
  <2> QED BY <1>1, <1>4, <2>1, <2>2 DEF Ledgers
<1>5. CASE Whole.reserved = None /\ Natural # {}
  <2>1. natural = Natural
    BY <1>3, <1>5 DEF IInv, Accounts
  <2>2. Reserve(Whole, Saved) = [Whole EXCEPT !.reserved = Cardinality(Natural)]
    BY <1>2, <1>5, <2>1
  <2> QED BY <1>1, <1>5, <2>2 DEF Ledgers
<1>6. CASE Whole.reserved = None /\ Natural = {}
  <2>1. Entered = Whole.placed
    BY <1>6 DEF IInv, Accounts, Balance
  <2>2. CASE natural = {}
    <3>1. Reserve(Whole, Saved) = Whole
      BY <1>2, <2>2
    <3> QED BY <1>1, <1>6, <3>1
  <2>3. CASE natural # {}
    <3>1. natural = {disk.journal.cell} /\ Entered # Ore(Saved)
      BY <1>3, <2>1, <2>3 DEF Entered
    <3>2. Cardinality(natural) = 1
      BY <3>1, FS_Singleton
    <3>3. Reserve(Whole, Saved) = [Whole EXCEPT !.reserved = 1]
      BY <1>2, <1>6, <2>3, <3>2
    <3> QED BY <1>1, <1>6, <3>1, <3>3 DEF Ledgers
  <2> QED BY <2>2, <2>3
<1> QED BY <1>4, <1>5, <1>6

\* Every block of the voxels is placed, or reserved; in a chunk that had none of the kind
\* every block is placed, and one may be reserved that is not there.
Truthful ==
  /\ Recovered.placed = Accepted /\ Recovered.lost = Whole.lost
  /\ Accepted \subseteq Ore(Saved)
  /\ IF Natural = {} THEN Accepted = Ore(Saved) /\ Count(Recovered) \in {0, 1}
     ELSE Count(Recovered) = Cardinality(Ore(Saved) \ Accepted)
  /\ disk.journal = None => Recovered = Reserve(Whole, Saved)

LEMMA StartIsTruthful ==
  ASSUME IInv
  PROVE  Truthful
<1>1. Replayed(RolledForward(disk)) = Whole
  BY StartReads DEF IInv, FilesOK, Whole
<1> DEFINE l == Reserve(Whole, Saved)
<1>2. /\ \A part \in {"applied", "next", "placed", "lost"} : l[part] = Whole[part]
      /\ l \in Ledgers /\ (Whole.reserved # None => l = Whole)
      /\ Natural # {} =>
           /\ l.reserved \in Nat
           /\ Whole.reserved = None => l.reserved = Cardinality(Natural)
      /\ Natural = {} =>
           l.reserved \in {None, 1} /\ (Entered = Ore(Saved) => l = Whole)
  BY Adopted
<1>3. /\ Recovered = IF disk.journal # None /\ Saved[disk.journal.cell] = disk.journal.after
                     THEN ApplyOperation(l, disk.journal) ELSE l
  BY <1>1 DEF Recovered
<1> HIDE DEF l
<1>4. Whole \in Ledgers /\ Whole.applied < Whole.next
  BY Counts DEF IInv, LedgersOK, Sane
<1>5. CASE Settles
  <2>1. disk.journal # None /\ Saved[disk.journal.cell] = disk.journal.after
        /\ disk.journal.id > Whole.applied /\ Unseen
    BY <1>5 DEF Settles, Unseen
  <2>2. disk.journal \in Ops /\ (Natural # {} => l = Whole)
    BY <1>2, <2>1, Journal
  <2>3. Recovered = Seen(l, disk.journal)
    BY <1>2, <1>3, <2>1, <2>2, Operation
  <2>4. Recovered.placed = Seen(Whole, disk.journal).placed /\ Recovered.lost = Whole.lost
    BY <1>2, <2>3 DEF Seen
  <2>5. /\ Seen(Whole, disk.journal).placed \subseteq Ore(Saved)
        /\ Natural = {} => Seen(Whole, disk.journal).placed = Ore(Saved)
        /\ Natural # {} =>
             /\ Seen(Whole, disk.journal).reserved
                  = Cardinality(Ore(Saved) \ Seen(Whole, disk.journal).placed)
             /\ Seen(Whole, disk.journal).reserved # None
    BY <2>1, Balanced
  <2>6. Accepted = Recovered.placed
    BY <1>5, <2>4 DEF Accepted
  <2>7. CASE Natural # {}
    BY <2>1, <2>2, <2>3, <2>4, <2>5, <2>6, <2>7 DEF Truthful, Count
  <2>8. CASE Natural = {}
    <3>1. disk.journal.kind # "mine"
      BY <2>1, <2>8, Journal DEF IInv, Accounts, Balance, Awaits
    <3>2. Recovered.reserved = l.reserved
      BY <2>3, <3>1 DEF Seen
    <3> QED BY <1>2, <2>1, <2>4, <2>5, <2>6, <2>8, <3>2 DEF Truthful, Count
  <2> QED BY <2>7, <2>8
<1>6. CASE ~Settles
  <2>1. Entered = Ore(Saved)
    <3>1. CASE ~Unseen
      BY <3>1 DEF Entered
    <3>2. CASE Unseen
      BY <1>6, <3>2, EnteredBefore DEF Settles, Unseen
    <3> QED BY <3>1, <3>2
  <2>2. Recovered = l
    <3>1. CASE disk.journal = None
      BY <1>3, <3>1
    <3>2. CASE disk.journal # None /\ Saved[disk.journal.cell] # disk.journal.after
      BY <1>3, <3>2
    <3>3. CASE disk.journal # None /\ Saved[disk.journal.cell] = disk.journal.after
      <4>1. disk.journal \in Ops /\ disk.journal.id \in Nat
        BY <3>3, Journal
      <4>2. disk.journal.id <= Whole.applied
        BY <1>6, <3>3, <4>1, Counts DEF Settles, Unseen, IInv
      <4>3. disk.journal.id <= l.applied /\ l.applied < l.next
        BY <1>2, <1>4, <4>2
      <4> QED BY <1>2, <1>3, <3>3, <4>1, <4>3, Operation
    <3> QED BY <3>1, <3>2, <3>3
  <2>3. Accepted = Whole.placed
    BY <1>6 DEF Accepted
  <2>4. CASE Natural # {}
    <3>1. Whole.placed \subseteq Ore(Saved)
          /\ l.reserved = Cardinality(Ore(Saved) \ Whole.placed)
      <4>1. CASE Whole.reserved = None
        <5>1. Whole.placed = {} /\ Ore(Saved) = Natural
          BY <2>4, <4>1 DEF IInv, Accounts
        <5>2. Ore(Saved) \ Whole.placed = Natural
          BY <5>1
        <5> QED BY <1>2, <2>4, <4>1, <5>1, <5>2
      <4>2. CASE Whole.reserved # None
        BY <1>2, <2>1, <2>4, <4>2 DEF IInv, Accounts, Balance
      <4> QED BY <4>1, <4>2
    <3>2. l.reserved # None
      BY <1>2, <2>4, Constants
    <3> QED BY <1>2, <2>2, <2>3, <2>4, <3>1, <3>2 DEF Truthful, Count, l
  <2>5. CASE Natural = {}
    <3>1. Whole.placed = Ore(Saved)
      BY <2>1, <2>5 DEF IInv, Accounts, Balance
    <3> QED BY <1>2, <2>2, <2>3, <2>5, <3>1 DEF Truthful, Count, l
  <2> QED BY <2>4, <2>5
<1> QED BY <1>5, <1>6

\* Between handlers the ledger in memory is the one a start would find, and the resident
\* chunk holds the finite blocks of the one on disk: nothing acknowledged is lost with the
\* process (commit_delta, complete_material_operation, adopt_chunk).
THEOREM MemoryDurable ==
  ASSUME MayFail \subseteq CleanFailures
  PROVE  Spec => []MemoryIsDurable
<1>1. IInv => MemoryIsDurable
  <2> SUFFICES ASSUME IInv, call = "idle", chunk # None
               PROVE  /\ Reserve(ledger, chunk) = ledger
                      /\ \A part \in {"reserved", "placed", "lost"} :
                           ledger[part] = Recovered[part]
                      /\ \A c \in Cells : (chunk[c] = "ore") <=> (Saved[c] = "ore")
    BY DEF MemoryIsDurable
  <2>1. step = None /\ ~Down /\ disk.journal = None
    BY DEF IInv, Course, Down
  <2>2. /\ Whole = Kept
        /\ \A part \in {"applied", "placed", "lost", "seq"} : ledger[part] = Whole[part]
    BY <2>1, Accounted, Names
  <2>3. /\ Ore(chunk) = Ore(Saved) /\ (Natural = {} => ledger.reserved = Whole.reserved)
        /\ Natural # {} => /\ ledger.reserved # None
                           /\ \/ ledger.reserved = Whole.reserved
                              \/ /\ Whole.reserved = None
                                 /\ ledger.reserved = Cardinality(Natural)
    BY <2>1, <2>2, Names DEF IInv, Memory
  <2>4. Recovered = Reserve(Whole, Saved)
    BY <2>1, StartIsTruthful DEF Truthful
  <2>5. Entered = Ore(Saved)
    BY <2>1, NoJournal
  <2>6. ledger.reserved = Recovered.reserved /\ ledger.placed = Recovered.placed
        /\ ledger.lost = Recovered.lost
    BY <2>2, <2>3, <2>4, <2>5, Adopted
  <2>7. Reserve(ledger, chunk) = ledger
    <3>1. CASE Natural # {}
      BY <2>3, <3>1 DEF Reserve
    <3>2. CASE Natural = {}
      <4>1. ledger.placed = Ore(chunk)
        BY <2>2, <2>3, <2>5, <3>2 DEF IInv, Accounts, Balance
      <4>2. {c \in Cells : chunk[c] = "ore" /\ c \notin ledger.placed} = {}
        BY <4>1 DEF Ore
      <4> QED BY <4>2 DEF Reserve
    <3> QED BY <3>1, <3>2
  <2> QED BY <2>3, <2>6, <2>7 DEF Ore
<1> QED BY <1>1, MaterialInductive, PTL

-----------------------------------------------------------------------------
(* The refinement. *)

LEMMA BookStep ==
  ASSUME IInv, [Next]_vars, MayFail \subseteq CleanFailures
  PROVE  Steady \/ Wasted \/ Edited
<1>1. CASE UNCHANGED vars
  <2>1. disk' = disk
    BY <1>1 DEF vars
  <2> QED BY <2>1, SteadySame
<1>2. ASSUME NEW c \in Cells, BeginBreak(c) \/ BeginPlace(c) \/ PlainEdit(c)
      PROVE  Steady
  <2>1. disk' = disk
    BY <1>2 DEF BeginBreak, BeginPlace, PlainEdit
  <2> QED BY <2>1, SteadySame
<1>3. CASE RecordLoss \/ LinkLoss \/ SaveWorld \/ Adopt \/ ReplayJournal \/ Validate
  <2>1. disk' = disk
    BY <1>3 DEF RecordLoss, LinkLoss, SaveWorld, Adopt, ReplayJournal, Validate
  <2> QED BY <2>1, SteadySame
<1>4. CASE WriteJournal \/ SetVoxel \/ SaveChunk \/ WritePending
  BY <1>4, DoWriteJournal, DoSetVoxel, DoSaveChunk, DoWritePending
<1>5. CASE AppendFrame \/ DropPending \/ Finish \/ WriteLedger \/ ClearLog \/ Tidy
  BY <1>5, DoAppendFrame, DoDropPending, DoFinish, DoWriteLedger, DoClearLog, DoTidy
<1>6. CASE Stage \/ Linked \/ Evict \/ SaveChunks
  BY <1>6, DoStage, DoLinked, DoWrite
<1>7. CASE Crash \/ Load \/ ReadLedger
  BY <1>7, DoCrash, DoLoad, DoReadLedger
<1> QED BY <1>1, <1>2, <1>3, <1>4, <1>5, <1>6, <1>7 DEF Next

\* A voxel that was written, and the accounts that its journal entails.
LEMMA EditIsBooked ==
  ASSUME Edited, Truthful, Truthful'
  PROVE  \E c \in Cells : Book!Mine(c) \/ Book!Break(c) \/ Book!Place(c)
<1> DEFINE o == disk.journal
           s == Seen(Whole, o)
<1>1. /\ o \in Ops /\ o.cell \in Cells /\ o.kind \in {"mine", "break", "place"}
      /\ Sides(o) /\ Awaits(Whole, Ore(Saved), o)
  BY OpFields DEF Edited
<1>2. Accepted = Whole.placed /\ Accepted' = s.placed
  <2>1. Seen(Whole, disk.journal).placed' = s.placed
    BY DEF Edited, Seen
  <2> QED BY <2>1 DEF Edited, Accepted
<1>3. s.placed = IF o.kind = "break" THEN Whole.placed \ {o.cell}
                 ELSE IF o.kind = "place" THEN Whole.placed \cup {o.cell} ELSE Whole.placed
  BY DEF Seen
<1> HIDE DEF s
<1>4. Ore(Saved)' = IF o.after = "ore" THEN Ore(Saved) \cup {o.cell} ELSE Ore(Saved) \ {o.cell}
  BY DEF Edited
<1>5. /\ Recovered.placed = Accepted /\ Accepted \subseteq Ore(Saved)
      /\ Recovered.placed' = Accepted' /\ Accepted' \subseteq Ore(Saved)'
      /\ IF Natural = {} THEN Accepted = Ore(Saved) /\ Count(Recovered)' \in {0, 1}
         ELSE /\ Count(Recovered) = Cardinality(Ore(Saved) \ Accepted)
              /\ Count(Recovered)' = Cardinality(Ore(Saved)' \ Accepted')
      /\ Recovered.lost' = Recovered.lost
  <2>1. Whole'.lost = Whole.lost
    BY DEF Edited
  <2> QED BY <2>1 DEF Truthful
<1>6. Ore(Saved) = {c \in Cells : Saved[c] = "ore"}
      /\ Ore(Saved)' = {c \in Cells : Saved[c] = "ore"}'
  BY DEF Ore
<1>7. IsFiniteSet(Ore(Saved) \ Accepted)
  <2>1. Ore(Saved) \subseteq Cells
    BY <1>6
  <2> QED BY <2>1, Constants, FS_Subset
<1> HIDE DEF o
<1>8. CASE o.kind = "mine"
  <2>1. o.after = "air" /\ o.cell \in Ore(Saved) \ Accepted /\ Natural # {}
    BY <1>1, <1>2, <1>5, <1>8 DEF Sides, Awaits
  <2>2. Accepted' = Accepted /\ Ore(Saved)' = Ore(Saved) \ {o.cell}
    BY <1>2, <1>3, <1>4, <1>8, <2>1
  <2>3. Ore(Saved)' \ Accepted' = (Ore(Saved) \ Accepted) \ {o.cell}
    BY <2>2
  <2>4. Count(Recovered)' = Count(Recovered) - 1
    <3>1. Cardinality((Ore(Saved) \ Accepted) \ {o.cell}) = Cardinality(Ore(Saved) \ Accepted) - 1
      BY <1>7, <2>1, FS_RemoveElement
    <3> QED BY <1>5, <2>1, <2>3, <3>1
  <2>5. \E c \in Cells : Book!Mine(c)
    BY <1>1, <1>5, <1>6, <2>1, <2>2, <2>4 DEF Book!Mine
  <2> QED BY <2>5
<1>9. CASE o.kind = "break"
  <2>1. o.after = "air" /\ o.cell \in Accepted
    BY <1>1, <1>2, <1>9 DEF Sides, Awaits
  <2>2. Accepted' = Accepted \ {o.cell} /\ Ore(Saved)' = Ore(Saved) \ {o.cell}
    BY <1>2, <1>3, <1>4, <1>9, <2>1
  <2>3. Ore(Saved)' \ Accepted' = Ore(Saved) \ Accepted
    BY <2>1, <2>2
  <2>4. IF Natural = {} THEN Count(Recovered)' \in {0, 1}
        ELSE Count(Recovered)' = Count(Recovered)
    BY <1>5, <2>3
  <2>5. \E c \in Cells : Book!Break(c)
    BY <1>1, <1>5, <1>6, <2>1, <2>2, <2>4 DEF Book!Break, Book!Unmined
  <2> QED BY <2>5
<1>10. CASE o.kind = "place"
  <2>1. o.after = "ore" /\ o.cell \notin Ore(Saved)
    BY <1>1, <1>10 DEF Sides, Awaits
  <2>2. Accepted' = Accepted \cup {o.cell} /\ Ore(Saved)' = Ore(Saved) \cup {o.cell}
    BY <1>2, <1>3, <1>4, <1>10, <2>1
  <2>3. Ore(Saved)' \ Accepted' = Ore(Saved) \ Accepted
    BY <1>5, <2>1, <2>2
  <2>4. IF Natural = {} THEN Count(Recovered)' \in {0, 1}
        ELSE Count(Recovered)' = Count(Recovered)
    BY <1>5, <2>3
  <2>5. \E c \in Cells : Book!Place(c)
    BY <1>1, <1>5, <1>6, <2>1, <2>2, <2>4 DEF Book!Place, Book!Unmined
  <2> QED BY <2>5
<1> QED BY <1>1, <1>8, <1>9, <1>10

\* The chunk and the ledger, read as a start would read them, are one book: a block and its
\* account change at once, exactly once, in no step but the one that writes the chunk, and a
\* loss is written down once ("crash-safe and idempotent relative to block edits",
\* src/docs/finite-materials-plan.md).  In a chunk that had none of the kind no block is ever
\* taken for a natural one, but the reserved count may be one where it should be none
\* (MaterialBook's Unmined).
THEOREM FilesAreOneBook ==
  ASSUME MayFail \subseteq CleanFailures
  PROVE  Spec => ImplementsBook
<1>1. IInv => Truthful
  BY StartIsTruthful
<1>2. Init => Book!Init
  <2> SUFFICES ASSUME Init PROVE Book!Init
    OBVIOUS
  <2>1. IInv
    BY Begun
  <2>2. Truthful
    BY <1>1, <2>1
  <2>3. disk.chunk = None /\ disk.journal = None /\ disk.ledger = Fresh /\ disk.log = <<>>
        /\ disk.pending = None /\ disk.coordinator = None
    BY DEF Init
  <2>4. Saved = Generated
    BY <2>3 DEF Saved
  <2>5. Ore(Saved) = Natural /\ {c \in Cells : Saved[c] = "ore"} = Natural
    BY <2>4, Constants DEF Ore, Generated
  <2>6. Whole = Fresh
    <3>1. Base(disk) = Fresh
      BY <2>3, OrderlyEmpty DEF Base
    <3> QED BY <2>3, <3>1 DEF Whole, Forecast, Ahead
  <2>7. Accepted = {} /\ Whole.lost = 0
    BY <2>3, <2>6 DEF Accepted, Settles, Unseen, Fresh
  <2>8. Recovered.placed = {} /\ Recovered.lost = 0
    BY <2>2, <2>7 DEF Truthful
  <2>9. Count(Recovered) = Cardinality(Natural)
    <3>1. CASE Natural # {}
      <4>1. Ore(Saved) \ Accepted = Natural
        BY <2>5, <2>7
      <4> QED BY <2>2, <3>1, <4>1 DEF Truthful
    <3>2. CASE Natural = {}
      <4>1. Entered = Ore(Saved)
        BY <2>3, NoJournal
      <4>2. Recovered = Whole
        BY <2>1, <2>2, <2>3, <3>2, <4>1, Adopted DEF Truthful
      <4>3. Count(Recovered) = 0 /\ Cardinality(Natural) = 0
        BY <2>6, <3>2, <4>2, FS_EmptySet DEF Count, Fresh
      <4> QED BY <4>3
    <3> QED BY <3>1, <3>2
  <2>10. Book!Cardinality(Natural) = Cardinality(Natural)
    BY DEF Book!Cardinality, Cardinality
  <2> QED BY <2>5, <2>8, <2>9, <2>10 DEF Book!Init
<1>3. IInv /\ Truthful /\ Truthful' /\ [Next]_vars => [Book!Next]_(Book!book)
  <2> SUFFICES ASSUME IInv, Truthful, Truthful', [Next]_vars
               PROVE  [Book!Next]_(Book!book)
    OBVIOUS
  <2>1. Steady \/ Wasted \/ Edited
    BY BookStep
  <2>2. CASE Edited
    <3>1. \E c \in Cells : Book!Mine(c) \/ Book!Break(c) \/ Book!Place(c)
      BY <2>2, EditIsBooked
    <3> QED BY <3>1 DEF Book!Next
  <2>3. CASE Steady \/ Wasted
    <3>1. Ore(Saved)' = Ore(Saved) /\ Accepted' = Accepted
      BY <2>3 DEF Steady, Wasted
    <3>2. {c \in Cells : Saved[c] = "ore"}' = {c \in Cells : Saved[c] = "ore"}
      BY <3>1 DEF Ore
    <3>3. /\ Recovered.placed' = Recovered.placed
          /\ Recovered.lost = Whole.lost /\ Recovered.lost' = Whole'.lost
          /\ IF Natural = {} THEN Count(Recovered)' \in {0, 1}
             ELSE Count(Recovered)' = Count(Recovered)
      BY <3>1 DEF Truthful
    <3>4. CASE Steady
      <4>1. Recovered.lost' = Recovered.lost
        BY <3>3, <3>4 DEF Steady
      <4>2. Book!Recount
        BY <3>2, <3>3, <4>1 DEF Book!Recount, Book!Unmined
      <4> QED BY <4>2 DEF Book!Next
    <3>5. CASE Wasted
      <4>1. Recovered.lost' = Recovered.lost + 1
        BY <3>3, <3>5 DEF Wasted
      <4>2. Book!Lose
        BY <3>2, <3>3, <4>1 DEF Book!Lose, Book!Unmined
      <4> QED BY <4>2 DEF Book!Next
    <3> QED BY <2>3, <3>4, <3>5
  <2> QED BY <2>1, <2>2, <2>3
<1> QED BY <1>1, <1>2, <1>3, MaterialInductive, PTL DEF Spec, ImplementsBook, Book!Spec
=================================================================================
