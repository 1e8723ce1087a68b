---------------------------- MODULE RegionFileProofs ----------------------------
(***************************************************************************)
(* Proofs about RegionFile: a region file is a slot store, for any slots,  *)
(* any versions and sizes of payload, and whatever writes are interrupted. *)
(***************************************************************************)
EXTENDS RegionFile, WellFoundedInduction, TLAPS

\* A slot that holds something begins at the first cell of a payload of its chunk; if its
\* length is that payload's, it is all there.
Fits(s, c, cells) ==
  s.len > 0 =>
    /\ s.at < Len(cells)
    /\ \E v \in Versions :
         /\ cells[s.at + 1] = <<c, v, 1>>
         /\ s.len = Size[v] => InBounds(s, cells) /\ Slice(s, cells) = Payload(c, v)
SlotsInv == \A c \in Chunks : Fits(index[c], c, body)

\* The write under way has its payload at the end of the file until the slot names it.
WriteInv ==
  /\ step # "idle" => outcome = "none"
  /\ step = "header" => header = "empty"
  /\ step \in {"append", "offset", "length", "check", "compact"} => header = "whole"
  /\ step \in {"offset", "length"} =>
       /\ Len(Target) <= Len(body)
       /\ SubSeq(body, Len(body) - Len(Target) + 1, Len(body)) = Target
  /\ step = "length" => index[writing[1]].at = Len(body) - Len(Target)
  /\ step \in {"check", "compact"} => Read(writing[1]) = writing

\* A slot that was copied yields the same cells from the copy.
CopyFits(c) ==
  index[c].len > 0 =>
    /\ InBounds(index[c], body) /\ copy.index[c].len = index[c].len
    /\ InBounds(copy.index[c], copy.body)
    /\ Slice(copy.index[c], copy.body) = Slice(index[c], body)
CopyInv ==
  /\ step # "compact" => copy = NoCopy
  /\ step = "compact" =>
       /\ \A c \in Chunks : index[c].len = 0 => copy.index[c].len = 0
       /\ \A i \in 1..copy.slots : CopyFits(Slots[i])
       /\ Len(copy.body) = Lengths(index)[copy.slots]

IInv == TypeOK /\ SlotsInv /\ WriteInv /\ CopyInv

-----------------------------------------------------------------------------
(* Payloads and slices. *)

LEMMA Sizes ==
  /\ \A v \in Versions : Size[v] \in Nat /\ Size[v] > 0
  /\ Slots \in Seq(Nat) /\ Len(Slots) \in Nat /\ Chunks = {Slots[i] : i \in 1..Len(Slots)}
  /\ \A i \in 1..Len(Slots) : Slots[i] \in Chunks
  /\ MaxCells \in Nat
BY RegionAssumption DEF Chunks, ToSet

LEMMA Payloads ==
  ASSUME NEW c \in Chunks, NEW v \in Versions
  PROVE  /\ Payload(c, v) \in Seq(Cell) /\ Len(Payload(c, v)) = Size[v]
         /\ Payload(c, v)[1] = <<c, v, 1>>
<1>1. Size[v] \in Nat /\ Size[v] > 0
  BY Sizes
<1>2. \A i \in 1..Size[v] : <<c, v, i>> \in Cell
  BY <1>1 DEF Cell
<1> QED BY <1>1, <1>2 DEF Payload

\* A decoder accepts a payload, and nothing that begins like it and has another length.
LEMMA DecodesWhole ==
  ASSUME NEW c \in Chunks, NEW v \in Versions
  PROVE  Decode(Payload(c, v)) = <<c, v>>
<1> DEFINE whole == {cv \in Chunks \X Versions : Payload(c, v) = Payload(cv[1], cv[2])}
<1>1. <<c, v>> \in whole
  OBVIOUS
<1>2. \A cv \in whole : cv = <<c, v>>
  <2> SUFFICES ASSUME NEW cv \in whole PROVE cv = <<c, v>>
    OBVIOUS
  <2>1. PICK d \in Chunks, w \in Versions : cv = <<d, w>>
    OBVIOUS
  <2>2. Payload(c, v) = Payload(d, w)
    BY <2>1
  <2>3. <<c, v, 1>> = <<d, w, 1>>
    BY <2>2, Payloads
  <2> QED BY <2>1, <2>3
<1> HIDE DEF whole
<1>3. (CHOOSE cv \in whole : TRUE) = <<c, v>>
  BY <1>1, <1>2
<1>4. Decode(Payload(c, v)) = IF whole = {} THEN Unreadable ELSE CHOOSE cv \in whole : TRUE
  BY DEF Decode, whole
<1> QED BY <1>1, <1>3, <1>4

LEMMA DecodesNothing ==
  ASSUME NEW c \in Chunks, NEW v \in Versions, NEW cells \in Seq(Cell),
         Len(cells) > 0, cells[1] = <<c, v, 1>>, Len(cells) # Size[v]
  PROVE  Decode(cells) = Unreadable
<1>1. ASSUME NEW d \in Chunks, NEW w \in Versions, cells = Payload(d, w) PROVE FALSE
  <2>1. Len(cells) = Size[w] /\ cells[1] = <<d, w, 1>>
    BY <1>1, Payloads
  <2>2. w = v
    BY <2>1
  <2> QED BY <2>1, <2>2
<1>2. {cv \in Chunks \X Versions : cells = Payload(cv[1], cv[2])} = {}
  BY <1>1
<1> QED BY <1>2 DEF Decode

\* What is appended changes no slice that was there, and is itself the last slice.
LEMMA SliceKept ==
  ASSUME NEW s \in Seq(Cell), NEW t \in Seq(Cell), NEW i \in Nat \ {0}, NEW k \in Nat,
         k <= Len(s)
  PROVE  SubSeq(s \o t, i, k) = SubSeq(s, i, k)
OBVIOUS

LEMMA CellKept ==
  ASSUME NEW s \in Seq(Cell), NEW t \in Seq(Cell)
  PROVE  /\ s \o t \in Seq(Cell) /\ Len(s \o t) \in Nat /\ Len(s) \in Nat
         /\ Len(s \o t) = Len(s) + Len(t) /\ Len(t) \in Nat
         /\ \A i \in 1..Len(s) : (s \o t)[i] = s[i]
OBVIOUS

LEMMA SliceAdded ==
  ASSUME NEW s \in Seq(Cell), NEW t \in Seq(Cell), NEW i, NEW k,
         i = Len(s) + 1, k = Len(s) + Len(t)
  PROVE  SubSeq(s \o t, i, k) = t
OBVIOUS

LEMMA SliceShape ==
  ASSUME NEW s \in Seq(Cell), NEW at \in Nat, NEW len \in Nat, len > 0, at + len <= Len(s)
  PROVE  /\ SubSeq(s, at + 1, at + len) \in Seq(Cell)
         /\ Len(SubSeq(s, at + 1, at + len)) = len
         /\ SubSeq(s, at + 1, at + len)[1] = s[at + 1]
OBVIOUS

-----------------------------------------------------------------------------
(* Sums of lengths.  The naturals are well ordered, so that a claim about   *)
(* every natural number that is false has a least counterexample.          *)

Slot == [at : Nat, len : Nat]

LEMMA Least ==
  ASSUME NEW S \in SUBSET Nat, S # {}
  PROVE  \E n \in S : \A m \in S : n <= m
<1>1. PICK n \in S : \A m \in S : <<m, n>> \notin OpToRel(<, Nat)
  BY NatLessThanWellFounded, WFMin
<1>2. \A m \in S : ~(m < n)
  BY <1>1 DEF OpToRel
<1> QED BY <1>2

\* A sequence of numbers has its partial sums.
LEMMA PartialSums ==
  ASSUME NEW n \in Nat, NEW d \in [1..n -> Nat]
  PROVE  \E f \in [0..n -> Nat] : f[0] = 0 /\ \A i \in 1..n : f[i] = f[i - 1] + d[i]
<1> DEFINE Sums(m, f) == f \in [0..m -> Nat] /\ f[0] = 0 /\ \A i \in 1..m : f[i] = f[i - 1] + d[i]
           bad == {m \in 0..n : \A f : ~Sums(m, f)}
<1>1. 0 \notin bad
  <2>1. Sums(0, [i \in 0..0 |-> 0])
    OBVIOUS
  <2> QED BY <2>1
<1>2. ASSUME NEW m \in 1..n, NEW f, Sums(m - 1, f) PROVE \E g : Sums(m, g)
  <2> DEFINE g == [i \in 0..m |-> IF i = m THEN f[m - 1] + d[m] ELSE f[i]]
  <2>1. g \in [0..m -> Nat]
    BY <1>2
  <2>2. g[0] = 0 /\ \A i \in 1..m : g[i] = g[i - 1] + d[i]
    BY <1>2
  <2> QED BY <2>1, <2>2
<1>3. bad = {}
  <2> SUFFICES ASSUME bad # {} PROVE FALSE
    OBVIOUS
  <2>1. bad \in SUBSET Nat
    OBVIOUS
  <2>2. PICK m \in bad : \A k \in bad : m <= k
    <3> HIDE DEF bad
    <3> QED BY <2>1, Least
  <2>3. m \in 1..n /\ m - 1 \in 0..n /\ m - 1 \notin bad
    <3>1. bad \subseteq 0..n
      OBVIOUS
    <3> HIDE DEF bad
    <3> QED BY <1>1, <2>2, <3>1
  <2>4. PICK f : Sums(m - 1, f)
    BY <2>3
  <2> HIDE DEF Sums
  <2>5. \E g : Sums(m, g)
    BY <1>2, <2>3, <2>4
  <2> QED BY <2>5
<1>4. \E f : Sums(n, f)
  <2>1. n \in 0..n /\ n \notin bad
    <3> HIDE DEF bad
    <3> QED BY <1>3
  <2> HIDE DEF Sums
  <2> QED BY <2>1
<1> QED BY <1>4

LEMMA Lengthening ==
  ASSUME NEW slots \in [Chunks -> Slot]
  PROVE  /\ Lengths(slots) \in [0..Len(Slots) -> Nat] /\ Lengths(slots)[0] = 0
         /\ \A n \in 1..Len(Slots) :
              Lengths(slots)[n] = Lengths(slots)[n - 1] + slots[Slots[n]].len
<1> DEFINE N == Len(Slots)
           Sum(f) == [n \in 0..N |-> IF n = 0 THEN 0 ELSE f[n - 1] + slots[Slots[n]].len]
           upTo == CHOOSE f : f = Sum(f)
<1>1. N \in Nat /\ \A n \in 1..N : Slots[n] \in Chunks /\ slots[Slots[n]].len \in Nat
  BY Sizes DEF Slot
<1>2. PICK f \in [0..N -> Nat] : f[0] = 0 /\ \A n \in 1..N : f[n] = f[n - 1] + slots[Slots[n]].len
  <2> DEFINE d == [n \in 1..N |-> slots[Slots[n]].len]
  <2>1. d \in [1..N -> Nat]
    BY <1>1
  <2>2. \A n \in 1..N : d[n] = slots[Slots[n]].len
    OBVIOUS
  <2> HIDE DEF d, N
  <2> QED BY <1>1, <2>1, <2>2, PartialSums
<1>3. f = Sum(f)
  <2> HIDE DEF N
  <2>1. \A n \in 0..N : f[n] = IF n = 0 THEN 0 ELSE f[n - 1] + slots[Slots[n]].len
    BY <1>1, <1>2
  <2> QED BY <1>2, <2>1
<1>4. upTo = Sum(upTo)
  <2> HIDE DEF Sum
  <2> QED BY <1>3
<1>5. Lengths(slots) = upTo
  BY DEF Lengths
<1> HIDE DEF upTo, N
<1>6. /\ upTo[0] = 0
      /\ \A n \in 1..N : upTo[n] = upTo[n - 1] + slots[Slots[n]].len
  <2>1. \A n \in 0..N : upTo[n] = IF n = 0 THEN 0 ELSE upTo[n - 1] + slots[Slots[n]].len
    BY <1>4
  <2> QED BY <1>1, <2>1
<1>7. \A n \in 0..N : upTo[n] = f[n]
  <2> DEFINE bad == {n \in 0..N : upTo[n] # f[n]}
  <2>1. SUFFICES ASSUME bad # {} PROVE FALSE
    OBVIOUS
  <2>2. bad \in SUBSET Nat
    BY <1>1
  <2>3. PICK n \in bad : \A k \in bad : n <= k
    <3> HIDE DEF bad
    <3> QED BY <2>1, <2>2, Least
  <2>4. n \in 1..N /\ n - 1 \in 0..N /\ n - 1 \notin bad
    BY <1>1, <1>2, <1>6, <2>3
  <2> QED BY <1>2, <1>6, <2>3, <2>4
<1>8. upTo \in [0..N -> Nat]
  <2>1. upTo = [n \in 0..N |-> upTo[n]]
    BY <1>4
  <2> QED BY <1>7, <2>1
<1> QED BY <1>5, <1>6, <1>8 DEF N

LEMMA SameLengths ==
  ASSUME NEW slots \in [Chunks -> Slot], NEW other \in [Chunks -> Slot],
         \A c \in Chunks : slots[c].len = other[c].len
  PROVE  Lengths(slots) = Lengths(other)
<1> DEFINE N == Len(Slots)
           f == Lengths(slots)
           g == Lengths(other)
           bad == {n \in 0..N : f[n] # g[n]}
<1>1. N \in Nat /\ \A n \in 1..N : Slots[n] \in Chunks
  BY Sizes
<1>2. /\ f \in [0..N -> Nat] /\ f[0] = 0
      /\ \A n \in 1..N : f[n] = f[n - 1] + slots[Slots[n]].len
  BY Lengthening
<1>3. /\ g \in [0..N -> Nat] /\ g[0] = 0
      /\ \A n \in 1..N : g[n] = g[n - 1] + other[Slots[n]].len
  BY Lengthening
<1> HIDE DEF f, g, N
<1>4. ASSUME bad # {} PROVE FALSE
  <2>1. bad \in SUBSET Nat
    BY <1>1
  <2>2. PICK n \in bad : \A k \in bad : n <= k
    <3> HIDE DEF bad
    <3> QED BY <1>4, <2>1, Least
  <2>3. n \in 0..N /\ f[n] # g[n] /\ (n # 0 => n - 1 \in 0..N /\ n - 1 \notin bad)
    <3>1. bad \subseteq 0..N /\ f[n] # g[n]
      BY <2>2
    <3> HIDE DEF bad
    <3> QED BY <1>1, <2>2, <3>1
  <2>4. n # 0
    BY <1>2, <1>3, <2>3
  <2>5. n \in 1..N /\ f[n - 1] = g[n - 1]
    BY <1>1, <2>3, <2>4
  <2>6. Slots[n] \in Chunks /\ slots[Slots[n]].len = other[Slots[n]].len
    BY <1>1, <2>5
  <2>7. f[n] = g[n]
    <3>1. /\ f[n] = f[n - 1] + slots[Slots[n]].len
          /\ g[n] = g[n - 1] + other[Slots[n]].len
      BY <1>2, <1>3, <2>5
    <3> QED BY <2>5, <2>6, <3>1
  <2> QED BY <2>3, <2>7
<1>5. \A n \in 0..N : f[n] = g[n]
  BY <1>4
<1>6. f = [n \in 0..N |-> f[n]] /\ g = [n \in 0..N |-> g[n]]
  BY <1>2, <1>3
<1>7. [n \in 0..N |-> f[n]] = [n \in 0..N |-> g[n]]
  BY <1>5
<1> QED BY <1>6, <1>7 DEF f, g

-----------------------------------------------------------------------------
(* What is read. *)

Found(s, cells) == IF InBounds(s, cells) THEN Decode(Slice(s, cells)) ELSE Unreadable

\* What a slot that fits yields.
LEMMA FittingSlot ==
  ASSUME NEW cells \in Seq(Cell), NEW c \in Chunks, NEW s \in Slot, s.len > 0, NEW v \in Versions,
         s.at < Len(cells), cells[s.at + 1] = <<c, v, 1>>,
         s.len = Size[v] => InBounds(s, cells) /\ Slice(s, cells) = Payload(c, v)
  PROVE  /\ s.len = Size[v] => Decode(Slice(s, cells)) = <<c, v>>
         /\ s.len # Size[v] /\ InBounds(s, cells) => Decode(Slice(s, cells)) = Unreadable
<1>1. s.len = Size[v] => Decode(Slice(s, cells)) = <<c, v>>
  BY DecodesWhole
<1>2. ASSUME s.len # Size[v], InBounds(s, cells) PROVE Decode(Slice(s, cells)) = Unreadable
  <2>1. s.at \in Nat /\ s.len \in Nat /\ s.at + s.len <= Len(cells)
    BY <1>2 DEF Slot, InBounds
  <2>2. /\ Slice(s, cells) \in Seq(Cell) /\ Len(Slice(s, cells)) = s.len
        /\ Slice(s, cells)[1] = <<c, v, 1>>
    BY <2>1, SliceShape DEF Slice
  <2> QED BY <1>2, <2>2, DecodesNothing
<1> QED BY <1>1, <1>2

\* A slot fits, and yields the same, when the file only grew.
LEMMA GrownFile ==
  ASSUME NEW cells \in Seq(Cell), NEW more \in Seq(Cell), NEW c \in Chunks, NEW s \in Slot,
         Fits(s, c, cells)
  PROVE  /\ Fits(s, c, cells \o more)
         /\ s.len > 0 => Found(s, cells \o more) = Found(s, cells)
<1> SUFFICES ASSUME s.len > 0
             PROVE  Fits(s, c, cells \o more) /\ Found(s, cells \o more) = Found(s, cells)
  BY DEF Fits
<1> DEFINE grown == cells \o more
<1>1. PICK v \in Versions :
        /\ s.at < Len(cells) /\ cells[s.at + 1] = <<c, v, 1>>
        /\ s.len = Size[v] => InBounds(s, cells) /\ Slice(s, cells) = Payload(c, v)
  BY DEF Fits
<1>2. s.at \in Nat /\ s.len \in Nat
  BY DEF Slot
<1>3. /\ grown \in Seq(Cell) /\ Len(grown) >= Len(cells)
      /\ Len(cells) \in Nat /\ Len(grown) \in Nat
      /\ grown[s.at + 1] = cells[s.at + 1]
  <2>1. /\ grown \in Seq(Cell) /\ Len(grown) \in Nat /\ Len(cells) \in Nat
        /\ Len(grown) = Len(cells) + Len(more) /\ Len(more) \in Nat
        /\ \A i \in 1..Len(cells) : grown[i] = cells[i]
    BY CellKept
  <2>2. s.at + 1 \in 1..Len(cells)
    BY <1>1, <1>2, <2>1
  <2> HIDE DEF grown
  <2> QED BY <2>1, <2>2
<1>4. InBounds(s, cells) => InBounds(s, grown) /\ Slice(s, grown) = Slice(s, cells)
  <2>1. ASSUME InBounds(s, cells) PROVE Slice(s, grown) = Slice(s, cells)
    <3> DEFINE i == s.at + 1
               k == s.at + s.len
    <3>1. i \in Nat \ {0} /\ k \in Nat /\ k <= Len(cells)
      BY <1>2, <2>1 DEF InBounds
    <3> HIDE DEF i, k
    <3>2. SubSeq(grown, i, k) = SubSeq(cells, i, k)
      BY <3>1, SliceKept
    <3> QED BY <3>2 DEF Slice, i, k
  <2> QED BY <1>2, <1>3, <2>1 DEF InBounds
<1> HIDE DEF grown
<1>5. Fits(s, c, grown)
  BY <1>1, <1>2, <1>3, <1>4 DEF Fits
<1>6. ASSUME s.len = Size[v] PROVE Found(s, grown) = Found(s, cells)
  BY <1>1, <1>4, <1>6 DEF Found
<1>7. ASSUME s.len # Size[v] PROVE Found(s, grown) = Found(s, cells)
  <2>1. InBounds(s, grown) => Decode(Slice(s, grown)) = Unreadable
    BY <1>1, <1>2, <1>3, <1>7, FittingSlot
  <2>2. InBounds(s, cells) => Decode(Slice(s, cells)) = Unreadable
    BY <1>1, <1>2, <1>7, FittingSlot
  <2> QED BY <2>1, <2>2 DEF Found
<1> QED BY <1>5, <1>6, <1>7 DEF grown

-----------------------------------------------------------------------------
(* The steps of a write.  Each keeps the invariant and is a step of the    *)
(* slot store, or none.                                                    *)

LEMMA Shapes ==
  ASSUME TypeOK
  PROVE  /\ \A c \in Chunks : index[c] \in Slot /\ index[c].at \in Nat /\ index[c].len \in Nat
         /\ \A c \in Chunks : copy.index[c] \in Slot /\ copy.index[c].at \in Nat
                              /\ copy.index[c].len \in Nat
         /\ body \in Seq(Cell) /\ Len(body) \in Nat
         /\ copy.body \in Seq(Cell) /\ Len(copy.body) \in Nat
         /\ copy.slots \in Nat /\ copy.slots <= Len(Slots)
BY Sizes DEF TypeOK, Slot

LEMMA Writing ==
  ASSUME TypeOK, step # "idle"
  PROVE  /\ writing # Idle /\ writing \in Chunks \X Versions
         /\ writing[1] \in Chunks /\ writing[2] \in Versions
         /\ writing = <<writing[1], writing[2]>>
         /\ Target \in Seq(Cell) /\ Len(Target) = Size[writing[2]] /\ Len(Target) \in Nat
         /\ Len(Target) > 0 /\ Target[1] = <<writing[1], writing[2], 1>>
         /\ Decode(Target) = writing
<1>1. /\ writing # Idle /\ writing \in Chunks \X Versions
      /\ writing[1] \in Chunks /\ writing[2] \in Versions
      /\ writing = <<writing[1], writing[2]>>
  BY DEF TypeOK
<1>2. Size[writing[2]] \in Nat /\ Size[writing[2]] > 0
  BY <1>1, Sizes
<1>3. /\ Target \in Seq(Cell) /\ Len(Target) = Size[writing[2]]
      /\ Target[1] = <<writing[1], writing[2], 1>> /\ Decode(Target) = writing
  BY <1>1, Payloads, DecodesWhole DEF Target
<1> QED BY <1>1, <1>2, <1>3

LEMMA ReadsFound ==
  ASSUME header = "whole", NEW c \in Chunks
  PROVE  Read(c) = IF index[c].len = 0 THEN Missing ELSE Found(index[c], body)
BY DEF Read, Found

LEMMA NoCopyShape ==
  NoCopy \in [slots : 0..Len(Slots), index : [Chunks -> [at : Nat, len : Nat]], body : Seq(Cell)]
BY Sizes DEF NoCopy, Blank, NoSlot

\* A write that ends leaves what the file holds.
LEMMA DoneSound ==
  ASSUME TypeOK, NEW result \in {"ok", "failed"}, Done(result), SlotsInv',
         header' \in {"empty", "short", "whole"},
         index' \in [Chunks -> [at : Nat, len : Nat]], body' \in Seq(Cell),
         header' # "whole" => index' = Blank /\ body' = <<>>
  PROVE  IInv'
<1>1. step' = "idle" /\ writing' = Idle /\ outcome' = result /\ copy' = NoCopy
  BY DEF Done
<1>2. TypeOK'
  BY <1>1, NoCopyShape DEF TypeOK
<1> QED BY <1>1, <1>2 DEF IInv, WriteInv, CopyInv

\* The abstract step, given what becomes of every slot.
Stays == \A c \in Chunks : Read(c)' = Read(c)

LEMMA StepShown ==
  ASSUME Stays \/ header # "whole"
  PROVE  /\ Stays /\ (header' = "whole") = (header = "whole") /\ UNCHANGED <<writing, outcome>>
              => UNCHANGED Store!storeVars
         /\ Stays /\ (header' = "whole") = (header = "whole") /\ writing # Idle
            /\ writing' = Idle /\ outcome' = "failed" => Store!Fail
         /\ Stays /\ (header' = "whole") = (header = "whole") /\ writing # Idle
            /\ Read(writing[1]) = writing /\ writing[1] \in Chunks
            /\ writing' = Idle /\ outcome' = "ok" => Store!Acknowledge
BY DEF Stays, Store!storeVars, Store!Fail, Store!Acknowledge

LEMMA ChangeShown ==
  ASSUME header = "whole", header' = "whole", writing # Idle, writing[1] \in Chunks,
         UNCHANGED <<writing, outcome>>, NEW x, Read(writing[1])' = x,
         \A c \in Chunks \ {writing[1]} : Read(c)' = Read(c)
  PROVE  Store!Change(x)
BY DEF Store!Change

LEMMA GrowsSound ==
  ASSUME IInv, header = "whole", UNCHANGED <<header, index>>,
         NEW more \in Seq(Cell), body' = body \o more
  PROVE  SlotsInv' /\ Stays /\ body' \in Seq(Cell)
<1>1. body' \in Seq(Cell)
  BY Shapes, CellKept DEF IInv
<1>2. ASSUME NEW c \in Chunks PROVE Fits(index[c], c, body') /\ Read(c)' = Read(c)
  <2>1. Fits(index[c], c, body) /\ index[c] \in Slot /\ body \in Seq(Cell)
    BY Shapes DEF IInv, SlotsInv
  <2>2. /\ Fits(index[c], c, body \o more)
        /\ index[c].len > 0 => Found(index[c], body \o more) = Found(index[c], body)
    BY <2>1, GrownFile
  <2>3. index[c].len = 0 \/ index[c].len > 0
    BY Shapes DEF IInv
  <2>4. Read(c) = IF index[c].len = 0 THEN Missing ELSE Found(index[c], body)
    BY ReadsFound
  <2>5. Read(c)' = IF index[c].len = 0 THEN Missing ELSE Found(index[c], body')
    BY DEF Read, Found
  <2> QED BY <2>2, <2>3, <2>4, <2>5
<1> QED BY <1>1, <1>2 DEF SlotsInv, Stays

LEMMA OpenSound ==
  ASSUME IInv, NEW c \in Chunks, NEW v \in Versions, Open(c, v)
  PROVE  IInv' /\ Store!Next
<1> USE DEF IInv
<1>1. step = "idle" /\ writing = Idle /\ UNCHANGED <<index, body, copy>>
  BY DEF Open, TypeOK
<1>2. CASE header = "short"
  <2>1. outcome' = "failed" /\ UNCHANGED <<header, step, writing>>
    BY <1>2 DEF Open
  <2>2. TypeOK' /\ WriteInv' /\ CopyInv' /\ SlotsInv'
    BY <1>1, <2>1 DEF TypeOK, WriteInv, CopyInv, SlotsInv
  <2>3. \A d \in Chunks : Read(d)' = Read(d)
    BY <1>1, <2>1 DEF Read
  <2>4. Store!Refuse
    BY <1>1, <1>2, <2>1, <2>3 DEF Store!Refuse
  <2> QED BY <2>2, <2>4 DEF Store!Next
<1>3. CASE header # "short"
  <2>1. /\ header' = (IF header = "none" THEN "empty" ELSE header)
        /\ step' = (IF header = "whole" THEN "append" ELSE "header")
        /\ writing' = <<c, v>> /\ outcome' = "none"
    BY <1>3 DEF Open
  <2>2. (header' = "whole" /\ header = "whole") \/ (header' = "empty" /\ header # "whole")
    BY <1>3, <2>1 DEF TypeOK
  <2>3. writing' # Idle
    <3>1. <<c, v>> \in Chunks \X Versions
      OBVIOUS
    <3> QED BY <2>1, <3>1, RegionAssumption
  <2>4. TypeOK' /\ WriteInv' /\ CopyInv' /\ SlotsInv'
    BY <1>1, <2>1, <2>2, <2>3 DEF TypeOK, WriteInv, CopyInv, SlotsInv
  <2>5. header = "whole" => \A d \in Chunks : Read(d)' = Read(d)
    BY <1>1, <2>2 DEF Read
  <2>6. header # "whole" => \A d \in Chunks : Read(d)' = Unreadable
    BY <2>2 DEF Read
  <2>7. Store!Start(c, v)
    BY <1>1, <2>1, <2>2, <2>5, <2>6 DEF Store!Start, Store!Everywhere
  <2> QED BY <2>4, <2>7 DEF Store!Next
<1> QED BY <1>2, <1>3

LEMMA WriteHeaderSound == ASSUME IInv, WriteHeader PROVE IInv' /\ Store!Next
<1> USE DEF IInv
<1>1. /\ step = "header" /\ header = "empty" /\ header' = "whole" /\ step' = "append"
      /\ UNCHANGED <<index, body, writing, outcome, copy>> /\ index = Blank /\ writing # Idle
  BY DEF WriteHeader, WriteInv, TypeOK
<1>2. TypeOK' /\ WriteInv' /\ CopyInv' /\ SlotsInv'
  BY <1>1 DEF TypeOK, WriteInv, CopyInv, SlotsInv
<1>3. \A c \in Chunks : Read(c)' = Missing
  BY <1>1 DEF Read, Blank, NoSlot
<1>4. Store!Make
  BY <1>1, <1>3 DEF Store!Make, Store!Everywhere
<1> QED BY <1>2, <1>4 DEF Store!Next

\* The payload goes behind everything the slots name.
LEMMA AppendSound == ASSUME IInv, Append_ PROVE IInv' /\ UNCHANGED Store!storeVars
<1> USE DEF IInv
<1>1. /\ step = "append" /\ header = "whole" /\ body' = body \o Target /\ step' = "offset"
      /\ UNCHANGED <<header, index, writing, outcome, copy>>
  BY DEF Append_, WriteInv
<1>2. Target \in Seq(Cell) /\ body \in Seq(Cell) /\ Target' = Target
  BY <1>1, Writing, Shapes DEF Target, Payload
<1>3. SlotsInv' /\ Stays /\ body' \in Seq(Cell)
  BY <1>1, <1>2, GrowsSound
<1>4. TypeOK'
  BY <1>1, <1>3 DEF TypeOK
<1>5. /\ Len(Target') <= Len(body')
      /\ SubSeq(body', Len(body') - Len(Target') + 1, Len(body')) = Target'
  <2>1. /\ Len(body \o Target) = Len(body) + Len(Target)
        /\ Len(body) \in Nat /\ Len(Target) \in Nat
    BY <1>2, CellKept
  <2> DEFINE i == Len(body \o Target) - Len(Target) + 1
             k == Len(body \o Target)
  <2>2. i = Len(body) + 1 /\ k = Len(body) + Len(Target)
    BY <2>1
  <2> HIDE DEF i, k
  <2>3. SubSeq(body \o Target, i, k) = Target
    BY <1>2, <2>2, SliceAdded
  <2>4. SubSeq(body', Len(body') - Len(Target') + 1, Len(body')) = Target'
    BY <1>1, <1>2, <2>3 DEF i, k
  <2> QED BY <1>1, <1>2, <2>1, <2>4
<1>6. WriteInv' /\ CopyInv'
  BY <1>1, <1>5 DEF WriteInv, CopyInv
<1>7. UNCHANGED Store!storeVars
  BY <1>1, <1>3, StepShown
<1> QED BY <1>3, <1>4, <1>6, <1>7

\* Moving a slot to the payload just written tears it, unless the length is the same already.
LEMMA SetOffsetSound ==
  ASSUME IInv, SetOffset
  PROVE  IInv' /\ (Store!Next \/ UNCHANGED Store!storeVars)
<1> USE DEF IInv
<1> DEFINE w == writing[1]
           at == Len(body) - Len(Target)
<1>1. /\ step = "offset" /\ header = "whole" /\ step' = "length"
      /\ index' = [index EXCEPT ![w].at = at]
      /\ UNCHANGED <<header, body, writing, outcome, copy>>
  BY DEF SetOffset, WriteInv
<1>2. /\ writing # Idle /\ w \in Chunks /\ writing[2] \in Versions /\ writing = <<w, writing[2]>>
      /\ Target \in Seq(Cell) /\ Len(Target) = Size[writing[2]] /\ Len(Target) \in Nat
      /\ Len(Target) > 0 /\ Target[1] = <<w, writing[2], 1>> /\ Decode(Target) = writing
      /\ Target = Payload(w, writing[2])
  BY <1>1, Writing DEF Target
<1>3. body \in Seq(Cell) /\ Len(body) \in Nat /\ index[w] \in Slot /\ index[w].len \in Nat
  BY <1>2, Shapes
<1>4. Len(Target) <= Len(body) /\ SubSeq(body, at + 1, Len(body)) = Target
  BY <1>1 DEF WriteInv
<1>5. at \in Nat /\ at + Len(Target) = Len(body) /\ at < Len(body)
  <2> DEFINE size == Len(Target)
             all == Len(body)
  <2>1. size \in Nat /\ all \in Nat /\ size > 0 /\ size <= all
    BY <1>2, <1>3, <1>4
  <2> HIDE DEF size, all
  <2>2. all - size \in Nat /\ all - size + size = all /\ all - size < all
    BY <2>1
  <2> QED BY <2>2 DEF size, all
<1>6. Target' = Target
  BY <1>1 DEF Target, Payload
<1> HIDE DEF at
<1>7. /\ index' \in [Chunks -> [at : Nat, len : Nat]]
      /\ index'[w] = [at |-> at, len |-> index[w].len]
      /\ \A c \in Chunks \ {w} : index'[c] = index[c]
  <2>1. index \in [Chunks -> [at : Nat, len : Nat]]
    BY DEF TypeOK
  <2> HIDE DEF w
  <2> QED BY <1>1, <1>2, <1>5, <2>1
<1>8. body[at + 1] = <<w, writing[2], 1>>
  <2>1. SubSeq(body, at + 1, at + Len(Target))[1] = body[at + 1]
    <3>1. at \in Nat /\ Len(Target) \in Nat /\ Len(Target) > 0 /\ at + Len(Target) <= Len(body)
      BY <1>2, <1>3, <1>5
    <3>2. body \in Seq(Cell)
      BY <1>3
    <3> HIDE DEF w
    <3> QED BY ONLY <3>1, <3>2, SliceShape
  <2>2. SubSeq(body, at + 1, at + Len(Target)) = Target
    BY <1>4, <1>5
  <2> QED BY <1>2, <2>1, <2>2
<1>9. Slice(index'[w], body) = Target <=> Slice(index'[w], body) = Payload(w, writing[2])
  BY <1>2
<1>10. index[w].len = Size[writing[2]] =>
         InBounds(index'[w], body) /\ Slice(index'[w], body) = Payload(w, writing[2])
  BY <1>2, <1>4, <1>5, <1>7 DEF InBounds, Slice
<1>11. Fits(index'[w], w, body)
  BY <1>2, <1>5, <1>7, <1>8, <1>10 DEF Fits
<1>12. SlotsInv'
  BY <1>1, <1>7, <1>11 DEF SlotsInv
<1>13. TypeOK'
  BY <1>1, <1>7 DEF TypeOK
<1>14. WriteInv' /\ CopyInv'
  <2>1. index'[writing'[1]].at = Len(body') - Len(Target')
    BY <1>1, <1>6, <1>7 DEF at
  <2>2. Len(Target') <= Len(body') /\ SubSeq(body', Len(body') - Len(Target') + 1, Len(body')) = Target'
    BY <1>1, <1>4, <1>6 DEF at
  <2> QED BY <1>1, <2>1, <2>2 DEF WriteInv, CopyInv
<1>15. \A c \in Chunks \ {w} : Read(c)' = Read(c)
  BY <1>1, <1>7 DEF Read
<1>16. CASE index[w].len = 0
  <2>1. \A c \in Chunks : c = w => Read(c)' = Read(c)
    BY <1>1, <1>7, <1>16 DEF Read
  <2>2. Stays
    BY <1>15, <2>1 DEF Stays
  <2>3. UNCHANGED Store!storeVars
    BY <1>1, <2>2, StepShown
  <2> QED BY <1>12, <1>13, <1>14, <2>3
<1>17. CASE index[w].len = Size[writing[2]] /\ index[w].len # 0
  <2>1. Read(w)' = writing
    BY <1>1, <1>2, <1>7, <1>10, <1>17 DEF Read
  <2>2. Store!Change(writing)
    BY <1>1, <1>2, <1>15, <2>1, ChangeShown
  <2> QED BY <1>12, <1>13, <1>14, <2>2 DEF Store!Next
<1>18. CASE index[w].len # Size[writing[2]] /\ index[w].len # 0
  <2>1. index'[w] \in Slot /\ index'[w].len > 0 /\ index'[w].at = at /\ index'[w].len = index[w].len
    BY <1>3, <1>5, <1>7, <1>18 DEF Slot
  <2>2. InBounds(index'[w], body) => Decode(Slice(index'[w], body)) = Unreadable
    BY <1>2, <1>3, <1>5, <1>8, <1>18, <2>1, FittingSlot
  <2>3. Read(w)' = Unreadable
    BY <1>1, <1>7, <1>18, <2>2 DEF Read
  <2>4. Store!Change(Unreadable)
    BY <1>1, <1>2, <1>15, <2>3, ChangeShown
  <2> QED BY <1>12, <1>13, <1>14, <2>4 DEF Store!Next
<1> QED BY <1>16, <1>17, <1>18

\* With its length the slot yields what was written.
LEMMA SetLengthSound == ASSUME IInv, SetLength PROVE IInv' /\ Store!Next
<1> USE DEF IInv
<1> DEFINE w == writing[1]
           at == Len(body) - Len(Target)
<1>1. /\ step = "length" /\ header = "whole" /\ step' = "check"
      /\ index' = [index EXCEPT ![w].len = Len(Target)] /\ index[w].at = at
      /\ UNCHANGED <<header, body, writing, outcome, copy>>
  BY DEF SetLength, WriteInv
<1>2. /\ writing # Idle /\ w \in Chunks /\ writing[2] \in Versions /\ writing = <<w, writing[2]>>
      /\ Target \in Seq(Cell) /\ Len(Target) = Size[writing[2]] /\ Len(Target) \in Nat
      /\ Len(Target) > 0 /\ Target[1] = <<w, writing[2], 1>> /\ Decode(Target) = writing
      /\ Target = Payload(w, writing[2])
  BY <1>1, Writing DEF Target
<1>3. body \in Seq(Cell) /\ Len(body) \in Nat /\ index[w] \in Slot /\ index[w].len \in Nat
  BY <1>2, Shapes
<1>4. Len(Target) <= Len(body) /\ SubSeq(body, at + 1, Len(body)) = Target
  BY <1>1 DEF WriteInv
<1>5. at \in Nat /\ at + Len(Target) = Len(body) /\ at < Len(body)
  <2> DEFINE size == Len(Target)
             all == Len(body)
  <2>1. size \in Nat /\ all \in Nat /\ size > 0 /\ size <= all
    BY <1>2, <1>3, <1>4
  <2> HIDE DEF size, all
  <2>2. all - size \in Nat /\ all - size + size = all /\ all - size < all
    BY <2>1
  <2> QED BY <2>2 DEF size, all
<1> HIDE DEF at
<1>7. /\ index' \in [Chunks -> [at : Nat, len : Nat]]
      /\ index'[w] = [at |-> at, len |-> Len(Target)]
      /\ \A c \in Chunks \ {w} : index'[c] = index[c]
  <2>1. index \in [Chunks -> [at : Nat, len : Nat]]
    BY DEF TypeOK
  <2> HIDE DEF w
  <2> QED BY <1>1, <1>2, <1>5, <2>1
<1>8. body[at + 1] = <<w, writing[2], 1>>
  <2>1. SubSeq(body, at + 1, at + Len(Target))[1] = body[at + 1]
    <3>1. at \in Nat /\ Len(Target) \in Nat /\ Len(Target) > 0 /\ at + Len(Target) <= Len(body)
      BY <1>2, <1>3, <1>5
    <3>2. body \in Seq(Cell)
      BY <1>3
    <3> HIDE DEF w
    <3> QED BY ONLY <3>1, <3>2, SliceShape
  <2>2. SubSeq(body, at + 1, at + Len(Target)) = Target
    BY <1>4, <1>5
  <2> QED BY <1>2, <2>1, <2>2
<1>9. InBounds(index'[w], body) /\ Slice(index'[w], body) = Target
  BY <1>2, <1>4, <1>5, <1>7 DEF InBounds, Slice
<1>10. Fits(index'[w], w, body)
  BY <1>2, <1>5, <1>7, <1>8, <1>9 DEF Fits
<1>11. SlotsInv'
  BY <1>1, <1>7, <1>10 DEF SlotsInv
<1>12. TypeOK'
  BY <1>1, <1>7 DEF TypeOK
<1>13. Read(w)' = writing
  BY <1>1, <1>2, <1>7, <1>9 DEF Read
<1>14. \A c \in Chunks \ {w} : Read(c)' = Read(c)
  BY <1>1, <1>7 DEF Read
<1>15. WriteInv' /\ CopyInv'
  BY <1>1, <1>13 DEF WriteInv, CopyInv
<1>16. Store!Change(writing)
  BY <1>1, <1>2, <1>13, <1>14, ChangeShown
<1> QED BY <1>11, <1>12, <1>15, <1>16 DEF Store!Next

\* A write is acknowledged when its payload can be read.
LEMMA CheckSound ==
  ASSUME IInv, Check
  PROVE  IInv' /\ (Store!Next \/ UNCHANGED Store!storeVars)
<1> USE DEF IInv
<1>1. step = "check" /\ header = "whole" /\ Read(writing[1]) = writing
      /\ UNCHANGED <<header, index, body>>
  BY DEF Check, WriteInv
<1>2. writing # Idle /\ writing[1] \in Chunks
  BY <1>1, Writing
<1>3. Stays
  BY <1>1 DEF Stays, Read
<1>4. SlotsInv'
  BY <1>1 DEF SlotsInv
<1>5. CASE Due
  <2>1. step' = "compact" /\ UNCHANGED <<writing, outcome, copy>>
    BY <1>5 DEF Check
  <2>2. TypeOK'
    BY <1>1, <2>1 DEF TypeOK
  <2>3. WriteInv'
    BY <1>1, <2>1 DEF WriteInv, Read
  <2>4. CopyInv'
    <3>1. copy = NoCopy
      BY <1>1 DEF CopyInv
    <3>2. Lengths(index)[0] = 0
      BY Lengthening DEF TypeOK, Slot
    <3> QED BY <1>1, <2>1, <3>1, <3>2 DEF CopyInv, NoCopy, Blank, NoSlot
  <2>5. UNCHANGED Store!storeVars
    BY <1>1, <1>3, <2>1, StepShown
  <2> QED BY <1>4, <2>2, <2>3, <2>4, <2>5
<1>6. CASE ~Due
  <2>1. Done("ok")
    BY <1>6 DEF Check
  <2>2. /\ index \in [Chunks -> [at : Nat, len : Nat]] /\ body \in Seq(Cell)
        /\ header \in {"empty", "short", "whole"}
    BY <1>1 DEF TypeOK
  <2>3. IInv'
    BY <1>1, <1>4, <2>1, <2>2, DoneSound
  <2>4. Store!Acknowledge
    BY <1>1, <1>2, <1>3, <2>1, StepShown DEF Done
  <2> QED BY <2>3, <2>4 DEF Store!Next
<1> QED BY <1>5, <1>6

-----------------------------------------------------------------------------
(* Compaction. *)

\* What is copied reads the same where it lies now, and what was copied before still does.
LEMMA CopySlotSound == ASSUME IInv, CopySlot PROVE IInv' /\ UNCHANGED Store!storeVars
<1> USE DEF IInv
<1>1. /\ step = "compact" /\ header = "whole" /\ copy.slots < Len(Slots) /\ Valid(Following)
      /\ copy' = (IF index[Following].len = 0 THEN [copy EXCEPT !.slots = @ + 1]
                  ELSE Copied(Following))
      /\ UNCHANGED <<header, index, body, step, writing, outcome>>
  BY DEF CopySlot, WriteInv
<1>2. /\ copy.slots \in Nat /\ copy.slots + 1 \in 1..Len(Slots)
      /\ copy.slots + 1 \in 0..Len(Slots)
  BY <1>1, Shapes, Sizes
<1>3. PICK f \in Chunks : f = Following
  BY <1>2, Sizes DEF Following
<1>4. SlotsInv'
  BY <1>1 DEF SlotsInv
<1>5. WriteInv'
  BY <1>1 DEF WriteInv, Read, Target, Payload
<1>6. Stays
  BY <1>1 DEF Stays, Read
<1>7. UNCHANGED Store!storeVars
  BY <1>1, <1>6, StepShown
<1>8. /\ \A c \in Chunks : index[c].len = 0 => copy.index[c].len = 0
      /\ \A i \in 1..copy.slots : CopyFits(Slots[i])
      /\ Len(copy.body) = Lengths(index)[copy.slots]
  BY <1>1 DEF CopyInv
<1>9. copy \in [slots : 0..Len(Slots), index : [Chunks -> [at : Nat, len : Nat]], body : Seq(Cell)]
  BY DEF TypeOK
<1>10. Lengths(index)[copy.slots + 1] = Len(copy.body) + index[f].len
  <2>1. index \in [Chunks -> Slot]
    BY DEF TypeOK, Slot
  <2>2. Lengths(index)[copy.slots + 1] =
          Lengths(index)[copy.slots + 1 - 1] + index[Slots[copy.slots + 1]].len
    BY <1>2, <2>1, Lengthening
  <2>3. copy.slots + 1 - 1 = copy.slots
    BY <1>2
  <2> QED BY <1>3, <1>8, <2>2, <2>3 DEF Following
<1>11. CASE index[f].len = 0
  <2>1. copy' = [copy EXCEPT !.slots = copy.slots + 1]
    BY <1>1, <1>3, <1>11
  <2>2. copy'.slots = copy.slots + 1 /\ copy'.index = copy.index /\ copy'.body = copy.body
        /\ copy' \in [slots : 0..Len(Slots), index : [Chunks -> [at : Nat, len : Nat]],
                      body : Seq(Cell)]
    BY <1>2, <1>9, <2>1
  <2>3. TypeOK'
    BY <1>1, <2>2 DEF TypeOK
  <2>4. \A c \in Chunks : CopyFits(c) => CopyFits(c)'
    BY <1>1, <2>2 DEF CopyFits
  <2>5. CopyFits(f)'
    BY <1>1, <1>11 DEF CopyFits
  <2>6. ASSUME NEW i \in 1..copy'.slots PROVE CopyFits(Slots[i])'
    <3>1. CASE i = copy.slots + 1
      BY <1>3, <2>5, <3>1 DEF Following
    <3>2. CASE i # copy.slots + 1
      <4>1. i \in 1..copy.slots /\ Slots[i] \in Chunks
        BY <1>2, <2>2, <3>2, Sizes
      <4> QED BY <1>8, <2>4, <4>1
    <3> QED BY <3>1, <3>2
  <2>7. Len(copy'.body) = Lengths(index')[copy'.slots]
    <3>1. Len(copy.body) + 0 = Len(copy.body)
      BY Shapes
    <3> QED BY <1>1, <1>11, <1>10, <2>2, <3>1
  <2>8. CopyInv'
    BY <1>1, <1>8, <2>2, <2>6, <2>7 DEF CopyInv
  <2> QED BY <1>4, <1>5, <1>7, <2>3, <2>8
<1>12. CASE index[f].len # 0
  <2> DEFINE at == Len(copy.body)
             len == index[f].len
             moved == Slice(index[f], body)
  <2>1. copy' = [slots |-> copy.slots + 1,
                 index |-> [copy.index EXCEPT ![f] = [at |-> at, len |-> len]],
                 body |-> copy.body \o moved]
    BY <1>1, <1>3, <1>12 DEF Copied
  <2>2. /\ index[f].at \in Nat /\ len \in Nat /\ len > 0 /\ at \in Nat
        /\ body \in Seq(Cell) /\ copy.body \in Seq(Cell)
        /\ copy.index \in [Chunks -> [at : Nat, len : Nat]]
    BY <1>9, <1>12, Shapes
  <2>3. InBounds(index[f], body) /\ index[f].at + len <= Len(body)
    BY <1>1, <1>3, <1>12 DEF Valid, InBounds
  <2>4. moved \in Seq(Cell) /\ Len(moved) = len
    BY <2>2, <2>3, SliceShape DEF Slice
  <2> HIDE DEF at, len, moved
  <2>5. /\ copy.body \o moved \in Seq(Cell) /\ Len(copy.body \o moved) = at + len
    BY <2>2, <2>4, CellKept DEF at
  <2>6. /\ copy'.slots = copy.slots + 1 /\ copy'.body = copy.body \o moved
        /\ copy'.index[f] = [at |-> at, len |-> len]
        /\ \A c \in Chunks \ {f} : copy'.index[c] = copy.index[c]
        /\ copy'.index \in [Chunks -> [at : Nat, len : Nat]]
    BY <2>1, <2>2
  <2>7. copy' \in [slots : 0..Len(Slots), index : [Chunks -> [at : Nat, len : Nat]],
                   body : Seq(Cell)]
    BY <1>2, <2>1, <2>5, <2>6
  <2>8. TypeOK'
    BY <1>1, <2>7 DEF TypeOK
  <2>9. CopyFits(f)'
    <3> DEFINE i == at + 1
               k == at + len
    <3>0. i = Len(copy.body) + 1 /\ k = Len(copy.body) + Len(moved)
      BY <2>4 DEF at
    <3> HIDE DEF i, k
    <3>1. SubSeq(copy.body \o moved, i, k) = moved
      <4> DEFINE old == copy.body
      <4>1. old \in Seq(Cell) /\ moved \in Seq(Cell) /\ i = Len(old) + 1 /\ k = Len(old) + Len(moved)
        BY <2>2, <2>4, <3>0
      <4> HIDE DEF old
      <4>2. SubSeq(old \o moved, i, k) = moved
        BY ONLY <4>1, SliceAdded
      <4> QED BY <4>2 DEF old
    <3>2. InBounds(copy'.index[f], copy'.body)
      BY <2>2, <2>5, <2>6 DEF InBounds
    <3>3. Slice(copy'.index[f], copy'.body) = Slice(index[f], body)
      <4>1. copy'.index[f].at = at /\ copy'.index[f].len = len /\ copy'.body = copy.body \o moved
        BY <2>6
      <4>2. Slice(copy'.index[f], copy'.body) = moved
        BY <3>1, <4>1 DEF Slice, i, k
      <4> QED BY <4>2 DEF moved
    <3> QED BY <1>1, <2>3, <2>6, <3>2, <3>3 DEF CopyFits, len
  <2>10. ASSUME NEW c \in Chunks, c # f, CopyFits(c) PROVE CopyFits(c)'
    <3> SUFFICES ASSUME index[c].len > 0
                 PROVE  /\ InBounds(index[c], body) /\ copy'.index[c].len = index[c].len
                        /\ InBounds(copy'.index[c], copy'.body)
                        /\ Slice(copy'.index[c], copy'.body) = Slice(index[c], body)
      BY <1>1 DEF CopyFits
    <3>1. /\ InBounds(index[c], body) /\ copy.index[c].len = index[c].len
          /\ InBounds(copy.index[c], copy.body)
          /\ Slice(copy.index[c], copy.body) = Slice(index[c], body)
      BY <2>10 DEF CopyFits
    <3>2. copy'.index[c] = copy.index[c]
      BY <2>6, <2>10
    <3> DEFINE i == copy.index[c].at + 1
               k == copy.index[c].at + copy.index[c].len
    <3>3. i \in Nat \ {0} /\ k \in Nat /\ k <= Len(copy.body)
      BY <3>1, Shapes DEF InBounds
    <3>4. k <= Len(copy.body \o moved)
      BY <2>2, <2>5, <3>3 DEF at
    <3> HIDE DEF i, k
    <3>5. SubSeq(copy.body \o moved, i, k) = SubSeq(copy.body, i, k)
      BY <2>2, <2>4, <3>3, SliceKept
    <3>6. InBounds(copy'.index[c], copy'.body)
      BY <2>6, <3>2, <3>4 DEF InBounds, k
    <3>7. Slice(copy'.index[c], copy'.body) = Slice(copy.index[c], copy.body)
      BY <2>6, <3>2, <3>5 DEF Slice, i, k
    <3> QED BY <3>1, <3>2, <3>6, <3>7
  <2>11. ASSUME NEW i \in 1..copy'.slots PROVE CopyFits(Slots[i])'
    <3>1. CASE i = copy.slots + 1
      BY <1>3, <2>9, <3>1 DEF Following
    <3>2. CASE i # copy.slots + 1
      <4>1. copy'.slots = copy.slots + 1
        BY <2>6
      <4>2. i \in 1..copy.slots
        BY <1>2, <3>2, <4>1
      <4>3. Slots[i] \in Chunks
        BY <1>2, <4>1, Sizes
      <4> QED BY <1>8, <2>9, <2>10, <4>2, <4>3
    <3> QED BY <3>1, <3>2
  <2>12. \A c \in Chunks : index'[c].len = 0 => copy'.index[c].len = 0
    BY <1>1, <1>8, <1>12, <2>6
  <2>13. Len(copy'.body) = Lengths(index')[copy'.slots]
    BY <1>1, <1>10, <2>5, <2>6 DEF at, len
  <2>14. CopyInv'
    BY <1>1, <2>11, <2>12, <2>13 DEF CopyInv
  <2> QED BY <1>4, <1>5, <1>7, <2>8, <2>14
<1> QED BY <1>11, <1>12

\* The compacted file yields every slot as before.
LEMMA CompactedSound ==
  ASSUME IInv, step = "compact", Compacted, UNCHANGED header
  PROVE  /\ SlotsInv' /\ Stays /\ header = "whole"
         /\ index' \in [Chunks -> [at : Nat, len : Nat]] /\ body' \in Seq(Cell)
<1> USE DEF IInv
<1>1. header = "whole" /\ index' = copy.index /\ body' = copy.body /\ copy.slots = Len(Slots)
  BY DEF Compacted, WriteInv
<1>2. index' \in [Chunks -> [at : Nat, len : Nat]] /\ body' \in Seq(Cell)
  BY <1>1 DEF TypeOK
<1>3. ASSUME NEW c \in Chunks PROVE Fits(index'[c], c, body') /\ Read(c)' = Read(c)
  <2>1. CopyFits(c)
    <3>1. PICK i \in 1..Len(Slots) : Slots[i] = c
      BY Sizes
    <3> QED BY <1>1, <3>1 DEF CopyInv
  <2>2. index[c].len = 0 => index'[c].len = 0
    BY <1>1 DEF CopyInv
  <2>3. /\ index[c].len \in Nat /\ index[c].at \in Nat /\ index'[c].at \in Nat
        /\ index'[c].len \in Nat /\ body \in Seq(Cell) /\ body' \in Seq(Cell)
        /\ Len(body') \in Nat
    BY <1>1, Shapes
  <2>4. Read(c) = IF index[c].len = 0 THEN Missing ELSE Found(index[c], body)
    BY <1>1, ReadsFound
  <2>5. Read(c)' = IF index'[c].len = 0 THEN Missing ELSE Found(index'[c], body')
    BY <1>1 DEF Read, Found
  <2>6. CASE index[c].len = 0
    BY <2>2, <2>4, <2>5, <2>6 DEF Fits
  <2>7. CASE index[c].len > 0
    <3>1. /\ InBounds(index[c], body) /\ index'[c].len = index[c].len
          /\ InBounds(index'[c], body')
          /\ Slice(index'[c], body') = Slice(index[c], body)
      BY <1>1, <2>1, <2>7 DEF CopyFits
    <3>2. Read(c)' = Read(c)
      BY <2>4, <2>5, <3>1 DEF Found
    <3>3. PICK v \in Versions :
            /\ body[index[c].at + 1] = <<c, v, 1>>
            /\ index[c].len = Size[v] => Slice(index[c], body) = Payload(c, v)
      BY <2>7 DEF SlotsInv, Fits
    <3>4. Slice(index[c], body)[1] = body[index[c].at + 1]
      BY <2>3, <2>7, <3>1, SliceShape DEF Slice, InBounds
    <3>5. Slice(index'[c], body')[1] = body'[index'[c].at + 1]
      BY <2>3, <2>7, <3>1, SliceShape DEF Slice, InBounds
    <3>6. index'[c].at < Len(body')
      BY <2>3, <2>7, <3>1 DEF InBounds
    <3>7. Fits(index'[c], c, body')
      BY <3>1, <3>3, <3>4, <3>5, <3>6 DEF Fits
    <3> QED BY <3>2, <3>7
  <2> QED BY <2>3, <2>6, <2>7
<1> QED BY <1>1, <1>2, <1>3 DEF SlotsInv, Stays

LEMMA CompactSound == ASSUME IInv, Compact PROVE IInv' /\ Store!Next
<1> USE DEF IInv
<1>1. step = "compact" /\ Compacted /\ Done("ok") /\ UNCHANGED header
  BY DEF Compact
<1>2. /\ SlotsInv' /\ Stays /\ header = "whole"
      /\ index' \in [Chunks -> [at : Nat, len : Nat]] /\ body' \in Seq(Cell)
  BY <1>1, CompactedSound
<1>3. IInv'
  BY <1>1, <1>2, DoneSound
<1>4. Read(writing[1]) = writing /\ writing # Idle /\ writing[1] \in Chunks
  BY <1>1, Writing DEF WriteInv
<1>5. Store!Acknowledge
  BY <1>1, <1>2, <1>4, StepShown DEF Done
<1> QED BY <1>3, <1>5 DEF Store!Next

LEMMA CompactRefusedSound == ASSUME IInv, CompactRefused PROVE IInv' /\ Store!Next
<1> USE DEF IInv
<1>1. step = "compact" /\ header = "whole" /\ Done("failed") /\ UNCHANGED <<header, index, body>>
  BY DEF CompactRefused, WriteInv
<1>2. SlotsInv' /\ Stays
  BY <1>1 DEF SlotsInv, Stays, Read
<1>3. index \in [Chunks -> [at : Nat, len : Nat]] /\ body \in Seq(Cell)
  BY DEF TypeOK
<1>4. IInv'
  BY <1>1, <1>2, <1>3, DoneSound
<1>5. Store!Fail
  BY <1>1, <1>2, Writing, StepShown DEF Done
<1> QED BY <1>4, <1>5 DEF Store!Next

-----------------------------------------------------------------------------
(* Interruptions. *)

\* Whatever an interrupted write left behind, every slot yields what it yielded.
LEMMA InterruptSound == ASSUME IInv, Interrupt PROVE IInv' /\ Store!Next
<1> USE DEF IInv
<1>1. step # "idle" /\ Done("failed")
  BY DEF Interrupt
<1>2. writing # Idle /\ writing[1] \in Chunks
  BY <1>1, Writing
<1>3. /\ header \in {"none", "empty", "short", "whole"}
      /\ index \in [Chunks -> [at : Nat, len : Nat]] /\ body \in Seq(Cell)
      /\ header # "whole" => index = Blank /\ body = <<>>
      /\ step \in {"header", "append", "offset", "length", "check", "compact"}
  BY <1>1 DEF TypeOK
<1>4. header = "whole" \/ (header = "empty" /\ step = "header")
  BY <1>3 DEF WriteInv
<1>5. ASSUME SlotsInv', Stays, (header' = "whole") = (header = "whole"),
             header' \in {"empty", "short", "whole"},
             index' \in [Chunks -> [at : Nat, len : Nat]], body' \in Seq(Cell),
             header' # "whole" => index' = Blank /\ body' = <<>>
      PROVE  IInv' /\ Store!Next
  <2>1. IInv'
    BY <1>1, <1>5, DoneSound
  <2>2. Store!Fail
    BY <1>1, <1>2, <1>5, StepShown DEF Done
  <2> QED BY <2>1, <2>2 DEF Store!Next
<1>6. CASE UNCHANGED <<header, index, body>>
  <2>1. SlotsInv' /\ Stays
    BY <1>6 DEF SlotsInv, Stays, Read
  <2> QED BY <1>3, <1>4, <1>5, <1>6, <2>1
<1>7. CASE step = "header" /\ header' = "short" /\ UNCHANGED <<index, body>>
  <2>1. header = "empty"
    BY <1>7 DEF WriteInv
  <2>2. SlotsInv' /\ Stays
    BY <1>7, <2>1 DEF SlotsInv, Stays, Read
  <2> QED BY <1>3, <1>5, <1>7, <2>1, <2>2
<1>8. CASE /\ step = "append"
           /\ \E k \in 1..Len(Target) : /\ Len(body) + k <= MaxCells
                                        /\ body' = body \o SubSeq(Target, 1, k)
           /\ UNCHANGED <<header, index>>
  <2>1. PICK k \in 1..Len(Target) : body' = body \o SubSeq(Target, 1, k)
    BY <1>8
  <2>2. Target \in Seq(Cell)
    BY <1>1, Writing
  <2>3. SubSeq(Target, 1, k) \in Seq(Cell)
    BY <2>1, <2>2
  <2>4. header = "whole"
    BY <1>4, <1>8
  <2>5. SlotsInv' /\ Stays /\ body' \in Seq(Cell)
    BY <1>8, <2>1, <2>3, <2>4, GrowsSound
  <2> QED BY <1>3, <1>5, <1>8, <2>4, <2>5
<1>9. CASE step = "compact" /\ Compacted /\ UNCHANGED header
  <2>1. /\ SlotsInv' /\ Stays /\ header = "whole"
        /\ index' \in [Chunks -> [at : Nat, len : Nat]] /\ body' \in Seq(Cell)
    BY <1>9, CompactedSound
  <2> QED BY <1>5, <1>9, <2>1
<1> QED BY <1>6, <1>7, <1>8, <1>9 DEF Interrupt

-----------------------------------------------------------------------------
(* The specification. *)

LEMMA InitSound == ASSUME Init PROVE IInv /\ Store!Init
<1> USE DEF Init
<1>1. Blank \in [Chunks -> [at : Nat, len : Nat]]
  BY DEF Blank, NoSlot
<1>2. TypeOK
  BY <1>1, NoCopyShape DEF TypeOK
<1>3. SlotsInv /\ WriteInv /\ CopyInv
  BY DEF SlotsInv, Fits, Blank, NoSlot, WriteInv, CopyInv
<1>4. Store!Init
  BY DEF Store!Init, Store!Everywhere, Read
<1> QED BY <1>2, <1>3, <1>4 DEF IInv

LEMMA StepSound ==
  ASSUME IInv, [Next]_vars
  PROVE  IInv' /\ (Store!Next \/ UNCHANGED Store!storeVars)
<1>1. CASE UNCHANGED vars
  <2>1. UNCHANGED <<header, index, body, step, writing, outcome, copy>>
    BY <1>1 DEF vars
  <2>2. IInv'
    BY <2>1 DEF IInv, TypeOK, SlotsInv, WriteInv, CopyInv, CopyFits, Read, Target, Payload
  <2>3. Stays
    BY <2>1 DEF Stays, Read
  <2> QED BY <2>1, <2>2, <2>3, StepShown
<1>2. CASE Next
  <2>1. ASSUME NEW c \in Chunks, NEW v \in Versions, Open(c, v) PROVE IInv' /\ Store!Next
    BY <2>1, OpenSound
  <2> QED BY <1>2, <2>1, WriteHeaderSound, AppendSound, SetOffsetSound, SetLengthSound,
             CheckSound, CopySlotSound, CompactSound, CompactRefusedSound, InterruptSound
          DEF Next
<1> QED BY <1>1, <1>2

\* A compaction leaves no dead weight.
LEMMA CompactedLive ==
  ASSUME IInv, step = "compact", Compacted
  PROVE  Len(body') = Lengths(index')[Len(Slots)]
<1>1. index' = copy.index /\ body' = copy.body /\ copy.slots = Len(Slots)
  BY DEF Compacted
<1>2. index \in [Chunks -> Slot] /\ copy.index \in [Chunks -> Slot]
  BY DEF IInv, TypeOK, Slot
<1>3. /\ \A c \in Chunks : index[c].len = 0 => copy.index[c].len = 0
      /\ \A i \in 1..copy.slots : CopyFits(Slots[i])
      /\ Len(copy.body) = Lengths(index)[copy.slots]
  BY DEF IInv, CopyInv
<1>4. ASSUME NEW c \in Chunks PROVE index[c].len = copy.index[c].len
  <2>1. PICK i \in 1..Len(Slots) : Slots[i] = c
    BY Sizes
  <2>2. CopyFits(c)
    BY <1>1, <1>3, <2>1
  <2>3. index[c].len = 0 \/ index[c].len > 0
    BY Shapes DEF IInv
  <2> QED BY <1>3, <2>2, <2>3 DEF CopyFits
<1>5. Lengths(index) = Lengths(copy.index)
  BY <1>2, <1>4, SameLengths
<1> QED BY <1>1, <1>3, <1>5

LEMMA WeightStep == ASSUME IInv, DeadWeightBounded, [Next]_vars PROVE DeadWeightBounded'
<1> USE DEF IInv
<1> SUFFICES ASSUME outcome' = "ok"
             PROVE  Total' <= Live' + Floor \/ Total' <= Ratio * Live'
  BY DEF DeadWeightBounded
<1>1. step # "idle" => outcome = "none"
  BY DEF WriteInv
<1>2. CASE UNCHANGED vars
  BY <1>2 DEF vars, DeadWeightBounded, Total, Live, Lengths
<1>3. CASE Check
  <2>1. UNCHANGED <<header, index, body>> /\ ~Due
    BY <1>1, <1>3 DEF Check
  <2>2. Total' = Total /\ Live' = Live
    BY <2>1 DEF Total, Live, Lengths
  <2>3. Ratio \in Nat /\ Floor \in Nat /\ Header \in Nat
    BY RegionAssumption
  <2>4. Total \in Nat /\ Live \in Nat
    <3>1. index \in [Chunks -> Slot] /\ Len(Slots) \in 0..Len(Slots)
      BY Sizes DEF TypeOK, Slot
    <3>2. Lengths(index)[Len(Slots)] \in Nat
      BY <3>1, Lengthening
    <3> QED BY <2>3, <3>2, Shapes DEF Total, Live
  <2>5. ~(Total > Ratio * Live) \/ ~(Total > Live + Floor)
    BY <2>1 DEF Due
  <2>6. Ratio * Live \in Nat
    BY <2>3, <2>4
  <2> DEFINE bound == Ratio * Live
  <2> HIDE DEF bound
  <2>7. Total <= bound \/ Total <= Live + Floor
    BY <2>3, <2>4, <2>5, <2>6 DEF bound
  <2> QED BY <2>2, <2>7 DEF bound
<1>4. CASE Compact
  <2>1. step = "compact" /\ Compacted
    BY <1>4 DEF Compact
  <2>2. Total' = Live'
    BY <2>1, CompactedLive DEF Total, Live
  <2>3. body' \in Seq(Cell)
    BY <2>1 DEF Compacted, TypeOK
  <2>4. Floor \in Nat /\ Header \in Nat
    BY RegionAssumption
  <2>5. Total' \in Nat
    BY <2>3, <2>4 DEF Total
  <2>6. Total' <= Live' + Floor
    <3>1. \A t \in Nat : t <= t + Floor
      BY <2>4
    <3>2. Total' <= Total' + Floor
      BY <2>5, <3>1, Zenon
    <3> QED BY <2>2, <3>2, Zenon
  <2> QED BY <2>6, Zenon
<1>5. ASSUME NEW c \in Chunks, NEW v \in Versions, Open(c, v) PROVE FALSE
  BY <1>5 DEF Open
<1>6. ~WriteHeader /\ ~Append_ /\ ~SetOffset /\ ~SetLength /\ ~CopySlot
  BY <1>1 DEF WriteHeader, Append_, SetOffset, SetLength, CopySlot
<1>7. ~CompactRefused /\ ~Interrupt
  BY DEF CompactRefused, Interrupt, Done
<1> QED BY <1>2, <1>3, <1>4, <1>5, <1>6, <1>7 DEF Next

\* write_chunk and compaction (world/storage/region.rs), whatever the slots, the versions'
\* sizes and the limits: between any two writes, and after any interruption, an intact slot
\* holds one whole version of its own chunk, and a compaction copies what it found.
THEOREM RegionInductive == Spec => []IInv
<1>1. Init => IInv
  BY InitSound
<1>2. IInv /\ [Next]_vars => IInv'
  BY StepSound
<1> QED BY <1>1, <1>2, PTL DEF Spec

\* The file is well formed at every step of every write, and an acknowledged write leaves no
\* more dead weight than write_chunk's two limits allow, whatever earlier writes left behind.
THEOREM FileBounded == Spec => []FileInv
<1>1. Init => DeadWeightBounded
  BY DEF Init, DeadWeightBounded
<1>2. IInv /\ DeadWeightBounded /\ [Next]_vars => DeadWeightBounded'
  BY WeightStep
<1>3. IInv /\ DeadWeightBounded => FileInv
  BY DEF IInv, FileInv
<1> QED BY <1>1, <1>2, <1>3, RegionInductive, PTL DEF Spec

\* Whatever writes are interrupted, at whatever byte, and however often the file is
\* compacted, a slot yields nothing, one whole version or an error; only the write under
\* way changes what is read, and only of its own slot; what was acknowledged is readable.
THEOREM RegionIsSlotStore == Spec => ImplementsStore
<1>1. Init => Store!Init
  BY InitSound
<1>2. IInv /\ [Next]_vars => [Store!Next]_(Store!storeVars)
  BY StepSound
<1> QED BY <1>1, <1>2, RegionInductive, PTL DEF Spec, ImplementsStore, Store!Spec
=================================================================================
