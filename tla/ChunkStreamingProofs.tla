------------------------- MODULE ChunkStreamingProofs -------------------------
(***************************************************************************)
(* Theorems about ChunkStreaming: payloads are current, the ground a guest *)
(* plays on is the host's ground, edits are never undone in view, and      *)
(* nobody enters before it stands on decoded ground, for any number of     *)
(* guests and chunks, any views and any budgets.  And about the pool of    *)
(* workers that encodes the chunks (SnapshotJobs): its count is exact, its *)
(* workers are woken, and it is a JobBoard, for any workers and budget.    *)
(***************************************************************************)
EXTENDS ChunkStreaming, SnapshotJobs, FiniteSetTheorems, SequenceTheorems, WellFoundedInduction, TLAPS

EntrySet == ToSet(Entry)
Logged(p) == {i \in DOMAIN editLog : editLog[i].pos = p}

\* The revision of a chunk counts the edits that were broadcast, the log has the others.
WorldOK ==
  /\ \A p \in Chunks : content[p] <= edits /\ revision[p] + Cardinality(Logged(p)) = content[p]
  /\ \A i \in 1..Len(editLog) :
       /\ editLog[i].kind = "BlockSet"
       /\ revision[editLog[i].pos] < editLog[i].val /\ editLog[i].val <= content[editLog[i].pos]
  /\ \A i, j \in 1..Len(editLog) :
       i < j /\ editLog[i].pos = editLog[j].pos => editLog[i].val <= editLog[j].val
  /\ \A p \in Chunks : \A x \in revision[p] + 1..content[p] :
       \E i \in 1..Len(editLog) : editLog[i] = BlockSet(p, x)

\* A cached payload has the edits its revision counts; a job is no newer than its chunk.
EncoderOK ==
  /\ IsFiniteSet(encoding)
  /\ \A c \in encoding : c.rev <= revision[c.pos]
  /\ \A c \in cache : c.val = c.rev /\ c.rev <= revision[c.pos]

-----------------------------------------------------------------------------
(* A guest in the middle of a frame: it has taken in the first k messages   *)
(* under way (b) and applied the first n of its inbox a to its replica r.   *)
(* ph is where the host has it, rev the revisions of the chunks.            *)

\* How far the entry is, on both sides.
Handshake(ph, c, b, k) ==
  /\ ph = "away" <=> c = "idle"
  /\ ph = "pending"  => c = "joining"
  /\ ph = "entering" => c \in {"joining", "receiving", "readySent"}
  /\ ph = "ready"    => c \in {"readySent", "active"}
  /\ \A i \in k + 1..Len(b) : b[i] = EntryAccepted => ph = "ready"
  /\ \A i \in k + 1..Len(b) : b[i] = Manifest =>
       /\ ph = "entering" /\ c = "joining"
       /\ \A j \in k + 1..Len(b) : b[j] = Manifest => j = i

Grounded(c, r) == c = "readySent" => \A p \in EntrySet : r[p] # None

\* Until it plays a guest hears of the safety set only.
Confined(r, a, n, b, k) ==
  /\ \A p \in Chunks \ EntrySet : r[p] = None
  /\ \A i \in n + 1..Len(a) : a[i].pos \in EntrySet
  /\ \A i \in k + 1..Len(b) : b[i] \in Mutations => b[i].pos \in EntrySet

\* Values of a chunk only grow along what follows places n and k, from low.
Rising(low, a, n, b, k) ==
  /\ \A i \in n + 1..Len(a) : low[a[i].pos] # None => low[a[i].pos] <= a[i].val
  /\ \A i \in k + 1..Len(b) : b[i] \in Mutations /\ low[b[i].pos] # None => low[b[i].pos] <= b[i].val

Flow(rev, r, a, n, b, k) ==
  /\ \A p \in Chunks : r[p] # None => r[p] <= rev[p]
  /\ \A i \in n + 1..Len(a) : a[i].val <= rev[a[i].pos]
  /\ \A i \in k + 1..Len(b) : b[i] \in Mutations => b[i].val <= rev[b[i].pos]
  /\ Rising(r, a, n, b, k)
  /\ \A i, j \in n + 1..Len(a) : i < j /\ a[i].pos = a[j].pos => a[i].val <= a[j].val
  /\ \A i \in n + 1..Len(a), j \in k + 1..Len(b) :
       b[j] \in Mutations /\ a[i].pos = b[j].pos => a[i].val <= b[j].val
  /\ \A i, j \in k + 1..Len(b) :
       i < j /\ b[i] \in Mutations /\ b[j] \in Mutations /\ b[i].pos = b[j].pos => b[i].val <= b[j].val

\* What follows places i and j brings chunk p from edit v to its revision.
Covered(rev, p, v, a, i, b, j) ==
  \A x \in v + 1..rev[p] :
    \/ \E l \in i + 1..Len(a) : a[l] = BlockSet(p, x)
    \/ \E l \in j + 1..Len(b) : b[l] = BlockSet(p, x)

\* No edit of ground outside the safety set falls out.
Complete(rev, r, a, n, b, k) ==
  /\ \A p \in Chunks \ EntrySet : r[p] # None => Covered(rev, p, r[p], a, n, b, k)
  /\ \A i \in n + 1..Len(a) : a[i].pos \notin EntrySet =>
       Covered(rev, a[i].pos, a[i].val, a, i, b, k)
  /\ \A i \in k + 1..Len(b) : b[i] \in Mutations /\ b[i].pos \notin EntrySet =>
       Covered(rev, b[i].pos, b[i].val, a, Len(a), b, i)

Replicas == [Chunks -> 0..MaxEdits \cup {None}]
Half == [client : {"idle", "joining", "receiving", "readySent", "active"},
         replica : Replicas, inbox : Seq(Mutations), wants : SUBSET Chunks]

Ground(ph, rev, b, r, a, n, k) ==
  /\ ph # "ready" => Confined(r, a, n, b, k)
  /\ ph = "ready" => Complete(rev, r, a, n, b, k)
  /\ Flow(rev, r, a, n, b, k)

Midway(ph, rev, b, s, n, k) ==
  /\ s \in Half /\ n \in 0..Len(s.inbox) /\ k \in 0..Len(b)
  /\ Handshake(ph, s.client, b, k) /\ Grounded(s.client, s.replica)
  /\ Ground(ph, rev, b, s.replica, s.inbox, n, k)

-----------------------------------------------------------------------------
HalfOf(g) == [client |-> client[g], replica |-> replica[g], inbox |-> inbox[g], wants |-> wants[g]]

\* A connection that is not yet entering has nothing under way.
Quiet(g) ==
  phase[g] \in {"away", "pending"} =>
    /\ down[g] = <<>> /\ up[g] = <<>> /\ inbox[g] = <<>> /\ replica[g] = Nowhere

\* Readiness is reported once, and stands until the host has heard of it.
Reported(g) ==
  \A i \in 1..Len(up[g]) : up[g][i] = EntryReady =>
    /\ phase[g] = "entering" /\ client[g] = "readySent"
    /\ \A j \in 1..Len(up[g]) : up[g][j] = EntryReady => j = i

Connected(g) ==
  Midway(phase[g], revision, down[g], HalfOf(g), 0, 0) /\ Quiet(g) /\ Reported(g)

GuestOK == \A g \in Guests : Connected(g)

IInv == TypeOK /\ WorldOK /\ EncoderOK /\ PayloadsCurrent /\ GuestOK

-----------------------------------------------------------------------------
(* Recursive functions.  The naturals are well ordered, so that a claim     *)
(* about a range of them that fails has a least counterexample.            *)

LEMMA Least ==
  ASSUME NEW S \in SUBSET Nat, S # {}
  PROVE  \E n \in S : \A m \in S : n <= m
<1>1. PICK n \in S : \A m \in S : <<m, n>> \notin OpToRel(<, Nat)
  BY NatLessThanWellFounded, WFMin
<1>2. \A m \in S : ~(m < n)
  BY <1>1 DEF OpToRel
<1> QED BY <1>2

LEMMA Climb ==
  ASSUME NEW n \in Nat, NEW good, 0 \in good, \A i \in 1..n : i - 1 \in good => i \in good
  PROVE  \A i \in 0..n : i \in good
<1> DEFINE bad == (0..n) \ good
<1> SUFFICES ASSUME bad # {} PROVE FALSE
  OBVIOUS
<1>1. bad \in SUBSET Nat
  OBVIOUS
<1>2. PICK m \in bad : \A k \in bad : m <= k
  <2> HIDE DEF bad
  <2> QED BY <1>1, Least
<1>3. m \in 1..n /\ m - 1 \in 0..n /\ m - 1 \notin bad
  BY <1>2
<1> QED BY <1>2, <1>3

\* A step for each place gives the function that takes them in turn.
Steps(n, X) == [1..n -> [X -> X]]
Runs(f, n, X, x, step) ==
  f \in [0..n -> X] /\ f[0] = x /\ \A i \in 1..n : f[i] = step[i][f[i - 1]]

LEMMA Recursion ==
  ASSUME NEW n \in Nat, NEW X, NEW x \in X, NEW step \in Steps(n, X)
  PROVE  \E f : Runs(f, n, X, x, step)
<1> DEFINE good == {m \in 0..n : \E f : Runs(f, m, X, x, step)}
<1>1. 0 \in good
  <2>1. Runs([i \in 0..0 |-> x], 0, X, x, step)
    BY DEF Runs
  <2> QED BY <2>1
<1>2. ASSUME NEW m \in 1..n, m - 1 \in good PROVE m \in good
  <2>1. PICK f : Runs(f, m - 1, X, x, step)
    BY <1>2
  <2> DEFINE g == [i \in 0..m |-> IF i = m THEN step[m][f[m - 1]] ELSE f[i]]
  <2>2. m - 1 \in 0..(m - 1) /\ f[m - 1] \in X /\ step[m] \in [X -> X]
    BY <2>1 DEF Runs, Steps
  <2>3. g \in [0..m -> X] /\ g[0] = x
    BY <2>1, <2>2 DEF Runs
  <2>4. \A i \in 1..m : g[i] = step[i][g[i - 1]]
    BY <2>1, <2>2 DEF Runs
  <2>5. Runs(g, m, X, x, step)
    BY <2>3, <2>4 DEF Runs
  <2> HIDE DEF g
  <2> QED BY <2>5
<1>3. n \in good
  <2> HIDE DEF good
  <2>1. \A i \in 0..n : i \in good
    BY <1>1, <1>2, Climb
  <2> QED BY <2>1
<1> QED BY <1>3

LEMMA SetOf ==
  ASSUME NEW T, NEW s \in Seq(T)
  PROVE  /\ Len(s) \in Nat /\ \A i \in 1..Len(s) : s[i] \in T
         /\ ToSet(s) = {s[i] : i \in 1..Len(s)} /\ s \in Seq(ToSet(s))
BY LenProperties DEF ToSet

\* What is kept of a sequence was in it, and in the set.
LEMMA OnlyKeeps ==
  ASSUME NEW T, NEW s \in Seq(T), NEW S
  PROVE  Only(s, S) \in Seq(T \cap S)
<1> DEFINE N == Len(s)
           X == Seq(T \cap S)
           nil == <<>>
           Grown(n, x) == IF s[n] \in S THEN Append(x, s[n]) ELSE x
           Body(f) == [n \in 0..N |-> IF n = 0 THEN nil ELSE Grown(n, f[n - 1])]
           upTo == CHOOSE f : f = Body(f)
           step == [n \in 1..N |-> [x \in X |-> Grown(n, x)]]
<1>1. N \in Nat /\ \A n \in 1..N : s[n] \in T
  BY SetOf
<1>2. nil \in X /\ \A n \in 1..N, x \in X : Grown(n, x) \in X
  BY <1>1
<1>3. Only(s, S) = upTo[N]
  BY DEF Only
<1> HIDE DEF X, nil, Grown, N
<1>4. step \in Steps(N, X)
  BY <1>1, <1>2 DEF Steps
<1>5. \A n \in 1..N, x \in X : step[n][x] = Grown(n, x)
  OBVIOUS
<1> HIDE DEF step
<1>6. PICK f : Runs(f, N, X, nil, step)
  BY <1>1, <1>2, <1>4, Recursion
<1>7. f = Body(f)
  <2>1. \A n \in 1..N : f[n - 1] \in X
    BY <1>1, <1>6 DEF Runs
  <2>2. f[0] = nil /\ \A n \in 1..N : f[n] = step[n][f[n - 1]]
    BY <1>6 DEF Runs
  <2>3. \A n \in 1..N : f[n] = Grown(n, f[n - 1])
    BY <1>5, <2>1, <2>2
  <2>4. \A n \in 0..N : f[n] = IF n = 0 THEN nil ELSE Grown(n, f[n - 1])
    BY <1>1, <2>2, <2>3
  <2> QED BY <1>6, <2>4 DEF Runs
<1>8. upTo = Body(upTo)
  <2> HIDE DEF Body
  <2> QED BY <1>7
<1> HIDE DEF upTo
<1>9. upTo[0] = nil /\ \A n \in 1..N : upTo[n] = Grown(n, upTo[n - 1])
  <2>1. \A n \in 0..N : upTo[n] = IF n = 0 THEN nil ELSE Grown(n, upTo[n - 1])
    BY <1>8
  <2> QED BY <1>1, <2>1
<1>10. upTo[N] \in X
  <2> DEFINE good == {n \in 0..N : upTo[n] \in X}
  <2>1. 0 \in good
    BY <1>1, <1>2, <1>9
  <2>2. \A n \in 1..N : n - 1 \in good => n \in good
    BY <1>1, <1>2, <1>9
  <2>3. \A n \in 0..N : n \in good
    <3> HIDE DEF good
    <3> QED BY <1>1, <2>1, <2>2, Climb
  <2> QED BY <1>1, <2>3
<1> QED BY <1>3, <1>10 DEF X

-----------------------------------------------------------------------------
(* Messages. *)

\* A message that writes a chunk is known by its kind, and its kind by its form.
LEMMA MessageKinds ==
  /\ \A m \in Mutations : /\ m.pos \in Chunks /\ m.val \in 0..MaxEdits
                          /\ m.kind \in {"Chunk", "BlockSet"}
                          /\ m # Manifest /\ m # EntryAccepted
  /\ Manifest \notin Mutations /\ EntryAccepted \notin Mutations /\ Manifest # EntryAccepted
  /\ Manifest.kind = "Manifest" /\ EntryAccepted.kind = "EntryAccepted"
  /\ \A p \in Chunks, v \in 0..MaxEdits : BlockSet(p, v) \in Mutations /\ Chunk(p, v) \in Mutations
  /\ \A p, v : BlockSet(p, v).kind = "BlockSet" /\ BlockSet(p, v).pos = p /\ BlockSet(p, v).val = v
  /\ \A p, v : Chunk(p, v).kind = "Chunk" /\ Chunk(p, v).pos = p /\ Chunk(p, v).val = v
<1> USE DEF Mutations, Manifest, EntryAccepted, BlockSet, Chunk
<1>1. Manifest.kind = "Manifest" /\ EntryAccepted.kind = "EntryAccepted"
  OBVIOUS
<1>2. \A m \in Mutations : m.pos \in Chunks /\ m.val \in 0..MaxEdits /\ m.kind \in {"Chunk", "BlockSet"}
  OBVIOUS
<1>3. \A m \in Mutations : m # Manifest /\ m # EntryAccepted
  BY <1>1, <1>2
<1>4. \A p \in Chunks, v \in 0..MaxEdits : BlockSet(p, v) \in Mutations /\ Chunk(p, v) \in Mutations
  OBVIOUS
<1> QED BY <1>1, <1>2, <1>3, <1>4

LEMMA OneAfter ==
  ASSUME NEW T, NEW a \in Seq(T), NEW m \in T
  PROVE  /\ Append(a, m) \in Seq(T) /\ Len(Append(a, m)) = Len(a) + 1
         /\ Append(a, m)[Len(a) + 1] = m
         /\ \A i \in 1..Len(a) : Append(a, m)[i] = a[i]
BY AppendProperties

-----------------------------------------------------------------------------
(* Taking messages off the stream. *)

\* A message that tells of no edit may be dropped.
LEMMA Dropped ==
  ASSUME NEW ph, NEW rev, NEW r, NEW low, NEW a, NEW b, NEW n \in Nat, NEW k \in Nat,
         Len(a) \in Nat, Len(b) \in Nat, k < Len(b), b[k + 1].kind # "BlockSet"
  PROVE  /\ Rising(low, a, n, b, k) => Rising(low, a, n, b, k + 1)
         /\ Ground(ph, rev, b, r, a, n, k) => Ground(ph, rev, b, r, a, n, k + 1)
<1>1. \A i \in k + 1 + 1..Len(b) : i \in k + 1..Len(b)
  OBVIOUS
<1>2. ASSUME NEW lo PROVE Rising(lo, a, n, b, k) => Rising(lo, a, n, b, k + 1)
  BY <1>1 DEF Rising
<1>3. Confined(r, a, n, b, k) => Confined(r, a, n, b, k + 1)
  BY <1>1 DEF Confined
<1>4. Flow(rev, r, a, n, b, k) => Flow(rev, r, a, n, b, k + 1)
  BY <1>1, <1>2 DEF Flow
<1>5. ASSUME NEW p, NEW v, NEW i PROVE Covered(rev, p, v, a, i, b, k) => Covered(rev, p, v, a, i, b, k + 1)
  <2>1. \A x : b[k + 1] # BlockSet(p, x)
    BY DEF BlockSet
  <2>2. \A l \in k + 1..Len(b) : l # k + 1 => l \in k + 1 + 1..Len(b)
    OBVIOUS
  <2> QED BY <2>1, <2>2 DEF Covered
<1>6. Complete(rev, r, a, n, b, k) => Complete(rev, r, a, n, b, k + 1)
  BY <1>1, <1>5 DEF Complete
<1> QED BY <1>2, <1>3, <1>4, <1>6 DEF Ground

\* A message may wait in the inbox instead of on the stream.
LEMMA Taken ==
  ASSUME NEW ph, NEW rev, NEW r, NEW low, NEW a \in Seq(Mutations), NEW b \in Seq(Downward),
         NEW k \in Nat, k < Len(b), b[k + 1] \in Mutations
  PROVE  LET q == Append(a, b[k + 1]) IN
         /\ Rising(low, a, 0, b, k) => Rising(low, q, 0, b, k + 1)
         /\ Ground(ph, rev, b, r, a, 0, k) => Ground(ph, rev, b, r, q, 0, k + 1)
<1> DEFINE m == b[k + 1]
           q == Append(a, m)
<1>1. Len(a) \in Nat /\ Len(b) \in Nat
  BY LenProperties
<1>2. Len(q) = Len(a) + 1 /\ q[Len(a) + 1] = m /\ \A i \in 1..Len(a) : q[i] = a[i]
  <2>1. m \in Mutations
    OBVIOUS
  <2> HIDE DEF m
  <2> QED BY <2>1, OneAfter
<1> HIDE DEF q
<1>3. \A i \in 0 + 1..Len(q) : (i \in 0 + 1..Len(a) /\ q[i] = a[i]) \/ (i = Len(a) + 1 /\ q[i] = m)
  BY <1>1, <1>2
<1>4. (\A i \in k + 1 + 1..Len(b) : i \in k + 1..Len(b) /\ i > k + 1) /\ k + 1 \in k + 1..Len(b)
  BY <1>1
<1>5. ASSUME NEW lo PROVE Rising(lo, a, 0, b, k) => Rising(lo, q, 0, b, k + 1)
  BY <1>3, <1>4 DEF Rising
<1>6. Confined(r, a, 0, b, k) => Confined(r, q, 0, b, k + 1)
  BY <1>3, <1>4 DEF Confined
<1>7. ASSUME Flow(rev, r, a, 0, b, k) PROVE Flow(rev, r, q, 0, b, k + 1)
  <2>1. \A i \in 0 + 1..Len(q) : q[i].val <= rev[q[i].pos]
    BY <1>3, <1>4, <1>7 DEF Flow
  <2>2. \A i \in k + 1 + 1..Len(b) : b[i] \in Mutations => b[i].val <= rev[b[i].pos]
    BY <1>4, <1>7 DEF Flow
  <2>3. \A i, j \in 0 + 1..Len(q) : i < j /\ q[i].pos = q[j].pos => q[i].val <= q[j].val
    <3> SUFFICES ASSUME NEW i \in 0 + 1..Len(q), NEW j \in 0 + 1..Len(q), i < j, q[i].pos = q[j].pos
                 PROVE  q[i].val <= q[j].val
      OBVIOUS
    <3>1. i \in 0 + 1..Len(a) /\ q[i] = a[i]
      BY <1>1, <1>2, <1>3
    <3>2. CASE j \in 0 + 1..Len(a) /\ q[j] = a[j]
      BY <3>1, <3>2, <1>7 DEF Flow
    <3>3. CASE q[j] = m
      BY <3>1, <3>3, <1>4, <1>7 DEF Flow
    <3> QED BY <3>2, <3>3, <1>3
  <2>4. \A i \in 0 + 1..Len(q), j \in k + 1 + 1..Len(b) :
          b[j] \in Mutations /\ q[i].pos = b[j].pos => q[i].val <= b[j].val
    <3> SUFFICES ASSUME NEW i \in 0 + 1..Len(q), NEW j \in k + 1 + 1..Len(b), 
                        b[j] \in Mutations, q[i].pos = b[j].pos
                 PROVE  q[i].val <= b[j].val
      OBVIOUS
    <3>2. CASE i \in 0 + 1..Len(a) /\ q[i] = a[i]
      BY <3>2, <1>4, <1>7 DEF Flow
    <3>3. CASE q[i] = m
      BY <3>3, <1>4, <1>7 DEF Flow
    <3> QED BY <3>2, <3>3, <1>3
  <2>5. \A i, j \in k + 1 + 1..Len(b) :
          i < j /\ b[i] \in Mutations /\ b[j] \in Mutations /\ b[i].pos = b[j].pos => b[i].val <= b[j].val
    BY <1>4, <1>7 DEF Flow
  <2>6. Rising(r, q, 0, b, k + 1) /\ \A p \in Chunks : r[p] # None => r[p] <= rev[p]
    BY <1>5, <1>7 DEF Flow
  <2> QED BY <2>1, <2>2, <2>3, <2>4, <2>5, <2>6 DEF Flow
<1>8. ASSUME NEW p, NEW v, NEW i \in 0..Len(a), Covered(rev, p, v, a, i, b, k)
      PROVE  Covered(rev, p, v, q, i, b, k + 1)
  <2> SUFFICES ASSUME NEW x \in v + 1..rev[p]
               PROVE  \/ \E l \in i + 1..Len(q) : q[l] = BlockSet(p, x)
                      \/ \E l \in k + 1 + 1..Len(b) : b[l] = BlockSet(p, x)
    BY DEF Covered
  <2>1. CASE \E l \in i + 1..Len(a) : a[l] = BlockSet(p, x)
    BY <2>1, <1>1, <1>2
  <2>2. CASE \E l \in k + 1..Len(b) : b[l] = BlockSet(p, x)
    <3>1. PICK l \in k + 1..Len(b) : b[l] = BlockSet(p, x)
      BY <2>2
    <3>2. CASE l = k + 1
      BY <3>1, <3>2, <1>1, <1>2
    <3>3. CASE l # k + 1
      BY <3>1, <3>3, <1>1
    <3> QED BY <3>2, <3>3
  <2> QED BY <2>1, <2>2, <1>8 DEF Covered
<1>9. ASSUME NEW p, NEW v, NEW i, Covered(rev, p, v, a, Len(a), b, i)
      PROVE  Covered(rev, p, v, q, Len(q), b, i)
  BY <1>9, <1>1, <1>2 DEF Covered
<1>10. ASSUME Complete(rev, r, a, 0, b, k) PROVE Complete(rev, r, q, 0, b, k + 1)
  <2>1. \A p \in Chunks \ EntrySet : r[p] # None => Covered(rev, p, r[p], q, 0, b, k + 1)
    BY <1>1, <1>8, <1>10 DEF Complete
  <2>2. \A i \in 0 + 1..Len(q) : q[i].pos \notin EntrySet =>
          Covered(rev, q[i].pos, q[i].val, q, i, b, k + 1)
    <3> SUFFICES ASSUME NEW i \in 0 + 1..Len(q), q[i].pos \notin EntrySet
                 PROVE  Covered(rev, q[i].pos, q[i].val, q, i, b, k + 1)
      OBVIOUS
    <3>1. CASE i \in 0 + 1..Len(a) /\ q[i] = a[i]
      BY <3>1, <1>1, <1>8, <1>10 DEF Complete
    <3>2. CASE i = Len(q) /\ q[i] = m
      <4>1. Covered(rev, m.pos, m.val, a, Len(a), b, k + 1)
        BY <3>2, <1>4, <1>10 DEF Complete
      <4> QED BY <4>1, <3>2, <1>9
    <3> QED BY <3>1, <3>2, <1>2, <1>3
  <2>3. \A i \in k + 1 + 1..Len(b) : b[i] \in Mutations /\ b[i].pos \notin EntrySet =>
          Covered(rev, b[i].pos, b[i].val, q, Len(q), b, i)
    BY <1>4, <1>9, <1>10 DEF Complete
  <2> QED BY <2>1, <2>2, <2>3 DEF Complete
<1>11. Ground(ph, rev, b, r, a, 0, k) => Ground(ph, rev, b, r, q, 0, k + 1)
  BY <1>6, <1>7, <1>10 DEF Ground
<1> QED BY <1>5, <1>11 DEF q

\* Where a frame has come to, seen from the client and the replica it began with.
Since(ph, was, low, b, s, n, k) ==
  /\ Rising(low, s.inbox, n, b, k)
  /\ \A p \in Chunks : low[p] # None /\ s.replica[p] # None => low[p] <= s.replica[p]
  /\ s.client \in {"joining", "receiving"} => was \in {"joining", "receiving"}
  /\ was = "readySent" /\ ph = "entering" => s.client = "readySent"

LEMMA ReceiveKeeps ==
  ASSUME NEW ph, NEW rev, NEW b \in Seq(Downward), NEW s, NEW k \in Nat, k < Len(b),
         NEW was, NEW low, Midway(ph, rev, b, s, 0, k), Since(ph, was, low, b, s, 0, k)
  PROVE  /\ Midway(ph, rev, b, Receive(s, b[k + 1]), 0, k + 1)
         /\ Since(ph, was, low, b, Receive(s, b[k + 1]), 0, k + 1)
<1> DEFINE m == b[k + 1]
           t == Receive(s, m)
<1>1. /\ s \in Half /\ k + 1 \in 0..Len(b) /\ m \in Downward
      /\ Len(b) \in Nat /\ Len(s.inbox) \in Nat /\ s.inbox \in Seq(Mutations)
  BY LenProperties, SetOf DEF Midway, Half
<1>2. \A i \in k + 1 + 1..Len(b) : i \in k + 1..Len(b) /\ i > k + 1
  BY <1>1
<1>3. Handshake(ph, s.client, b, k) /\ Grounded(s.client, s.replica)
      /\ Ground(ph, rev, b, s.replica, s.inbox, 0, k)
  BY DEF Midway
<1>4. k + 1 \in k + 1..Len(b)
  BY <1>1
<1>5. CASE m = Manifest
  <2>1. ph = "entering" /\ s.client = "joining" /\ \A i \in k + 1 + 1..Len(b) : b[i] # Manifest
    BY <1>2, <1>3, <1>4, <1>5 DEF Handshake
  <2>2. t = [client |-> "receiving", replica |-> Nowhere, inbox |-> <<>>, wants |-> {}]
    BY <1>5 DEF Receive, Manifest
  <2> HIDE DEF t
  <2>3. t \in Half
    BY <2>2 DEF Half, Replicas, Nowhere
  <2>4. Handshake(ph, t.client, b, k + 1) /\ Grounded(t.client, t.replica)
    BY <2>1, <2>2, <1>2, <1>3 DEF Handshake, Grounded
  <2>5. /\ t.client = "receiving" /\ t.replica = Nowhere /\ t.inbox = <<>> /\ Len(t.inbox) = 0
        /\ \A p \in Chunks : t.replica[p] = None
    BY <2>2 DEF Nowhere
  <2>6. Ground(ph, rev, b, s.replica, s.inbox, 0, k + 1) /\ Rising(low, s.inbox, 0, b, k + 1)
    BY <1>1, <1>3, <1>5, Dropped, MessageKinds DEF Since
  <2>7. Rising(low, t.inbox, 0, b, k + 1)
    BY <2>5, <2>6 DEF Rising
  <2>8. Confined(t.replica, t.inbox, 0, b, k + 1)
    <3>1. Confined(s.replica, s.inbox, 0, b, k + 1)
      BY <2>1, <2>6 DEF Ground
    <3> QED BY <3>1, <2>5 DEF Confined
  <2>9. Flow(rev, t.replica, t.inbox, 0, b, k + 1)
    <3>1. Flow(rev, s.replica, s.inbox, 0, b, k + 1)
      BY <2>6 DEF Ground
    <3>2. \A i \in k + 1 + 1..Len(b) : b[i] \in Mutations => t.replica[b[i].pos] = None
      BY <2>5, MessageKinds
    <3>3. Rising(t.replica, t.inbox, 0, b, k + 1)
      BY <3>2, <2>5 DEF Rising
    <3> QED BY <3>1, <3>3, <2>5 DEF Flow
  <2>10. Ground(ph, rev, b, t.replica, t.inbox, 0, k + 1)
    BY <2>1, <2>8, <2>9 DEF Ground
  <2>11. Since(ph, was, low, b, t, 0, k + 1)
    BY <2>1, <2>5, <2>7, <1>3 DEF Since
  <2>12. Midway(ph, rev, b, t, 0, k + 1)
    BY <2>3, <2>4, <2>5, <2>10, <1>1 DEF Midway
  <2> QED BY <2>11, <2>12 DEF t
<1>6. CASE m = EntryAccepted
  <2>1. ph = "ready"
    BY <1>3, <1>4, <1>6 DEF Handshake
  <2>2. t = [s EXCEPT !.client = "active"]
    BY <1>6 DEF Receive, EntryAccepted
  <2>3. t \in Half /\ t.client = "active" /\ t.replica = s.replica /\ t.inbox = s.inbox
    <3> HIDE DEF t
    <3> QED BY <1>1, <2>2 DEF Half
  <2> HIDE DEF t
  <2>4. Handshake(ph, t.client, b, k + 1) /\ Grounded(t.client, t.replica)
    BY <2>1, <2>3, <1>2, <1>3 DEF Handshake, Grounded
  <2>6. Ground(ph, rev, b, s.replica, s.inbox, 0, k + 1) /\ Rising(low, s.inbox, 0, b, k + 1)
    BY <1>1, <1>3, <1>6, Dropped, MessageKinds DEF Since
  <2>11. Since(ph, was, low, b, t, 0, k + 1)
    BY <2>1, <2>3, <2>6 DEF Since
  <2>12. Midway(ph, rev, b, t, 0, k + 1)
    BY <2>3, <2>4, <2>6, <1>1 DEF Midway
  <2> QED BY <2>11, <2>12 DEF t
<1>7. ASSUME m \in Mutations, t.client = s.client, t.replica = s.replica, t \in Half,
             \/ t.inbox = Append(s.inbox, m)
             \/ t.inbox = s.inbox /\ m.kind # "BlockSet"
      PROVE  Midway(ph, rev, b, t, 0, k + 1) /\ Since(ph, was, low, b, t, 0, k + 1)
  <2> HIDE DEF t
  <2>1. Handshake(ph, t.client, b, k + 1) /\ Grounded(t.client, t.replica)
    BY <1>2, <1>3, <1>7 DEF Handshake, Grounded
  <2>2. Ground(ph, rev, b, t.replica, t.inbox, 0, k + 1) /\ Rising(low, t.inbox, 0, b, k + 1)
    <3>1. CASE t.inbox = Append(s.inbox, m)
      BY <3>1, <1>1, <1>3, <1>7, Taken DEF Since
    <3>2. CASE t.inbox = s.inbox /\ m.kind # "BlockSet"
      BY <3>2, <1>1, <1>3, <1>7, Dropped DEF Since
    <3> QED BY <3>1, <3>2, <1>7
  <2>3. Since(ph, was, low, b, t, 0, k + 1)
    BY <2>2, <1>7 DEF Since
  <2>4. 0 \in 0..Len(t.inbox)
    BY <1>7, LenProperties DEF Half
  <2> QED BY <2>1, <2>2, <2>3, <2>4, <1>1, <1>7 DEF Midway
<1>8. CASE m \in Mutations
  <2>1. m.kind \in {"Chunk", "BlockSet"} /\ m.pos \in Chunks
    BY <1>8, MessageKinds
  <2>2. Append(s.inbox, m) \in Seq(Mutations)
    BY <1>1, <1>8, AppendProperties
  <2>3. CASE m.kind = "BlockSet"
    <3>1. t = [s EXCEPT !.inbox = Append(s.inbox, m)]
      BY <2>3 DEF Receive
    <3>2. t \in Half /\ t.client = s.client /\ t.replica = s.replica /\ t.inbox = Append(s.inbox, m)
      <4> HIDE DEF t, m
      <4> QED BY <1>1, <2>2, <3>1 DEF Half
    <3> QED BY <3>2, <1>7, <1>8
  <2>4. CASE m.kind = "Chunk" /\ t = s
    BY <2>4, <1>1, <1>7, <1>8
  <2>5. CASE m.kind = "Chunk" /\ t # s
    <3>1. t = [s EXCEPT !.inbox = Append(s.inbox, m), !.wants = s.wants \cup {m.pos}]
      BY <2>5 DEF Receive
    <3>2. t \in Half /\ t.client = s.client /\ t.replica = s.replica /\ t.inbox = Append(s.inbox, m)
      <4> HIDE DEF t, m
      <4> QED BY <1>1, <2>1, <2>2, <3>1 DEF Half
    <3> QED BY <3>2, <1>7, <1>8
  <2> QED BY <2>1, <2>3, <2>4, <2>5
<1> QED BY <1>1, <1>5, <1>6, <1>7, <1>8 DEF Downward

LEMMA ReceiveTypes ==
  ASSUME NEW s \in Half, NEW m \in Downward
  PROVE  Receive(s, m) \in Half
<1>1. s.inbox \in Seq(Mutations) /\ s.wants \in SUBSET Chunks
  BY DEF Half
<1>2. CASE m = Manifest
  <2>1. Receive(s, m) = [client |-> "receiving", replica |-> Nowhere, inbox |-> <<>>, wants |-> {}]
    BY <1>2 DEF Receive, Manifest
  <2> QED BY <2>1 DEF Half, Replicas, Nowhere
<1>3. CASE m = EntryAccepted
  <2>1. Receive(s, m) = [s EXCEPT !.client = "active"]
    BY <1>3 DEF Receive, EntryAccepted
  <2> QED BY <2>1 DEF Half
<1>4. CASE m \in Mutations
  <2>1. m.kind \in {"Chunk", "BlockSet"} /\ m.pos \in Chunks
    BY <1>4, MessageKinds
  <2>2. Append(s.inbox, m) \in Seq(Mutations)
    BY <1>1, <1>4, AppendProperties
  <2>3. \/ Receive(s, m) = [s EXCEPT !.inbox = Append(s.inbox, m)]
        \/ Receive(s, m) = [s EXCEPT !.inbox = Append(s.inbox, m), !.wants = s.wants \cup {m.pos}]
        \/ Receive(s, m) = s
    BY <2>1 DEF Receive
  <2> QED BY <1>1, <2>1, <2>2, <2>3 DEF Half
<1> QED BY <1>2, <1>3, <1>4 DEF Downward

\* Polling takes the messages one at a time.
LEMMA PolledRuns ==
  ASSUME NEW g, HalfOf(g) \in Half, down[g] \in Seq(Downward)
  PROVE  /\ Polled(g)[0] = HalfOf(g)
         /\ \A k \in 1..Len(down[g]) : Polled(g)[k] = Receive(Polled(g)[k - 1], down[g][k])
<1> DEFINE N == Len(down[g])
           x == HalfOf(g)
           Grown(n, s) == Receive(s, down[g][n])
           Body(f) == [n \in 0..N |-> IF n = 0 THEN x ELSE Grown(n, f[n - 1])]
           step == [n \in 1..N |-> [s \in Half |-> Grown(n, s)]]
<1>1. N \in Nat /\ \A n \in 1..N : down[g][n] \in Downward
  BY SetOf
<1>2. x \in Half /\ \A n \in 1..N, s \in Half : Grown(n, s) \in Half
  BY <1>1, ReceiveTypes
<1> DEFINE upTo == CHOOSE f : f = Body(f)
<1>3. Polled(g) = upTo
  BY DEF Polled, HalfOf
<1> HIDE DEF x, Grown, N
<1>4. step \in Steps(N, Half)
  BY <1>1, <1>2 DEF Steps
<1>5. \A n \in 1..N, s \in Half : step[n][s] = Grown(n, s)
  OBVIOUS
<1> HIDE DEF step
<1>6. PICK f : Runs(f, N, Half, x, step)
  BY <1>1, <1>2, <1>4, Recursion
<1>7. f = Body(f)
  <2>1. \A n \in 1..N : f[n - 1] \in Half
    BY <1>1, <1>6 DEF Runs
  <2>2. \A n \in 1..N : f[n] = Grown(n, f[n - 1])
    <3> TAKE n \in 1..N
    <3>1. f[n] = step[n][f[n - 1]]
      BY <1>6 DEF Runs
    <3>2. step[n][f[n - 1]] = Grown(n, f[n - 1])
      BY <1>5, <2>1
    <3> QED BY <3>1, <3>2
  <2>3. f = [n \in 0..N |-> f[n]] /\ f[0] = x
    BY <1>6 DEF Runs
  <2> QED BY <1>1, <2>2, <2>3
<1>8. upTo = Body(upTo)
  <2> HIDE DEF Body
  <2> QED BY <1>7
<1> HIDE DEF upTo
<1>9. upTo[0] = x /\ \A n \in 1..N : upTo[n] = Grown(n, upTo[n - 1])
  <2>1. \A n \in 0..N : upTo[n] = IF n = 0 THEN x ELSE Grown(n, upTo[n - 1])
    BY <1>8
  <2> QED BY <1>1, <2>1
<1> QED BY <1>3, <1>9 DEF x, Grown, N

LEMMA ApplyTypes ==
  ASSUME NEW r \in Replicas, NEW m \in Mutations
  PROVE  Apply(r, m) \in Replicas
BY MessageKinds DEF Apply, Replicas

\* A replica takes its messages one at a time.
LEMMA AppliedRuns ==
  ASSUME NEW r \in Replicas, NEW q \in Seq(Mutations)
  PROVE  /\ Applied(r, q)[0] = r
         /\ \A n \in 1..Len(q) : Applied(r, q)[n] = Apply(Applied(r, q)[n - 1], q[n])
<1> DEFINE N == Len(q)
           Grown(n, s) == Apply(s, q[n])
           Body(f) == [n \in 0..N |-> IF n = 0 THEN r ELSE Grown(n, f[n - 1])]
           step == [n \in 1..N |-> [s \in Replicas |-> Grown(n, s)]]
<1>1. N \in Nat /\ \A n \in 1..N : q[n] \in Mutations
  BY SetOf
<1>2. \A n \in 1..N, s \in Replicas : Grown(n, s) \in Replicas
  BY <1>1, ApplyTypes
<1> DEFINE upTo == CHOOSE f : f = Body(f)
<1>3. Applied(r, q) = upTo
  BY DEF Applied
<1> HIDE DEF Grown, N
<1>4. step \in Steps(N, Replicas)
  BY <1>1, <1>2 DEF Steps
<1>5. \A n \in 1..N, s \in Replicas : step[n][s] = Grown(n, s)
  OBVIOUS
<1> HIDE DEF step
<1>6. PICK f : Runs(f, N, Replicas, r, step)
  BY <1>1, <1>2, <1>4, Recursion
<1>7. f = Body(f)
  <2>1. \A n \in 1..N : f[n - 1] \in Replicas
    BY <1>1, <1>6 DEF Runs
  <2>2. \A n \in 0..N : f[n] = IF n = 0 THEN r ELSE Grown(n, f[n - 1])
    BY <1>1, <1>5, <1>6, <2>1 DEF Runs
  <2> QED BY <1>6, <2>2 DEF Runs
<1>8. upTo = Body(upTo)
  <2> HIDE DEF Body
  <2> QED BY <1>7
<1> HIDE DEF upTo
<1>9. upTo[0] = r /\ \A n \in 1..N : upTo[n] = Grown(n, upTo[n - 1])
  <2>1. \A n \in 0..N : upTo[n] = IF n = 0 THEN r ELSE Grown(n, upTo[n - 1])
    BY <1>8
  <2> QED BY <1>1, <2>1
<1> QED BY <1>3, <1>9 DEF Grown, N

-----------------------------------------------------------------------------
(* Applying the inbox. *)

With(s, r) == [s EXCEPT !.replica = r]

LEMMA ApplyKeeps ==
  ASSUME NEW ph, NEW rev, NEW b \in Seq(Downward), NEW s, NEW k, NEW n \in Nat, n < Len(s.inbox),
         NEW was, NEW low, Midway(ph, rev, b, s, n, k), Since(ph, was, low, b, s, n, k)
  PROVE  LET t == With(s, Apply(s.replica, s.inbox[n + 1]))
         IN  Midway(ph, rev, b, t, n + 1, k) /\ Since(ph, was, low, b, t, n + 1, k)
<1> DEFINE a == s.inbox
           r == s.replica
           m == a[n + 1]
           q == Apply(r, m)
           t == With(s, q)
<1>1. /\ s \in Half /\ a \in Seq(Mutations) /\ r \in Replicas
      /\ k \in 0..Len(b) /\ Len(b) \in Nat /\ Len(a) \in Nat /\ n + 1 \in 0..Len(a)
      /\ m \in Mutations /\ \A i \in 1..Len(a) : a[i] \in Mutations
  BY LenProperties, SetOf DEF Midway, Half
<1>2. /\ m.pos \in Chunks /\ m.kind \in {"Chunk", "BlockSet"} /\ m.val \in 0..MaxEdits
      /\ m.val # None
  BY <1>1, MessageKinds, StreamingAssumption
<1>3. /\ q \in Replicas /\ \A p \in Chunks : p # m.pos => q[p] = r[p]
      /\ q[m.pos] = m.val \/ (q[m.pos] = None /\ r[m.pos] = None /\ m.kind = "BlockSet")
  <2> HIDE DEF r, m
  <2>1. q \in Replicas
    BY <1>1, ApplyTypes
  <2>2. q = [r EXCEPT ![m.pos] = m.val] \/ (q = r /\ r[m.pos] = None /\ m.kind = "BlockSet")
    BY <1>2 DEF Apply
  <2> HIDE DEF q
  <2> QED BY <1>1, <1>2, <2>1, <2>2 DEF Replicas
<1>4. t \in Half /\ t.client = s.client /\ t.replica = q /\ t.inbox = a
  <2> HIDE DEF q, a
  <2> QED BY <1>1, <1>3 DEF Half, With, a
<1>5. /\ Handshake(ph, s.client, b, k) /\ Grounded(s.client, r) /\ Ground(ph, rev, b, r, a, n, k)
      /\ Rising(low, a, n, b, k)
      /\ \A p \in Chunks : low[p] # None /\ r[p] # None => low[p] <= r[p]
  BY DEF Midway, Since
<1> HIDE DEF t, q, m, a, r
<1>6. (\A i \in n + 1 + 1..Len(a) : i \in n + 1..Len(a) /\ i > n + 1) /\ n + 1 \in n + 1..Len(a)
  BY <1>1
<1>7. m = a[n + 1]
  BY DEF m
<1>8. Flow(rev, q, a, n + 1, b, k)
  <2>1. Flow(rev, r, a, n, b, k)
    BY <1>5 DEF Ground
  <2>2. \A p \in Chunks : q[p] # None => q[p] <= rev[p]
    BY <1>3, <1>6, <1>7, <2>1 DEF Flow
  <2>3. \A i \in n + 1 + 1..Len(a) : q[a[i].pos] # None => q[a[i].pos] <= a[i].val
    <3> TAKE i \in n + 1 + 1..Len(a)
    <3>1. a[i].pos \in Chunks /\ i \in n + 1..Len(a) /\ n + 1 < i
      BY <1>1, <1>6, MessageKinds
    <3>2. CASE a[i].pos = m.pos
      BY <3>1, <3>2, <1>3, <1>6, <1>7, <2>1 DEF Flow
    <3>3. CASE a[i].pos # m.pos
      BY <3>1, <3>3, <1>3, <2>1 DEF Flow, Rising
    <3> QED BY <3>2, <3>3
  <2>4. \A i \in k + 1..Len(b) : b[i] \in Mutations /\ q[b[i].pos] # None => q[b[i].pos] <= b[i].val
    <3> SUFFICES ASSUME NEW i \in k + 1..Len(b), b[i] \in Mutations, q[b[i].pos] # None
                 PROVE  q[b[i].pos] <= b[i].val
      OBVIOUS
    <3>1. b[i].pos \in Chunks
      BY MessageKinds
    <3>2. CASE b[i].pos = m.pos
      BY <3>1, <3>2, <1>3, <1>6, <1>7, <2>1 DEF Flow
    <3>3. CASE b[i].pos # m.pos
      BY <3>1, <3>3, <1>3, <2>1 DEF Flow, Rising
    <3> QED BY <3>2, <3>3
  <2>5. Rising(q, a, n + 1, b, k)
    BY <2>3, <2>4 DEF Rising
  <2> QED BY <1>6, <2>1, <2>2, <2>5 DEF Flow
<1>9. Confined(r, a, n, b, k) => Confined(q, a, n + 1, b, k)
  BY <1>3, <1>6, <1>7 DEF Confined
<1>10. ASSUME Complete(rev, r, a, n, b, k) PROVE Complete(rev, q, a, n + 1, b, k)
  <2>1. ASSUME NEW p \in Chunks \ EntrySet, q[p] # None PROVE Covered(rev, p, q[p], a, n + 1, b, k)
    <3>1. CASE p = m.pos
      BY <3>1, <2>1, <1>3, <1>6, <1>7, <1>10 DEF Complete
    <3>2. CASE p # m.pos
      <4>1. q[p] = r[p] /\ Covered(rev, p, q[p], a, n, b, k)
        BY <3>2, <2>1, <1>3, <1>10 DEF Complete
      <4>2. \A x : a[n + 1] # BlockSet(p, x)
        BY <3>2, <1>7 DEF BlockSet
      <4>3. \A l \in n + 1..Len(a) : l # n + 1 => l \in n + 1 + 1..Len(a)
        BY <1>1
      <4> QED BY <4>1, <4>2, <4>3 DEF Covered
    <3> QED BY <3>1, <3>2
  <2> QED BY <2>1, <1>6, <1>10 DEF Complete
<1>11. Ground(ph, rev, b, q, a, n + 1, k)
  BY <1>5, <1>8, <1>9, <1>10 DEF Ground
<1>12. Grounded(s.client, q)
  <2>1. \A p \in Chunks : r[p] # None => q[p] # None
    BY <1>2, <1>3
  <2>2. EntrySet \subseteq Chunks
    BY StreamingAssumption, SetOf DEF EntrySet
  <2> QED BY <1>5, <2>1, <2>2 DEF Grounded
<1>13. Rising(low, a, n + 1, b, k) /\ \A p \in Chunks : low[p] # None /\ q[p] # None => low[p] <= q[p]
  BY <1>3, <1>5, <1>6, <1>7 DEF Rising
<1>14. Midway(ph, rev, b, t, n + 1, k)
  BY <1>1, <1>4, <1>5, <1>11, <1>12 DEF Midway
<1>15. Since(ph, was, low, b, t, n + 1, k)
  BY <1>4, <1>13 DEF Since
<1> QED BY <1>14, <1>15 DEF t, q, m, a, r

\* The messages a frame takes in leave a guest in order ...
LEMMA PolledKeeps ==
  ASSUME NEW g, Midway(phase[g], revision, down[g], HalfOf(g), 0, 0), down[g] \in Seq(Downward),
         NEW k \in 0..Len(down[g])
  PROVE  /\ Midway(phase[g], revision, down[g], Polled(g)[k], 0, k)
         /\ Since(phase[g], client[g], replica[g], down[g], Polled(g)[k], 0, k)
<1> DEFINE b == down[g]
           Good(s, i) == /\ Midway(phase[g], revision, b, s, 0, i)
                         /\ Since(phase[g], client[g], replica[g], b, s, 0, i)
           good == {i \in 0..Len(b) : Good(Polled(g)[i], i)}
<1>1. HalfOf(g) \in Half /\ Len(b) \in Nat
  BY LenProperties DEF Midway
<1>2. /\ HalfOf(g).client = client[g] /\ HalfOf(g).replica = replica[g] /\ HalfOf(g).inbox = inbox[g]
      /\ replica[g] \in Replicas
  BY <1>1 DEF HalfOf, Half
<1>3. Good(HalfOf(g), 0)
  <2>1. \A p \in Chunks : replica[g][p] # None => replica[g][p] <= replica[g][p]
    BY <1>2, StreamingAssumption DEF Replicas
  <2>2. Rising(replica[g], inbox[g], 0, b, 0)
    BY <1>2 DEF Midway, Ground, Flow
  <2> QED BY <1>2, <2>1, <2>2 DEF Since
<1>4. Polled(g)[0] = HalfOf(g) /\ \A i \in 1..Len(b) : Polled(g)[i] = Receive(Polled(g)[i - 1], b[i])
  BY <1>1, PolledRuns
<1>5. ASSUME NEW i \in 1..Len(b), i - 1 \in good PROVE i \in good
  <2>1. i - 1 \in Nat /\ i - 1 < Len(b) /\ i - 1 + 1 = i
    BY <1>1
  <2>2. Good(Polled(g)[i - 1], i - 1)
    BY <1>5
  <2>3. Good(Receive(Polled(g)[i - 1], b[i - 1 + 1]), i - 1 + 1)
    BY <2>1, <2>2, ReceiveKeeps
  <2> HIDE DEF Good
  <2> QED BY <2>1, <2>3, <1>4
<1>6. 0 \in good
  <2> HIDE DEF Good
  <2> QED BY <1>1, <1>3, <1>4
<1>7. k \in good
  <2> HIDE DEF good
  <2>1. \A i \in 0..Len(b) : i \in good
    BY <1>1, <1>5, <1>6, Climb
  <2> QED BY <2>1
<1> QED BY <1>7

\* ... and so do the changes it applies.
LEMMA AppliedKeeps ==
  ASSUME NEW ph, NEW rev, NEW b \in Seq(Downward), NEW s, NEW k, NEW was, NEW low,
         Midway(ph, rev, b, s, 0, k), Since(ph, was, low, b, s, 0, k), NEW n \in 0..Len(s.inbox)
  PROVE  LET t == With(s, Applied(s.replica, s.inbox)[n])
         IN  Midway(ph, rev, b, t, n, k) /\ Since(ph, was, low, b, t, n, k)
<1> DEFINE a == s.inbox
           Upto(i) == With(s, Applied(s.replica, a)[i])
           Good(t, i) == Midway(ph, rev, b, t, i, k) /\ Since(ph, was, low, b, t, i, k)
           good == {i \in 0..Len(a) : Good(Upto(i), i)}
<1>1. s \in Half /\ a \in Seq(Mutations) /\ s.replica \in Replicas /\ Len(a) \in Nat
  BY LenProperties DEF Midway, Half
<1>2. /\ Applied(s.replica, a)[0] = s.replica
      /\ \A i \in 1..Len(a) : Applied(s.replica, a)[i] = Apply(Applied(s.replica, a)[i - 1], a[i])
  BY <1>1, AppliedRuns
<1>3. 0 \in good
  <2>1. Upto(0) = s
    BY <1>1, <1>2 DEF With, Half
  <2> HIDE DEF Upto
  <2> QED BY <1>1, <2>1
<1>4. \A i : Upto(i).inbox = a /\ Upto(i).replica = Applied(s.replica, a)[i]
  BY <1>1 DEF With, Half
<1>5. ASSUME NEW i \in 1..Len(a), i - 1 \in good PROVE i \in good
  <2>1. i - 1 \in Nat /\ i - 1 < Len(a) /\ i - 1 + 1 = i
    BY <1>1
  <2>2. Good(Upto(i - 1), i - 1) /\ Upto(i - 1).inbox = a
    BY <1>4, <1>5
  <2>3. Good(With(Upto(i - 1), Apply(Upto(i - 1).replica, a[i - 1 + 1])), i - 1 + 1)
    <3> HIDE DEF Upto, a
    <3> QED BY <2>1, <2>2, ApplyKeeps
  <2>4. With(Upto(i - 1), Apply(Upto(i - 1).replica, a[i - 1 + 1])) = Upto(i)
    BY <2>1, <1>1, <1>2, <1>4 DEF With, Half
  <2> HIDE DEF Good, Upto
  <2> QED BY <2>1, <2>3, <2>4
<1>6. n \in good
  <2> HIDE DEF good
  <2>1. \A i \in 0..Len(a) : i \in good
    BY <1>1, <1>3, <1>5, Climb
  <2> QED BY <2>1
<1> QED BY <1>6

-----------------------------------------------------------------------------
(* The end of a frame. *)

LEMMA Remains ==
  ASSUME NEW T, NEW q \in Seq(T), NEW n \in 0..Len(q)
  PROVE  LET w == SubSeq(q, n + 1, Len(q))
         IN  /\ w \in Seq(T) /\ Len(w) = Len(q) - n
             /\ \A i \in 1..Len(w) : i + n \in n + 1..Len(q) /\ w[i] = q[i + n]
<1>1. Len(q) \in Nat
  BY LenProperties
<1>2. \A i \in n + 1..Len(q) : q[i] \in T
  BY SetOf
<1>3. /\ SubSeq(q, n + 1, Len(q)) \in Seq(T)
      /\ Len(SubSeq(q, n + 1, Len(q))) = Len(q) - n
      /\ \A i \in 1..Len(q) - n : SubSeq(q, n + 1, Len(q))[i] = q[i + n]
  BY <1>1, <1>2
<1> QED BY <1>1, <1>3

\* What was taken in and applied may be forgotten.
LEMMA Forgotten ==
  ASSUME NEW ph, NEW rev, NEW c, NEW r, NEW a \in Seq(Mutations), NEW b \in Seq(Downward),
         NEW n \in 0..Len(a), NEW k \in 0..Len(b)
  PROVE  LET v == SubSeq(a, n + 1, Len(a))
             w == SubSeq(b, k + 1, Len(b))
         IN  /\ Handshake(ph, c, b, k) => Handshake(ph, c, w, 0)
             /\ Ground(ph, rev, b, r, a, n, k) => Ground(ph, rev, w, r, v, 0, 0)
<1> DEFINE v == SubSeq(a, n + 1, Len(a))
           w == SubSeq(b, k + 1, Len(b))
<1>1. /\ Len(a) \in Nat /\ Len(b) \in Nat
      /\ Len(v) = Len(a) - n /\ \A i \in 1..Len(v) : i + n \in n + 1..Len(a) /\ v[i] = a[i + n]
      /\ Len(w) = Len(b) - k /\ \A i \in 1..Len(w) : i + k \in k + 1..Len(b) /\ w[i] = b[i + k]
  BY LenProperties, Remains
<1> HIDE DEF v, w
<1>2. /\ 0 + 1 = 1 /\ Len(v) \in Nat /\ Len(w) \in Nat
      /\ \A i \in n + 1..Len(a) : i - n \in 1..Len(v) /\ v[i - n] = a[i]
      /\ \A i \in k + 1..Len(b) : i - k \in 1..Len(w) /\ w[i - k] = b[i]
  BY <1>1
<1>3. ASSUME Handshake(ph, c, b, k) PROVE Handshake(ph, c, w, 0)
  <2>1. \A i \in 1..Len(w) : w[i] = EntryAccepted => ph = "ready"
    BY <1>1, <1>3 DEF Handshake
  <2>2. ASSUME NEW i \in 1..Len(w), w[i] = Manifest
        PROVE  ph = "entering" /\ c = "joining" /\ \A j \in 1..Len(w) : w[j] = Manifest => j = i
    <3>1. i + k \in k + 1..Len(b) /\ b[i + k] = Manifest
      BY <1>1, <2>2
    <3>2. ASSUME NEW j \in 1..Len(w), w[j] = Manifest PROVE j = i
      <4>1. j + k \in k + 1..Len(b) /\ b[j + k] = Manifest
        BY <1>1, <3>2
      <4>2. j + k = i + k
        BY <3>1, <4>1, <1>3 DEF Handshake
      <4> QED BY <4>2
    <3> QED BY <3>1, <3>2, <1>3 DEF Handshake
  <2> QED BY <1>2, <1>3, <2>1, <2>2 DEF Handshake
<1>4. Confined(r, a, n, b, k) => Confined(r, v, 0, w, 0)
  BY <1>1, <1>2 DEF Confined
<1>5. ASSUME Flow(rev, r, a, n, b, k) PROVE Flow(rev, r, v, 0, w, 0)
  <2>1. /\ \A i \in 1..Len(v) : v[i].val <= rev[v[i].pos]
        /\ \A i \in 1..Len(w) : w[i] \in Mutations => w[i].val <= rev[w[i].pos]
    BY <1>1, <1>5 DEF Flow
  <2>2. Rising(r, v, 0, w, 0)
    <3>1. Rising(r, a, n, b, k)
      BY <1>5 DEF Flow
    <3>2. \A i \in 1..Len(v) : r[v[i].pos] # None => r[v[i].pos] <= v[i].val
      BY <1>1, <3>1 DEF Rising
    <3>3. \A i \in 1..Len(w) : w[i] \in Mutations /\ r[w[i].pos] # None => r[w[i].pos] <= w[i].val
      BY <1>1, <3>1 DEF Rising
    <3> QED BY <1>2, <3>2, <3>3 DEF Rising
  <2>3. \A i, j \in 1..Len(v) : i < j /\ v[i].pos = v[j].pos => v[i].val <= v[j].val
    <3> SUFFICES ASSUME NEW i \in 1..Len(v), NEW j \in 1..Len(v), i < j, v[i].pos = v[j].pos
                 PROVE  v[i].val <= v[j].val
      OBVIOUS
    <3>1. /\ i + n \in n + 1..Len(a) /\ j + n \in n + 1..Len(a)
          /\ v[i] = a[i + n] /\ v[j] = a[j + n]
      BY <1>1
    <3>2. i + n < j + n
      OBVIOUS
    <3>3. \A x, y \in n + 1..Len(a) : x < y /\ a[x].pos = a[y].pos => a[x].val <= a[y].val
      BY <1>5 DEF Flow
    <3> QED BY <3>1, <3>2, <3>3
  <2>4. \A i \in 1..Len(v), j \in 1..Len(w) :
          w[j] \in Mutations /\ v[i].pos = w[j].pos => v[i].val <= w[j].val
    <3> SUFFICES ASSUME NEW i \in 1..Len(v), NEW j \in 1..Len(w), w[j] \in Mutations, v[i].pos = w[j].pos
                 PROVE  v[i].val <= w[j].val
      OBVIOUS
    <3>1. i + n \in n + 1..Len(a) /\ j + k \in k + 1..Len(b) /\ v[i] = a[i + n] /\ w[j] = b[j + k]
      BY <1>1
    <3>2. \A x \in n + 1..Len(a), y \in k + 1..Len(b) :
            b[y] \in Mutations /\ a[x].pos = b[y].pos => a[x].val <= b[y].val
      BY <1>5 DEF Flow
    <3> QED BY <3>1, <3>2
  <2>5. \A i, j \in 1..Len(w) :
          i < j /\ w[i] \in Mutations /\ w[j] \in Mutations /\ w[i].pos = w[j].pos => w[i].val <= w[j].val
    <3> SUFFICES ASSUME NEW i \in 1..Len(w), NEW j \in 1..Len(w), i < j,
                        w[i] \in Mutations, w[j] \in Mutations, w[i].pos = w[j].pos
                 PROVE  w[i].val <= w[j].val
      OBVIOUS
    <3>1. /\ i + k < j + k /\ i + k \in k + 1..Len(b) /\ j + k \in k + 1..Len(b)
          /\ w[i] = b[i + k] /\ w[j] = b[j + k]
      BY <1>1
    <3>2. \A x, y \in k + 1..Len(b) : x < y /\ b[x] \in Mutations /\ b[y] \in Mutations
            /\ b[x].pos = b[y].pos => b[x].val <= b[y].val
      BY <1>5 DEF Flow
    <3> QED BY <3>1, <3>2
  <2>6. \A p \in Chunks : r[p] # None => r[p] <= rev[p]
    BY <1>5 DEF Flow
  <2> QED BY <1>2, <2>1, <2>2, <2>3, <2>4, <2>5, <2>6 DEF Flow
<1>6. ASSUME NEW p, NEW x, NEW i \in n..Len(a), NEW j \in k..Len(b), NEW u,
             Covered(rev, p, u, a, i, b, j), x \in u + 1..rev[p]
      PROVE  \/ \E l \in i - n + 1..Len(v) : v[l] = BlockSet(p, x)
             \/ \E l \in j - k + 1..Len(w) : w[l] = BlockSet(p, x)
  <2>1. CASE \E l \in i + 1..Len(a) : a[l] = BlockSet(p, x)
    <3>1. PICK l \in i + 1..Len(a) : a[l] = BlockSet(p, x)
      BY <2>1
    <3>2. l \in n + 1..Len(a) /\ l - n \in i - n + 1..Len(v)
      BY <1>1
    <3> QED BY <3>1, <3>2, <1>2
  <2>2. CASE \E l \in j + 1..Len(b) : b[l] = BlockSet(p, x)
    <3>1. PICK l \in j + 1..Len(b) : b[l] = BlockSet(p, x)
      BY <2>2
    <3>2. l \in k + 1..Len(b) /\ l - k \in j - k + 1..Len(w)
      BY <1>1
    <3> QED BY <3>1, <3>2, <1>2
  <2> QED BY <2>1, <2>2, <1>6 DEF Covered
<1>7. ASSUME NEW p, NEW u, NEW i \in n..Len(a), NEW j \in k..Len(b), Covered(rev, p, u, a, i, b, j)
      PROVE  Covered(rev, p, u, v, i - n, w, j - k)
  BY <1>6, <1>7 DEF Covered
<1>8. ASSUME Complete(rev, r, a, n, b, k) PROVE Complete(rev, r, v, 0, w, 0)
  <2>1. \A p \in Chunks \ EntrySet : r[p] # None => Covered(rev, p, r[p], v, 0, w, 0)
    <3> SUFFICES ASSUME NEW p \in Chunks \ EntrySet, r[p] # None
                 PROVE  Covered(rev, p, r[p], v, 0, w, 0)
      OBVIOUS
    <3>1. Covered(rev, p, r[p], a, n, b, k)
      BY <1>8 DEF Complete
    <3>2. Covered(rev, p, r[p], v, n - n, w, k - k)
      BY <3>1, <1>1, <1>7
    <3> QED BY <3>2
  <2>2. \A i \in 1..Len(v) : v[i].pos \notin EntrySet => Covered(rev, v[i].pos, v[i].val, v, i, w, 0)
    <3> SUFFICES ASSUME NEW i \in 1..Len(v), v[i].pos \notin EntrySet
                 PROVE  Covered(rev, v[i].pos, v[i].val, v, i, w, 0)
      OBVIOUS
    <3>1. Covered(rev, v[i].pos, v[i].val, a, i + n, b, k)
      BY <1>1, <1>8 DEF Complete
    <3>2. i + n \in n..Len(a) /\ i + n - n = i /\ k - k = 0
      BY <1>1
    <3> QED BY <3>1, <3>2, <1>7
  <2>3. \A i \in 1..Len(w) : w[i] \in Mutations /\ w[i].pos \notin EntrySet =>
          Covered(rev, w[i].pos, w[i].val, v, Len(v), w, i)
    <3> SUFFICES ASSUME NEW i \in 1..Len(w), w[i] \in Mutations, w[i].pos \notin EntrySet
                 PROVE  Covered(rev, w[i].pos, w[i].val, v, Len(v), w, i)
      OBVIOUS
    <3>1. Covered(rev, w[i].pos, w[i].val, a, Len(a), b, i + k)
      BY <1>1, <1>8 DEF Complete
    <3>2. i + k \in k..Len(b) /\ i + k - k = i /\ Len(a) - n = Len(v) /\ Len(a) \in n..Len(a)
      BY <1>1
    <3> QED BY <3>1, <3>2, <1>7
  <2> QED BY <1>2, <2>1, <2>2, <2>3 DEF Complete
<1>9. Ground(ph, rev, b, r, a, n, k) => Ground(ph, rev, w, r, v, 0, 0)
  BY <1>4, <1>5, <1>8 DEF Ground
<1> QED BY <1>3, <1>9 DEF v, w

\* A replica may let go of chunks.
LEMMA LetGo ==
  ASSUME NEW ph, NEW rev, NEW b, NEW a \in Seq(Mutations), NEW r, NEW q,
         \A p \in Chunks : q[p] \in {None, r[p]}, Ground(ph, rev, b, r, a, 0, 0)
  PROVE  Ground(ph, rev, b, q, a, 0, 0)
<1>1. \A i \in 0 + 1..Len(a) : a[i].pos \in Chunks
  BY SetOf, MessageKinds
<1>2. \A m \in Mutations : m.pos \in Chunks
  BY MessageKinds
<1>3. Confined(r, a, 0, b, 0) => Confined(q, a, 0, b, 0)
  BY DEF Confined
<1>4. Complete(rev, r, a, 0, b, 0) => Complete(rev, q, a, 0, b, 0)
  BY DEF Complete
<1>5. Rising(r, a, 0, b, 0) => Rising(q, a, 0, b, 0)
  BY <1>1, <1>2 DEF Rising
<1>6. Flow(rev, r, a, 0, b, 0) => Flow(rev, q, a, 0, b, 0)
  BY <1>5 DEF Flow
<1> QED BY <1>3, <1>4, <1>6 DEF Ground

LEMMA Joined ==
  ASSUME NEW T, NEW u \in Seq(T), NEW v \in Seq(T)
  PROVE  /\ u \o v \in Seq(T) /\ Len(u \o v) = Len(u) + Len(v)
         /\ \A i \in 1..Len(u) : i \in 1..Len(u \o v) /\ (u \o v)[i] = u[i]
         /\ \A i \in 1..Len(v) : Len(u) + i \in 1..Len(u \o v) /\ (u \o v)[Len(u) + i] = v[i]
         /\ \A i \in 1..Len(u \o v) :
              i \in 1..Len(u) \/ (i > Len(u) /\ i - Len(u) \in 1..Len(v) /\ (u \o v)[i] = v[i - Len(u)])
<1>1. Len(u) \in Nat /\ Len(v) \in Nat
  BY LenProperties
<1>2. /\ u \o v \in Seq(T) /\ Len(u \o v) = Len(u) + Len(v)
      /\ \A i \in 1..Len(u) + Len(v) : (u \o v)[i] = IF i <= Len(u) THEN u[i] ELSE v[i - Len(u)]
  BY ConcatProperties
<1> QED BY <1>1, <1>2

LEMMA SeqWithin ==
  ASSUME NEW S, NEW T, S \subseteq T, NEW q \in Seq(S)
  PROVE  q \in Seq(T)
<1>1. Len(q) \in Nat /\ q \in [1..Len(q) -> S]
  BY LenProperties
<1>2. q \in [1..Len(q) -> T]
  BY <1>1
<1> QED BY <1>1, <1>2

\* A guest nothing happens to stays connected as it was.
LEMMA Untouched ==
  ASSUME NEW g, Connected(g), revision' = revision,
         phase'[g] = phase[g], down'[g] = down[g], up'[g] = up[g], client'[g] = client[g],
         replica'[g] = replica[g], inbox'[g] = inbox[g], wants'[g] = wants[g]
  PROVE  Connected(g)'
BY DEF Connected, HalfOf, Quiet, Reported

-----------------------------------------------------------------------------
(* Frames. *)

\* What a frame takes in, and what it leaves.
LEMMA FrameOutcome ==
  ASSUME IInv, NEW g \in Guests, NEW k \in 0..Len(down[g]), NEW here \in Places, Frame(g, k, here)
  PROVE  /\ Connected(g)'
         /\ UNCHANGED <<worldVars, encoderVars, hostVars>>
         /\ pos' = [pos EXCEPT ![g] = here]
         /\ down' = [down EXCEPT ![g] = down'[g]] /\ up' = [up EXCEPT ![g] = up'[g]]
         /\ inbox' = [inbox EXCEPT ![g] = inbox'[g]] /\ replica' = [replica EXCEPT ![g] = replica'[g]]
         /\ wants' = [wants EXCEPT ![g] = wants'[g]] /\ client' = [client EXCEPT ![g] = client'[g]]
         /\ down'[g] \in Seq(Downward) /\ Room(down'[g])
         /\ inbox'[g] \in Seq(Mutations) /\ up'[g] \in Seq(Upward) /\ Room(up'[g])
         /\ replica'[g] \in Replicas /\ wants'[g] \in SUBSET Chunks
         /\ client'[g] \in {"idle", "joining", "receiving", "readySent", "active"}
         /\ \A p \in Chunks : replica[g][p] # None /\ replica'[g][p] # None => replica'[g][p] >= replica[g][p]
<1> DEFINE ph == phase[g]
           b == down[g]
           s == Polled(g)[k]
<1>1. /\ Connected(g) /\ b \in Seq(Downward) /\ up[g] \in Seq(Upward) /\ Room(b) /\ k \in 0..Len(b)
      /\ replica[g] \in Replicas /\ ph \in {"away", "pending", "entering", "ready"}
  BY DEF IInv, TypeOK, GuestOK, Replicas
<1>2. Midway(ph, revision, b, s, 0, k) /\ Since(ph, client[g], replica[g], b, s, 0, k)
  BY <1>1, PolledKeeps DEF Connected
<1>3. PICK n \in Paced(s.inbox) :
        LET shown   == Applied(s.replica, s.inbox)[n]
            waiting == s.wants \ ChunksOf(SubSeq(s.inbox, 1, n))
            landed  == s.client = "receiving" /\ Decoded(shown)
            active  == s.client = "active"
            missing == IF ~active THEN <<>>
                       ELSE Only(View[here], {p \in Chunks \ waiting : shown[p] = None})
            asks    == [i \in 1..Len(missing) |-> RequestChunk(missing[i])]
        IN
        /\ client[g] # "idle" /\ (here = pos[g] \/ client[g] = "active")
        /\ pos' = [pos EXCEPT ![g] = here]
        /\ down' = [down EXCEPT ![g] = SubSeq(@, k + 1, Len(@))]
        /\ inbox' = [inbox EXCEPT ![g] = SubSeq(s.inbox, n + 1, Len(s.inbox))]
        /\ replica' = [replica EXCEPT ![g] =
                         [p \in Chunks |-> IF active /\ p \notin Keep[here] THEN None ELSE shown[p]]]
        /\ wants' = [wants EXCEPT ![g] = waiting \cup ToSet(missing)]
        /\ client' = [client EXCEPT ![g] = IF landed THEN "readySent" ELSE s.client]
        /\ up' = [up EXCEPT ![g] = @ \o (IF landed THEN <<EntryReady>> ELSE <<>>) \o asks]
        /\ Room(up'[g])
        /\ UNCHANGED <<worldVars, encoderVars, hostVars>>
  <2> DEFINE Ready(x, y)   == x.client = "receiving" /\ Decoded(y)
             Active(x)     == x.client = "active"
             Missing(x, y, z) == IF ~Active(x) THEN <<>>
                                 ELSE Only(View[here], {p \in Chunks \ z : y[p] = None})
             Asks(x, y, z) == [i \in 1..Len(Missing(x, y, z)) |-> RequestChunk(Missing(x, y, z)[i])]
             Body(x, n, y, z) ==
               /\ client[g] # "idle" /\ (here = pos[g] \/ client[g] = "active")
               /\ pos' = [pos EXCEPT ![g] = here]
               /\ down' = [down EXCEPT ![g] = SubSeq(@, k + 1, Len(@))]
               /\ inbox' = [inbox EXCEPT ![g] = SubSeq(x.inbox, n + 1, Len(x.inbox))]
               /\ replica' = [replica EXCEPT ![g] =
                                [p \in Chunks |-> IF Active(x) /\ p \notin Keep[here] THEN None ELSE y[p]]]
               /\ wants' = [wants EXCEPT ![g] = z \cup ToSet(Missing(x, y, z))]
               /\ client' = [client EXCEPT ![g] = IF Ready(x, y) THEN "readySent" ELSE x.client]
               /\ up' = [up EXCEPT ![g] = @ \o (IF Ready(x, y) THEN <<EntryReady>> ELSE <<>>) \o Asks(x, y, z)]
               /\ Room(up'[g])
               /\ UNCHANGED <<worldVars, encoderVars, hostVars>>
  <2>1. \E x \in {Polled(g)[k]} : \E n \in Paced(x.inbox) : \E y \in {Applied(x.replica, x.inbox)[n]} :
        \E z \in {x.wants \ ChunksOf(SubSeq(x.inbox, 1, n))} : Body(x, n, y, z)
    BY DEF Frame
  <2>2. \E n \in Paced(s.inbox) :
          Body(s, n, Applied(s.replica, s.inbox)[n], s.wants \ ChunksOf(SubSeq(s.inbox, 1, n)))
    <3> HIDE DEF Body
    <3> QED BY <2>1
  <2> QED BY <2>2
<1> DEFINE a       == s.inbox
           shown   == Applied(s.replica, a)[n]
           waiting == s.wants \ ChunksOf(SubSeq(a, 1, n))
           landed  == s.client = "receiving" /\ Decoded(shown)
           active  == s.client = "active"
           missing == IF ~active THEN <<>>
                      ELSE Only(View[here], {p \in Chunks \ waiting : shown[p] = None})
           asks    == [i \in 1..Len(missing) |-> RequestChunk(missing[i])]
           told    == IF landed THEN <<EntryReady>> ELSE <<>>
           nowHas  == [p \in Chunks |-> IF active /\ p \notin Keep[here] THEN None ELSE shown[p]]
           nowAt   == IF landed THEN "readySent" ELSE s.client
           t       == With(s, shown)
<1>4. g \in DOMAIN down /\ g \in DOMAIN inbox /\ g \in DOMAIN replica /\ g \in DOMAIN wants
      /\ g \in DOMAIN client /\ g \in DOMAIN up
  BY DEF IInv, TypeOK
<1>5. /\ down'[g] = SubSeq(b, k + 1, Len(b)) /\ inbox'[g] = SubSeq(a, n + 1, Len(a))
      /\ replica'[g] = nowHas /\ wants'[g] = waiting \cup ToSet(missing) /\ client'[g] = nowAt
      /\ up'[g] = up[g] \o told \o asks
  <2> HIDE DEF s
  <2> QED BY <1>3, <1>4
<1>6. client[g] # "idle" /\ Room(up'[g]) /\ phase' = phase /\ revision' = revision
  BY <1>3 DEF hostVars, encoderVars
<1>7. n \in 0..Len(a) /\ s \in Half /\ a \in Seq(Mutations) /\ s.wants \in SUBSET Chunks
  BY <1>2 DEF Paced, Midway, Half
<1>8. Midway(ph, revision, b, t, n, k) /\ Since(ph, client[g], replica[g], b, t, n, k)
  BY <1>1, <1>2, <1>7, AppliedKeeps
<1>9. t.client = s.client /\ t.replica = shown /\ t.inbox = a /\ shown \in Replicas
  <2>1. t.client = s.client /\ t.replica = shown /\ t.inbox = a
    BY <1>7 DEF With, Half
  <2> QED BY <2>1, <1>8 DEF Midway, Half
<1>10. missing \in Seq(Chunks)
  <2>1. View[here] \in Seq(Chunks) /\ <<>> \in Seq(Chunks)
    BY StreamingAssumption
  <2>2. \A S : Only(View[here], S) \in Seq(Chunks)
    <3> TAKE S
    <3>1. Only(View[here], S) \in Seq(Chunks \cap S)
      BY <2>1, OnlyKeeps
    <3> QED BY <3>1, SeqWithin
  <2> QED BY <2>1, <2>2
<1>11. asks \in Seq(Upward) /\ Len(asks) = Len(missing) /\ \A i \in 1..Len(asks) : asks[i] # EntryReady
  <2> HIDE DEF missing
  <2>1. Len(missing) \in Nat /\ \A i \in 1..Len(missing) : missing[i] \in Chunks
    BY <1>10, SetOf
  <2>2. \A p \in Chunks : RequestChunk(p) \in Upward /\ RequestChunk(p) # EntryReady
    <3>1. \A p \in Chunks : RequestChunk(p) \in Upward /\ RequestChunk(p).kind = "RequestChunk"
      BY DEF RequestChunk, Upward
    <3>2. EntryReady.kind = "EntryReady"
      BY DEF EntryReady
    <3> QED BY <3>1, <3>2
  <2>3. asks \in [1..Len(missing) -> Upward]
    BY <2>1, <2>2
  <2>4. asks \in Seq(Upward) /\ Len(asks) = Len(missing)
    <3>1. \A z \in Nat : \A f \in [1..z -> Upward] : f \in Seq(Upward) /\ Len(f) = z
      OBVIOUS
    <3> HIDE DEF asks
    <3> QED BY <2>1, <2>3, <3>1
  <2> QED BY <2>1, <2>2, <2>4
<1>12. told \in Seq(Upward) /\ (landed => told = <<EntryReady>>) /\ (~landed => told = <<>>)
  <2>1. EntryReady \in Upward
    BY DEF Upward
  <2>2. <<EntryReady>> \in Seq(Upward) /\ <<>> \in Seq(Upward)
    BY <2>1
  <2> QED BY <2>2
<1> HIDE DEF s, a, shown, waiting, missing, asks, t
<1>13. nowHas \in Replicas /\ (~active => nowHas = shown) /\ \A p \in Chunks : nowHas[p] \in {None, shown[p]}
  BY <1>9 DEF Replicas
<1>14. nowAt \in {"idle", "joining", "receiving", "readySent", "active"}
  BY <1>7 DEF Half
<1>15. waiting \cup ToSet(missing) \in SUBSET Chunks
  <2>1. ToSet(missing) = {missing[i] : i \in 1..Len(missing)} /\ \A i \in 1..Len(missing) : missing[i] \in Chunks
    BY <1>10, SetOf
  <2> QED BY <1>7, <2>1 DEF waiting
<1>16. up'[g] \in Seq(Upward)
  BY <1>1, <1>5, <1>11, <1>12, Joined
<1>17. /\ down'[g] \in Seq(Downward) /\ Len(down'[g]) = Len(b) - k /\ Len(b) \in Nat
       /\ inbox'[g] \in Seq(Mutations) /\ Len(inbox'[g]) = Len(a) - n /\ Len(a) \in Nat
  BY <1>1, <1>5, <1>7, Remains, LenProperties
<1>18. Room(down'[g])
  BY <1>1, <1>17, StreamingAssumption DEF Room
<1>19. /\ Handshake(ph, s.client, b, k) /\ Grounded(s.client, shown) /\ Ground(ph, revision, b, shown, a, n, k)
  BY <1>8, <1>9 DEF Midway
<1>20. /\ Handshake(ph, s.client, down'[g], 0) /\ Ground(ph, revision, down'[g], shown, inbox'[g], 0, 0)
  <2> DEFINE v == SubSeq(a, n + 1, Len(a))
             w == SubSeq(b, k + 1, Len(b))
  <2>1. /\ Handshake(ph, s.client, b, k) => Handshake(ph, s.client, w, 0)
        /\ Ground(ph, revision, b, shown, a, n, k) => Ground(ph, revision, w, shown, v, 0, 0)
    BY <1>1, <1>7, Forgotten
  <2>2. v = inbox'[g] /\ w = down'[g]
    BY <1>5
  <2> HIDE DEF v, w
  <2> QED BY <2>1, <2>2, <1>19
<1>21. landed => ph = "entering" /\ \A i \in 1..Len(down'[g]) : down'[g][i] # Manifest
  BY <1>1, <1>20 DEF Handshake
<1>22. Handshake(ph, nowAt, down'[g], 0)
  BY <1>20, <1>21 DEF Handshake
<1>23. Ground(ph, revision, down'[g], nowHas, inbox'[g], 0, 0)
  BY <1>13, <1>17, <1>20, LetGo
<1>24. Grounded(nowAt, nowHas)
  BY <1>13, <1>19 DEF Grounded, Decoded, EntrySet
<1>25. Midway(phase[g], revision, down[g], HalfOf(g), 0, 0)'
  <2>1. HalfOf(g)' = [client |-> nowAt, replica |-> nowHas, inbox |-> inbox'[g], wants |-> wants'[g]]
    BY <1>5 DEF HalfOf
  <2> DEFINE h == HalfOf(g)'
  <2> HIDE DEF h, nowAt, nowHas
  <2>2. h \in Half /\ h.client = nowAt /\ h.replica = nowHas /\ h.inbox = inbox'[g]
    <3>1. h = [client |-> nowAt, replica |-> nowHas, inbox |-> inbox'[g], wants |-> wants'[g]]
      BY <2>1 DEF h
    <3> QED BY <3>1, <1>5, <1>13, <1>14, <1>15, <1>17 DEF Half
  <2>3. 0 \in 0..Len(h.inbox) /\ 0 \in 0..Len(down'[g])
    BY <2>2, <1>17
  <2>4. Midway(ph, revision, down'[g], h, 0, 0)
    BY <2>2, <2>3, <1>22, <1>23, <1>24 DEF Midway
  <2> QED BY <2>4, <1>6 DEF h
<1>26. Quiet(g)'
  <2> SUFFICES ASSUME ph \in {"away", "pending"}
               PROVE  down'[g] = <<>> /\ up'[g] = <<>> /\ inbox'[g] = <<>> /\ replica'[g] = Nowhere
    BY <1>6 DEF Quiet
  <2>1. b = <<>> /\ up[g] = <<>> /\ inbox[g] = <<>> /\ replica[g] = Nowhere
    BY <1>1 DEF Connected, Quiet
  <2>2. k = 0 /\ s = HalfOf(g)
    <3>1. k = 0
      BY <2>1, <1>1
    <3>2. HalfOf(g) \in Half
      BY <1>1 DEF Connected, Midway
    <3> QED BY <3>1, <3>2, <1>1, PolledRuns DEF s
  <2>3. a = <<>> /\ s.replica = Nowhere /\ s.client = client[g]
    BY <2>1, <2>2 DEF a, HalfOf
  <2>4. n = 0 /\ shown = Nowhere
    <3>1. n = 0
      BY <2>3, <1>7
    <3>2. s.replica \in Replicas
      BY <1>7 DEF Half
    <3> QED BY <3>1, <3>2, <1>7, <2>3, AppliedRuns DEF shown
  <2>5. s.client = "joining"
    <3>1. Handshake(ph, client[g], b, 0)
      BY <1>1 DEF Connected, Midway, HalfOf
    <3> QED BY <3>1, <2>3, <1>6 DEF Handshake
  <2>6. ~landed /\ ~active
    BY <2>5
  <2>7. missing = <<>>
    BY <2>6 DEF missing
  <2>8. asks = <<>> /\ told = <<>> /\ nowHas = Nowhere
    BY <2>4, <2>6, <2>7, <1>11, <1>12, <1>13, EmptySeq
  <2>9. up'[g] = <<>>
    BY <2>1, <2>8, <1>5
  <2>10. Len(down'[g]) = 0 /\ Len(inbox'[g]) = 0
    BY <2>1, <2>2, <2>3, <2>4, <1>17
  <2> QED BY <2>8, <2>9, <2>10, <1>5, <1>17, EmptySeq
<1>27. Reported(g)'
  <2> DEFINE u == up[g]
             w == u \o told
             z == w \o asks
  <2>1. up'[g] = z /\ w \in Seq(Upward) /\ z \in Seq(Upward)
    BY <1>1, <1>5, <1>11, <1>12, Joined
  <2>2. /\ Len(u) \in Nat /\ Len(w) = Len(u) + Len(told)
        /\ \A i \in 1..Len(z) : z[i] = EntryReady => i \in 1..Len(w) /\ w[i] = EntryReady
        /\ \A i \in 1..Len(w) : (i \in 1..Len(u) /\ w[i] = u[i]) \/ i > Len(u)
    <3>1. u \in Seq(Upward) /\ Len(u) \in Nat
      BY <1>1, LenProperties
    <3>2. \A i \in 1..Len(z) : \/ (i \in 1..Len(w) /\ z[i] = w[i])
                             \/ (i - Len(w) \in 1..Len(asks) /\ z[i] = asks[i - Len(w)])
      <4> HIDE DEF w
      <4>1. \A i \in 1..Len(w) : (w \o asks)[i] = w[i]
        BY <2>1, <1>11, Joined
      <4>2. \A i \in 1..Len(w \o asks) :
              i \in 1..Len(w) \/ (i > Len(w) /\ i - Len(w) \in 1..Len(asks)
                                 /\ (w \o asks)[i] = asks[i - Len(w)])
        BY <2>1, <1>11, Joined
      <4> HIDE DEF asks
      <4> TAKE i \in 1..Len(z)
      <4>3. CASE i \in 1..Len(w)
        BY <4>1, <4>3
      <4>4. CASE i - Len(w) \in 1..Len(asks) /\ z[i] = asks[i - Len(w)]
        BY <4>4
      <4> QED BY <4>2, <4>3, <4>4
    <3>3. /\ Len(w) = Len(u) + Len(told)
          /\ \A i \in 1..Len(w) : (i \in 1..Len(u) /\ w[i] = u[i]) \/ i > Len(u)
      <4> HIDE DEF told, u
      <4> QED BY <3>1, <1>12, Joined
    <3> HIDE DEF u, w, z
    <3> QED BY <3>1, <3>2, <3>3, <1>11
  <2>3. Reported(g)
    BY <1>1 DEF Connected
  <2> HIDE DEF z, w
  <2>4. CASE landed
    <3>1. \A i \in 1..Len(u) : u[i] # EntryReady
      BY <2>3, <2>4, <1>8, <1>9 DEF Since, Reported
    <3>2. Len(told) = 1
      BY <2>4, <1>12
    <3> HIDE DEF told, landed, u
    <3>3. \A i \in 1..Len(z) : z[i] = EntryReady => i = Len(u) + 1
      BY <2>2, <3>1, <3>2
    <3>4. phase'[g] = "entering" /\ client'[g] = "readySent"
      BY <2>4, <1>5, <1>6, <1>21
    <3> QED BY <2>1, <3>3, <3>4 DEF Reported
  <2>5. CASE ~landed
    <3>1. w = u
      <4>1. told = <<>> /\ u \in Seq(Upward)
        BY <2>5, <1>1, <1>12
      <4> HIDE DEF told, u
      <4> QED BY <4>1, ConcatEmptySeq DEF w
    <3>2. \A i \in 1..Len(z) : z[i] = EntryReady =>
            i \in 1..Len(u) /\ u[i] = EntryReady /\ ph = "entering" /\ client[g] = "readySent"
      BY <2>2, <2>3, <3>1 DEF Reported
    <3>3. ph = "entering" /\ client[g] = "readySent" => client'[g] = "readySent"
      BY <2>5, <1>5, <1>8, <1>9 DEF Since
    <3>4. \A i, j \in 1..Len(u) : u[i] = EntryReady /\ u[j] = EntryReady => j = i
      BY <2>3 DEF Reported
    <3> QED BY <2>1, <3>2, <3>3, <3>4, <1>6 DEF Reported
  <2> QED BY <2>4, <2>5
<1>28. \A p \in Chunks : replica[g][p] # None /\ replica'[g][p] # None => replica'[g][p] >= replica[g][p]
  <2>1. \A p \in Chunks : replica[g][p] # None /\ shown[p] # None => replica[g][p] <= shown[p]
    BY <1>8, <1>9 DEF Since
  <2>2. \A p \in Chunks : replica'[g][p] # None => replica'[g][p] = shown[p]
    BY <1>5, <1>13
  <2>3. \A p \in Chunks : replica[g][p] # None /\ shown[p] # None =>
          replica[g][p] \in Nat /\ shown[p] \in Nat
    BY <1>1, <1>9, StreamingAssumption DEF Replicas
  <2> QED BY <2>1, <2>2, <2>3
<1>29. Connected(g)'
  BY <1>25, <1>26, <1>27 DEF Connected
<1>30. /\ pos' = [pos EXCEPT ![g] = here]
       /\ down' = [down EXCEPT ![g] = down'[g]] /\ up' = [up EXCEPT ![g] = up'[g]]
       /\ inbox' = [inbox EXCEPT ![g] = inbox'[g]] /\ replica' = [replica EXCEPT ![g] = replica'[g]]
       /\ wants' = [wants EXCEPT ![g] = wants'[g]] /\ client' = [client EXCEPT ![g] = client'[g]]
  BY <1>3, <1>4
<1>31. UNCHANGED <<worldVars, encoderVars, hostVars>>
  BY <1>3
<1> QED BY <1>5, <1>6, <1>13, <1>14, <1>15, <1>16, <1>17, <1>18, <1>28, <1>29, <1>30, <1>31

LEMMA StillWorld ==
  ASSUME WorldOK, EncoderOK, PayloadsCurrent, UNCHANGED <<worldVars, encoderVars>>
  PROVE  WorldOK' /\ EncoderOK' /\ PayloadsCurrent'
<1>1. /\ content' = content /\ editLog' = editLog /\ edits' = edits /\ revision' = revision
      /\ encoding' = encoding /\ cache' = cache
  BY DEF worldVars, encoderVars
<1>2. WorldOK'
  BY <1>1 DEF WorldOK, Logged
<1>3. EncoderOK'
  BY <1>1 DEF EncoderOK
<1>4. PayloadsCurrent'
  BY <1>1 DEF PayloadsCurrent
<1> QED BY <1>2, <1>3, <1>4

LEMMA FrameKeeps ==
  ASSUME IInv, NEW g \in Guests, NEW k \in 0..Len(down[g]), NEW here \in Places, Frame(g, k, here)
  PROVE  IInv'
<1>1. /\ UNCHANGED <<worldVars, encoderVars, hostVars>>
      /\ pos' = [pos EXCEPT ![g] = here]
      /\ down' = [down EXCEPT ![g] = down'[g]] /\ up' = [up EXCEPT ![g] = up'[g]]
      /\ inbox' = [inbox EXCEPT ![g] = inbox'[g]] /\ replica' = [replica EXCEPT ![g] = replica'[g]]
      /\ wants' = [wants EXCEPT ![g] = wants'[g]] /\ client' = [client EXCEPT ![g] = client'[g]]
  BY FrameOutcome
<1>2. TypeOK
  BY DEF IInv
<1>3. \A h \in Guests : h # g =>
        /\ down'[h] = down[h] /\ inbox'[h] = inbox[h] /\ replica'[h] = replica[h]
        /\ wants'[h] = wants[h] /\ client'[h] = client[h] /\ up'[h] = up[h]
        /\ phase'[h] = phase[h] /\ revision' = revision
  BY <1>1, <1>2 DEF TypeOK, hostVars, encoderVars
<1>4. TypeOK'
  <2>1. /\ down'[g] \in Seq(Downward) /\ Room(down'[g])
        /\ inbox'[g] \in Seq(Mutations) /\ up'[g] \in Seq(Upward) /\ Room(up'[g])
        /\ replica'[g] \in Replicas /\ wants'[g] \in SUBSET Chunks
        /\ client'[g] \in {"idle", "joining", "receiving", "readySent", "active"}
    BY FrameOutcome
  <2>2. down' \in [Guests -> Seq(Downward)]
    BY <1>1, <1>2, <2>1 DEF TypeOK
  <2>3. inbox' \in [Guests -> Seq(Mutations)]
    BY <1>1, <1>2, <2>1 DEF TypeOK
  <2>4. up' \in [Guests -> Seq(Upward)]
    BY <1>1, <1>2, <2>1 DEF TypeOK
  <2>5. replica' \in [Guests -> Replicas] /\ wants' \in [Guests -> SUBSET Chunks]
    BY <1>1, <1>2, <2>1 DEF TypeOK, Replicas
  <2>6. /\ client' \in [Guests -> {"idle", "joining", "receiving", "readySent", "active"}]
        /\ pos' \in [Guests -> Places]
    BY <1>1, <1>2, <2>1 DEF TypeOK
  <2>7. \A h \in Guests : Room(down'[h]) /\ Room(up'[h])
    BY <1>2, <1>3, <2>1 DEF TypeOK
  <2> QED BY <1>1, <1>2, <2>2, <2>3, <2>4, <2>5, <2>6, <2>7
      DEF TypeOK, Replicas, Room, worldVars, encoderVars, hostVars
<1>5. WorldOK' /\ EncoderOK' /\ PayloadsCurrent'
  BY <1>1, StillWorld DEF IInv
<1>6. GuestOK'
  <2>1. \A h \in Guests : h # g => Connected(h)'
    BY <1>1, <1>3, Untouched DEF IInv, GuestOK
  <2>2. Connected(g)'
    BY FrameOutcome
  <2> QED BY <2>1, <2>2 DEF GuestOK
<1> QED BY <1>4, <1>5, <1>6 DEF IInv

-----------------------------------------------------------------------------
(* More on the stream. *)

\* e continues a stream: it takes chunks from the old revisions to the new, in order ...
Continues(old, new, e) ==
  /\ \A i \in 1..Len(e) : e[i] \in Mutations => old[e[i].pos] <= e[i].val /\ e[i].val <= new[e[i].pos]
  /\ \A i, j \in 1..Len(e) :
       i < j /\ e[i] \in Mutations /\ e[j] \in Mutations /\ e[i].pos = e[j].pos => e[i].val <= e[j].val

\* ... and every edit is there, at its place.
Fills(old, new, e) ==
  /\ \A p \in Chunks, x \in Nat : old[p] < x /\ x <= new[p] =>
       \E l \in 1..Len(e) : e[l] = BlockSet(p, x)
  /\ \A i \in 1..Len(e), x \in Nat : e[i] \in Mutations /\ e[i].val < x /\ x <= new[e[i].pos] =>
       \E l \in i + 1..Len(e) : e[l] = BlockSet(e[i].pos, x)

LEMMA FlowContinues ==
  ASSUME NEW old \in [Chunks -> Nat], NEW new \in [Chunks -> Nat], \A p \in Chunks : old[p] <= new[p],
         NEW r \in Replicas, NEW a \in Seq(Mutations), NEW b \in Seq(Downward), NEW e \in Seq(Downward),
         Continues(old, new, e), Flow(old, r, a, 0, b, 0)
  PROVE  Flow(new, r, a, 0, b \o e, 0)
<1> DEFINE w == b \o e
<1>1. /\ Len(w) \in Nat /\ Len(b) \in Nat /\ Len(a) \in Nat /\ 0 + 1 = 1
      /\ \A i \in 1..Len(w) : \/ i \in 1..Len(b) /\ w[i] = b[i]
                              \/ i > Len(b) /\ i - Len(b) \in 1..Len(e) /\ w[i] = e[i - Len(b)]
  <2>1. Len(b) \in Nat /\ Len(e) \in Nat /\ Len(a) \in Nat
    BY LenProperties
  <2>2. /\ Len(w) = Len(b) + Len(e)
        /\ \A i \in 1..Len(b) : i \in 1..Len(w) /\ w[i] = b[i]
        /\ \A i \in 1..Len(w) :
             i \in 1..Len(b) \/ (i > Len(b) /\ i - Len(b) \in 1..Len(e) /\ w[i] = e[i - Len(b)])
    BY Joined
  <2> HIDE DEF w
  <2> QED BY <2>1, <2>2
<1> HIDE DEF w
<1>2. \A m \in Mutations : m.pos \in Chunks /\ m.val \in Nat /\ old[m.pos] \in Nat /\ new[m.pos] \in Nat
  BY MessageKinds
<1>3. \A i \in 1..Len(a) : a[i] \in Mutations
  BY SetOf
<1>4. \A p \in Chunks : r[p] # None => r[p] \in Nat
  BY StreamingAssumption DEF Replicas
<1>5. \A p \in Chunks : r[p] # None => r[p] <= new[p]
  BY <1>4 DEF Flow
<1>6. \A i \in 1..Len(a) : a[i].val <= new[a[i].pos]
  <2> TAKE i \in 1..Len(a)
  <2>1. a[i].val <= old[a[i].pos]
    BY <1>1 DEF Flow
  <2> QED BY <2>1, <1>2, <1>3
<1>7. \A i \in 1..Len(w) : w[i] \in Mutations =>
        /\ w[i].val <= new[w[i].pos]
        /\ r[w[i].pos] # None => r[w[i].pos] <= w[i].val
        /\ \A j \in 1..Len(a) : a[j].pos = w[i].pos => a[j].val <= w[i].val
  <2> SUFFICES ASSUME NEW i \in 1..Len(w), w[i] \in Mutations
               PROVE  /\ w[i].val <= new[w[i].pos]
                      /\ r[w[i].pos] # None => r[w[i].pos] <= w[i].val
                      /\ \A j \in 1..Len(a) : a[j].pos = w[i].pos => a[j].val <= w[i].val
    OBVIOUS
  <2> DEFINE m == w[i]
  <2>1. m.pos \in Chunks /\ m.val \in Nat /\ old[m.pos] \in Nat /\ new[m.pos] \in Nat /\ old[m.pos] <= new[m.pos]
    BY <1>2
  <2>2. CASE i \in 1..Len(b) /\ m = b[i]
    <3>1. m.val <= old[m.pos] /\ (r[m.pos] # None => r[m.pos] <= m.val)
      BY <2>2, <1>1 DEF Flow, Rising
    <3>2. \A j \in 1..Len(a) : a[j].pos = m.pos => a[j].val <= m.val
      BY <2>2, <1>1 DEF Flow
    <3> HIDE DEF m
    <3> QED BY <2>1, <3>1, <3>2 DEF m
  <2>3. CASE i - Len(b) \in 1..Len(e) /\ m = e[i - Len(b)]
    <3>1. old[m.pos] <= m.val /\ m.val <= new[m.pos]
      BY <2>3 DEF Continues
    <3>2. r[m.pos] # None => r[m.pos] \in Nat /\ r[m.pos] <= old[m.pos]
      BY <2>1, <1>4 DEF Flow
    <3>3. \A j \in 1..Len(a) : a[j].val \in Nat /\ a[j].val <= old[a[j].pos]
      BY <1>1, <1>2, <1>3 DEF Flow
    <3> HIDE DEF m
    <3> QED BY <2>1, <3>1, <3>2, <3>3 DEF m
  <2> QED BY <2>2, <2>3, <1>1
<1>8. \A i, j \in 1..Len(w) :
        i < j /\ w[i] \in Mutations /\ w[j] \in Mutations /\ w[i].pos = w[j].pos => w[i].val <= w[j].val
  <2> SUFFICES ASSUME NEW i \in 1..Len(w), NEW j \in 1..Len(w), i < j,
                      w[i] \in Mutations, w[j] \in Mutations, w[i].pos = w[j].pos
               PROVE  w[i].val <= w[j].val
    OBVIOUS
  <2>1. CASE j \in 1..Len(b) /\ w[j] = b[j]
    <3>1. i \in 1..Len(b) /\ w[i] = b[i]
      BY <2>1, <1>1
    <3>2. \A x, y \in 1..Len(b) :
            x < y /\ b[x] \in Mutations /\ b[y] \in Mutations /\ b[x].pos = b[y].pos => b[x].val <= b[y].val
      BY <1>1 DEF Flow
    <3> QED BY <2>1, <3>1, <3>2
  <2>2. CASE j - Len(b) \in 1..Len(e) /\ w[j] = e[j - Len(b)]
    <3>1. CASE i \in 1..Len(b) /\ w[i] = b[i]
      <4>1. w[i].val <= old[w[i].pos]
        BY <3>1, <1>1 DEF Flow
      <4>2. old[w[j].pos] <= w[j].val
        BY <2>2 DEF Continues
      <4> QED BY <4>1, <4>2, <1>2
    <3>2. CASE i - Len(b) \in 1..Len(e) /\ w[i] = e[i - Len(b)]
      <4>1. i - Len(b) < j - Len(b)
        BY <1>1
      <4> QED BY <2>2, <3>2, <4>1 DEF Continues
    <3> QED BY <3>1, <3>2, <1>1
  <2> QED BY <2>1, <2>2, <1>1
<1>9. Rising(r, a, 0, w, 0)
  BY <1>1, <1>7 DEF Flow, Rising
<1>10. \A i, j \in 1..Len(a) : i < j /\ a[i].pos = a[j].pos => a[i].val <= a[j].val
  BY <1>1 DEF Flow
<1>11. Flow(new, r, a, 0, w, 0)
  BY <1>1, <1>5, <1>6, <1>7, <1>8, <1>9, <1>10 DEF Flow
<1> QED BY <1>11 DEF w

LEMMA GroundContinues ==
  ASSUME NEW ph, NEW old \in [Chunks -> Nat], NEW new \in [Chunks -> Nat], \A p \in Chunks : old[p] <= new[p],
         NEW r \in Replicas, NEW a \in Seq(Mutations), NEW b \in Seq(Downward), NEW e \in Seq(Downward),
         Continues(old, new, e), Ground(ph, old, b, r, a, 0, 0),
         ph = "ready" => Fills(old, new, e),
         ph # "ready" => \A i \in 1..Len(e) : e[i] \in Mutations => e[i].pos \in EntrySet
  PROVE  Ground(ph, new, b \o e, r, a, 0, 0)
<1> DEFINE w == b \o e
<1>1. /\ Len(w) \in Nat /\ Len(b) \in Nat /\ Len(a) \in Nat /\ Len(e) \in Nat /\ 0 + 1 = 1
      /\ \A i \in 1..Len(b) : i \in 1..Len(w) /\ w[i] = b[i]
      /\ \A i \in 1..Len(e) : Len(b) + i \in 1..Len(w) /\ w[Len(b) + i] = e[i]
      /\ \A i \in 1..Len(w) :
           i \in 1..Len(b) \/ (i > Len(b) /\ i - Len(b) \in 1..Len(e) /\ w[i] = e[i - Len(b)])
  <2>1. Len(b) \in Nat /\ Len(e) \in Nat /\ Len(a) \in Nat
    BY LenProperties
  <2>2. /\ Len(w) = Len(b) + Len(e)
        /\ \A i \in 1..Len(b) : i \in 1..Len(w) /\ w[i] = b[i]
        /\ \A i \in 1..Len(e) : Len(b) + i \in 1..Len(w) /\ w[Len(b) + i] = e[i]
        /\ \A i \in 1..Len(w) :
             i \in 1..Len(b) \/ (i > Len(b) /\ i - Len(b) \in 1..Len(e) /\ w[i] = e[i - Len(b)])
    BY Joined
  <2> HIDE DEF w
  <2> QED BY <2>1, <2>2
<1> HIDE DEF w
<1>2. Flow(new, r, a, 0, w, 0)
  BY FlowContinues DEF Ground, w
<1>3. ASSUME ph # "ready" PROVE Confined(r, a, 0, w, 0)
  <2>1. Confined(r, a, 0, b, 0)
    BY <1>3 DEF Ground
  <2>2. \A i \in 1..Len(w) : w[i] \in Mutations => w[i].pos \in EntrySet
    BY <1>1, <1>3, <2>1 DEF Confined
  <2> QED BY <1>1, <2>1, <2>2 DEF Confined
<1>4. ASSUME ph = "ready" PROVE Complete(new, r, a, 0, w, 0)
  <2>1. Complete(old, r, a, 0, b, 0) /\ Fills(old, new, e)
    BY <1>4 DEF Ground
  <2>2. ASSUME NEW p \in Chunks, NEW v \in Nat, NEW i \in Nat, NEW j \in 0..Len(b), Covered(old, p, v, a, i, b, j)
        PROVE  Covered(new, p, v, a, i, w, j)
    <3> SUFFICES ASSUME NEW x \in v + 1..new[p]
                 PROVE  \/ \E l \in i + 1..Len(a) : a[l] = BlockSet(p, x)
                        \/ \E l \in j + 1..Len(w) : w[l] = BlockSet(p, x)
      BY DEF Covered
    <3>1. CASE x <= old[p]
      <4>1. \/ \E l \in i + 1..Len(a) : a[l] = BlockSet(p, x)
            \/ \E l \in j + 1..Len(b) : b[l] = BlockSet(p, x)
        <5>1. x \in v + 1..old[p]
          BY <3>1
        <5> QED BY <2>2, <5>1 DEF Covered
      <4>2. \A l \in j + 1..Len(b) : l \in j + 1..Len(w) /\ w[l] = b[l]
        BY <1>1
      <4> QED BY <4>1, <4>2
    <3>2. CASE ~(x <= old[p])
      <4>1. x \in Nat /\ old[p] < x /\ x <= new[p]
        BY <3>2
      <4>2. PICK l \in 1..Len(e) : e[l] = BlockSet(p, x)
        BY <2>1, <4>1 DEF Fills
      <4>3. Len(b) + l \in j + 1..Len(w) /\ w[Len(b) + l] = BlockSet(p, x)
        BY <4>2, <1>1
      <4> QED BY <4>3
    <3> QED BY <3>1, <3>2
  <2>3. ASSUME NEW i \in 1..Len(e), e[i] \in Mutations
        PROVE  Covered(new, e[i].pos, e[i].val, a, Len(a), w, Len(b) + i)
    <3> DEFINE m == e[i]
    <3>1. m.val \in Nat /\ m.pos \in Chunks
      BY <2>3, MessageKinds
    <3> SUFFICES ASSUME NEW x \in m.val + 1..new[m.pos]
                 PROVE  \E l \in Len(b) + i + 1..Len(w) : w[l] = BlockSet(m.pos, x)
      BY DEF Covered
    <3>2. x \in Nat /\ m.val < x /\ x <= new[m.pos]
      BY <3>1
    <3>3. PICK l \in i + 1..Len(e) : e[l] = BlockSet(m.pos, x)
      BY <2>1, <2>3, <3>2 DEF Fills
    <3>4. Len(b) + l \in Len(b) + i + 1..Len(w) /\ w[Len(b) + l] = BlockSet(m.pos, x)
      BY <3>3, <1>1
    <3> QED BY <3>4
  <2>4. \A p \in Chunks \ EntrySet : r[p] # None => Covered(new, p, r[p], a, 0, w, 0)
    <3>1. \A p \in Chunks : r[p] # None => r[p] \in Nat
      BY StreamingAssumption DEF Replicas
    <3> QED BY <2>1, <2>2, <3>1, <1>1 DEF Complete
  <2>5. \A i \in 1..Len(a) : a[i].pos \notin EntrySet => Covered(new, a[i].pos, a[i].val, a, i, w, 0)
    <3>1. \A i \in 1..Len(a) : a[i].pos \in Chunks /\ a[i].val \in Nat
      BY SetOf, MessageKinds
    <3> QED BY <2>1, <2>2, <3>1, <1>1 DEF Complete
  <2>6. \A i \in 1..Len(w) : w[i] \in Mutations /\ w[i].pos \notin EntrySet =>
          Covered(new, w[i].pos, w[i].val, a, Len(a), w, i)
    <3> SUFFICES ASSUME NEW i \in 1..Len(w), w[i] \in Mutations, w[i].pos \notin EntrySet
                 PROVE  Covered(new, w[i].pos, w[i].val, a, Len(a), w, i)
      OBVIOUS
    <3>1. CASE i \in 1..Len(b) /\ w[i] = b[i]
      <4>1. w[i].pos \in Chunks /\ w[i].val \in Nat
        BY MessageKinds
      <4>2. Covered(old, w[i].pos, w[i].val, a, Len(a), b, i)
        BY <2>1, <3>1, <1>1 DEF Complete
      <4> QED BY <4>1, <4>2, <3>1, <2>2, <1>1
    <3>2. CASE i - Len(b) \in 1..Len(e) /\ w[i] = e[i - Len(b)]
      <4>1. Len(b) + (i - Len(b)) = i
        BY <1>1
      <4> QED BY <3>2, <4>1, <2>3
    <3> QED BY <3>1, <3>2, <1>1
  <2> QED BY <2>4, <2>5, <2>6, <1>1 DEF Complete
<1> QED BY <1>2, <1>3, <1>4 DEF Ground, w

-----------------------------------------------------------------------------
(* The encoder. *)

Keyed(jobs) == \A i, j \in jobs : i.pos = j.pos /\ i.rev = j.rev => i = j

\* A request starts encodings of the revision asked for, within the budget.
LEMMA RequestedWithin ==
  ASSUME NEW jobs \in SUBSET Jobs, IsFiniteSet(jobs), Cardinality(jobs) <= EncodeLimit, Keyed(jobs),
         NEW rev \in [Chunks -> 0..MaxEdits], content \in [Chunks -> 0..MaxEdits],
         NEW ps \in SUBSET Chunks, NEW out \in Requested(jobs, rev, ps)
  PROVE  /\ out \in SUBSET Jobs /\ IsFiniteSet(out) /\ Cardinality(out) <= EncodeLimit
         /\ Keyed(out) /\ jobs \subseteq out
         /\ \A c \in out : c \in jobs \/ \E p \in Chunks : c = Job(rev, p)
<1> DEFINE new  == {p \in ps : ~InFlight(jobs, rev, p)}
           room == EncodeLimit - Cardinality(jobs)
           size == IF room < Cardinality(new) THEN room ELSE Cardinality(new)
<1>1. PICK s \in SUBSET new : Cardinality(s) = size /\ out = jobs \cup {Job(rev, p) : p \in s}
  BY DEF Requested
<1>2. /\ EncodeLimit \in Nat /\ Cardinality(jobs) \in Nat /\ IsFiniteSet(new) /\ IsFiniteSet(s)
      /\ Cardinality(new) \in Nat
  BY StreamingAssumption, FS_CardinalityType, FS_Subset
<1>3. Cardinality(s) <= EncodeLimit - Cardinality(jobs)
  BY <1>1, <1>2
<1> DEFINE T == {Job(rev, p) : p \in s}
           f == [p \in s |-> Job(rev, p)]
<1>4. IsFiniteSet(T) /\ Cardinality(T) <= Cardinality(s)
  <2>1. f \in Surjection(s, T)
    BY DEF Surjection
  <2> HIDE DEF f, T
  <2> QED BY <1>2, <2>1, FS_Surjection
<1>5. IsFiniteSet(out) /\ Cardinality(out) <= EncodeLimit
  <2>1. out = jobs \cup T
    BY <1>1
  <2> HIDE DEF T
  <2>2. /\ IsFiniteSet(out) /\ Cardinality(out) = Cardinality(jobs) + Cardinality(T) - Cardinality(jobs \cap T)
        /\ Cardinality(jobs \cap T) \in Nat /\ Cardinality(T) \in Nat /\ Cardinality(s) \in Nat
    BY <1>2, <1>4, <2>1, FS_Union, FS_CardinalityType, FS_Subset
  <2> QED BY <1>2, <1>3, <1>4, <2>2
<1>6. \A p \in s : p \in Chunks /\ Job(rev, p) \in Jobs /\ Job(rev, p).pos = p /\ Job(rev, p).rev = rev[p]
  BY DEF Job, Jobs
<1>7. Keyed(out)
  <2>1. \A p \in s, j \in jobs : ~(j.pos = p /\ j.rev = rev[p])
    BY <1>1 DEF InFlight, Payload
  <2> QED BY <1>1, <1>6, <2>1 DEF Keyed
<1> QED BY <1>1, <1>5, <1>6, <1>7

-----------------------------------------------------------------------------
(* The world's steps. *)

\* What a step does to nobody's connection.
LEMMA StillGuests ==
  ASSUME GuestOK, UNCHANGED <<revision, phase, down, up, clientVars>>
  PROVE  GuestOK'
<1>1. SUFFICES ASSUME NEW g \in Guests PROVE Connected(g)'
  BY DEF GuestOK
<1>2. Connected(g)
  BY DEF GuestOK
<1> QED BY <1>2, Untouched DEF clientVars

LEMMA EditKeeps ==
  ASSUME IInv, NEW p \in Chunks, Edit(p)
  PROVE  IInv'
<1> DEFINE m == BlockSet(p, content[p] + 1)
<1>1. /\ edits < MaxEdits /\ edits' = edits + 1
      /\ content' = [content EXCEPT ![p] = content[p] + 1] /\ editLog' = Append(editLog, m)
      /\ UNCHANGED <<terrain, encoderVars, hostVars, down, up, clientVars>>
  BY DEF Edit
<1>2. TypeOK /\ WorldOK /\ EncoderOK /\ PayloadsCurrent /\ GuestOK
  BY DEF IInv
<1>3. /\ content \in [Chunks -> 0..MaxEdits] /\ edits \in 0..MaxEdits /\ MaxEdits \in Nat
      /\ revision \in [Chunks -> 0..MaxEdits] /\ editLog \in Seq(Mutations) /\ Len(editLog) \in Nat
  BY <1>2, StreamingAssumption, LenProperties DEF TypeOK
<1>4. content[p] <= edits /\ content[p] + 1 \in 0..MaxEdits
  BY <1>1, <1>2, <1>3 DEF WorldOK
<1>5. m \in Mutations /\ m.kind = "BlockSet" /\ m.pos = p /\ m.val = content[p] + 1
  BY <1>4, MessageKinds
<1> HIDE DEF m
<1>6. /\ content' \in [Chunks -> 0..MaxEdits] /\ edits' \in 0..MaxEdits /\ revision' = revision
      /\ content'[p] = content[p] + 1 /\ \A q \in Chunks : q # p => content'[q] = content[q]
  BY <1>1, <1>3, <1>4 DEF encoderVars
<1>7. /\ editLog' \in Seq(Mutations) /\ Len(editLog') = Len(editLog) + 1
      /\ editLog'[Len(editLog) + 1] = m /\ \A i \in 1..Len(editLog) : editLog'[i] = editLog[i]
  BY <1>1, <1>3, <1>5, OneAfter
<1>8. TypeOK'
  BY <1>1, <1>2, <1>6, <1>7 DEF TypeOK, Room, encoderVars, hostVars, clientVars
<1>9. /\ \A i \in 1..Len(editLog') :
           (i \in 1..Len(editLog) /\ editLog'[i] = editLog[i]) \/ (i = Len(editLog) + 1 /\ editLog'[i] = m)
      /\ \A i \in 1..Len(editLog) : editLog[i] \in Mutations /\ editLog[i].pos \in Chunks
  <2>1. \A i \in 1..Len(editLog) : editLog[i] \in Mutations
    BY <1>3, SetOf
  <2>2. \A i \in 1..Len(editLog) : editLog[i].pos \in Chunks
    BY <2>1, MessageKinds
  <2>3. \A i \in 1..Len(editLog') : i \in 1..Len(editLog) \/ i = Len(editLog) + 1
    BY <1>3, <1>7
  <2> QED BY <2>1, <2>2, <2>3, <1>7
<1>10. WorldOK'
  <2>1. ASSUME NEW q \in Chunks PROVE content'[q] <= edits' /\ revision[q] + Cardinality(Logged(q)') = content'[q]
    <3>1. DOMAIN editLog = 1..Len(editLog) /\ DOMAIN editLog' = 1..Len(editLog) + 1
      BY <1>3, <1>7, LenProperties
    <3>2. IsFiniteSet(Logged(q)) /\ Cardinality(Logged(q)) \in Nat
      <4>1. IsFiniteSet(1..Len(editLog))
        BY <1>3, FS_Interval
      <4>2. Logged(q) \in SUBSET (1..Len(editLog))
        BY <3>1 DEF Logged
      <4> QED BY <4>1, <4>2, FS_Subset, FS_CardinalityType
    <3>3. content[q] <= edits /\ revision[q] + Cardinality(Logged(q)) = content[q]
      BY <1>2 DEF WorldOK
    <3>4. CASE q = p
      <4>1. Logged(q)' = Logged(q) \cup {Len(editLog) + 1} /\ Len(editLog) + 1 \notin Logged(q)
        BY <3>1, <3>4, <1>3, <1>5, <1>7, <1>9 DEF Logged
      <4>2. Cardinality(Logged(q)') = Cardinality(Logged(q)) + 1
        BY <3>2, <4>1, FS_AddElement
      <4> QED BY <3>2, <3>3, <3>4, <4>2, <1>1, <1>3, <1>6
    <3>5. CASE q # p
      <4>1. Logged(q)' = Logged(q)
        BY <3>1, <3>5, <1>3, <1>5, <1>7, <1>9 DEF Logged
      <4> QED BY <3>3, <3>5, <4>1, <1>1, <1>3, <1>6
    <3> QED BY <3>4, <3>5
  <2>2. ASSUME NEW i \in 1..Len(editLog')
        PROVE  /\ editLog'[i].kind = "BlockSet"
               /\ revision[editLog'[i].pos] < editLog'[i].val /\ editLog'[i].val <= content'[editLog'[i].pos]
    <3>1. CASE i \in 1..Len(editLog) /\ editLog'[i] = editLog[i]
      <4>1. /\ editLog[i].kind = "BlockSet" /\ editLog[i].pos \in Chunks /\ editLog[i].val \in Nat
            /\ revision[editLog[i].pos] < editLog[i].val /\ editLog[i].val <= content[editLog[i].pos]
        BY <3>1, <1>2, <1>9, MessageKinds DEF WorldOK
      <4>2. content[editLog[i].pos] <= content'[editLog[i].pos]
        <5>1. \A q \in Chunks : content[q] \in Nat /\ content'[q] = IF q = p THEN content[q] + 1 ELSE content[q]
          BY <1>3, <1>6
        <5> QED BY <4>1, <5>1
      <4> QED BY <3>1, <4>1, <4>2, <1>3, <1>6
    <3>2. CASE i = Len(editLog) + 1 /\ editLog'[i] = m
      <4>1. revision[p] <= content[p]
        <5>1. revision[p] + Cardinality(Logged(p)) = content[p] /\ Cardinality(Logged(p)) \in Nat
          <6>1. DOMAIN editLog = 1..Len(editLog) /\ IsFiniteSet(1..Len(editLog))
            BY <1>3, LenProperties, FS_Interval
          <6>2. Logged(p) \in SUBSET (1..Len(editLog))
            BY <6>1 DEF Logged
          <6> QED BY <6>1, <6>2, <1>2, FS_Subset, FS_CardinalityType DEF WorldOK
        <5> QED BY <5>1, <1>3
      <4> QED BY <3>2, <4>1, <1>3, <1>5, <1>6
    <3> QED BY <3>1, <3>2, <1>9
  <2>3. ASSUME NEW i \in 1..Len(editLog'), NEW j \in 1..Len(editLog'), i < j, editLog'[i].pos = editLog'[j].pos
        PROVE  editLog'[i].val <= editLog'[j].val
    <3>1. i \in 1..Len(editLog) /\ editLog'[i] = editLog[i]
      BY <2>3, <1>3, <1>7
    <3>2. CASE j \in 1..Len(editLog) /\ editLog'[j] = editLog[j]
      BY <2>3, <3>1, <3>2, <1>2 DEF WorldOK
    <3>3. CASE editLog'[j] = m
      <4>1. editLog[i].val <= content[p] /\ editLog[i].val \in Nat
        BY <2>3, <3>1, <3>3, <1>2, <1>5, <1>9, MessageKinds DEF WorldOK
      <4> QED BY <3>1, <3>3, <4>1, <1>3, <1>5
    <3> QED BY <3>2, <3>3, <1>9
  <2>4. ASSUME NEW q \in Chunks, NEW x \in revision[q] + 1..content'[q]
        PROVE  \E i \in 1..Len(editLog') : editLog'[i] = BlockSet(q, x)
    <3>1. CASE x \in revision[q] + 1..content[q]
      <4>1. PICK i \in 1..Len(editLog) : editLog[i] = BlockSet(q, x)
        BY <3>1, <1>2 DEF WorldOK
      <4> QED BY <4>1, <1>3, <1>7
    <3>2. CASE q = p /\ x = content[p] + 1
      BY <3>2, <1>3, <1>7 DEF m
    <3> QED BY <2>4, <3>1, <3>2, <1>3, <1>6
  <2> QED BY <2>1, <2>2, <2>3, <2>4, <1>6 DEF WorldOK
<1>11. EncoderOK'
  BY <1>1, <1>2 DEF EncoderOK, encoderVars
<1>12. PayloadsCurrent'
  <2>1. cache' = cache /\ encoding' = encoding /\ revision' = revision
    BY <1>1 DEF encoderVars
  <2> SUFFICES ASSUME NEW c \in cache \cup encoding, c.rev = revision[c.pos],
                      ~\E x \in ToSet(editLog') : x.pos = c.pos
               PROVE  c.val = content'[c.pos]
    BY <2>1 DEF PayloadsCurrent
  <2>2. ToSet(editLog') = {editLog'[i] : i \in 1..Len(editLog')} /\ ToSet(editLog) = {editLog[i] : i \in 1..Len(editLog)}
    <3>1. ToSet(editLog) = {editLog[i] : i \in 1..Len(editLog)}
      BY <1>3, SetOf
    <3>2. ToSet(editLog') = {editLog'[i] : i \in 1..Len(editLog')}
      BY <1>7, SetOf
    <3> QED BY <3>1, <3>2
  <2>3. c.pos # p
    BY <2>2, <1>3, <1>5, <1>7
  <2>4. ~\E x \in ToSet(editLog) : x.pos = c.pos
    BY <2>2, <1>3, <1>7
  <2>5. c.pos \in Chunks
    BY <1>2 DEF TypeOK, Jobs
  <2> QED BY <2>3, <2>4, <2>5, <1>2, <1>6 DEF PayloadsCurrent
<1>13. GuestOK'
  BY <1>1, <1>2, StillGuests DEF encoderVars, hostVars
<1> QED BY <1>8, <1>10, <1>11, <1>12, <1>13 DEF IInv

LEMMA LoadKeeps ==
  ASSUME IInv, NEW p \in Chunks, Load(p)
  PROVE  IInv'
<1>1. /\ terrain' = [terrain EXCEPT ![p] = "prepared"]
      /\ UNCHANGED <<content, editLog, edits, encoderVars, hostVars, down, up, clientVars>>
  BY DEF Load
<1>2. TypeOK'
  BY <1>1 DEF IInv, TypeOK, Room, encoderVars, hostVars, clientVars
<1>3. WorldOK'
  BY <1>1 DEF IInv, WorldOK, Logged, encoderVars
<1>4. EncoderOK'
  BY <1>1 DEF IInv, EncoderOK, encoderVars
<1>5. PayloadsCurrent'
  BY <1>1 DEF IInv, PayloadsCurrent, encoderVars
<1>6. GuestOK'
  BY <1>1, StillGuests DEF IInv, encoderVars, hostVars
<1> QED BY <1>2, <1>3, <1>4, <1>5, <1>6 DEF IInv

LEMMA EncodeKeeps ==
  ASSUME IInv, NEW j \in encoding, Encode(j)
  PROVE  IInv'
<1>1. /\ encoded' = encoded \cup {j}
      /\ UNCHANGED <<worldVars, revision, encoding, cache, hostVars, down, up, clientVars>>
  BY DEF Encode
<1>2. TypeOK'
  BY <1>1 DEF IInv, TypeOK, Room, worldVars, hostVars, clientVars
<1>3. WorldOK'
  BY <1>1 DEF IInv, WorldOK, Logged, worldVars
<1>4. EncoderOK'
  BY <1>1 DEF IInv, EncoderOK
<1>5. PayloadsCurrent'
  BY <1>1 DEF IInv, PayloadsCurrent, worldVars
<1>6. GuestOK'
  BY <1>1, StillGuests DEF IInv, hostVars
<1> QED BY <1>2, <1>3, <1>4, <1>5, <1>6 DEF IInv

LEMMA HearMoveKeeps ==
  ASSUME IInv, NEW g \in Guests, HearMove(g)
  PROVE  IInv'
<1>1. /\ hostPos' = [hostPos EXCEPT ![g] = pos[g]]
      /\ UNCHANGED <<worldVars, encoderVars, phase, sent, down, up, clientVars>>
  BY DEF HearMove
<1>2. TypeOK'
  BY <1>1 DEF IInv, TypeOK, Room, worldVars, encoderVars, clientVars
<1>3. WorldOK' /\ EncoderOK' /\ PayloadsCurrent'
  BY <1>1, StillWorld DEF IInv
<1>4. GuestOK'
  BY <1>1, StillGuests DEF IInv, encoderVars
<1> QED BY <1>2, <1>3, <1>4 DEF IInv

-----------------------------------------------------------------------------
(* Coming and going. *)

\* Nothing under way is in order, wherever the host has the guest.
LEMMA NothingUnderWay ==
  ASSUME NEW ph, NEW c, NEW rev
  PROVE  /\ \A k \in Nat : (ph = "away" /\ c = "idle") \/ (ph = "pending" /\ c = "joining")
              => Handshake(ph, c, <<>>, k) /\ Grounded(c, Nowhere)
         /\ ph \in {"away", "pending"} => Ground(ph, rev, <<>>, Nowhere, <<>>, 0, 0)
<1>1. Len(<<>>) = 0 /\ \A p \in Chunks : Nowhere[p] = None
  BY DEF Nowhere
<1>2. \A k \in Nat : \A i \in k + 1..Len(<<>>) : FALSE
  BY <1>1
<1>3. \A k \in Nat : (ph = "away" /\ c = "idle") \/ (ph = "pending" /\ c = "joining")
        => Handshake(ph, c, <<>>, k) /\ Grounded(c, Nowhere)
  BY <1>2 DEF Handshake, Grounded
<1>4. ASSUME ph \in {"away", "pending"} PROVE Ground(ph, rev, <<>>, Nowhere, <<>>, 0, 0)
  <2>1. \A i \in 0 + 1..Len(<<>>) : FALSE
    BY <1>2
  <2>2. Confined(Nowhere, <<>>, 0, <<>>, 0)
    BY <1>1, <2>1 DEF Confined
  <2>3. Rising(Nowhere, <<>>, 0, <<>>, 0)
    BY <2>1 DEF Rising
  <2>4. Flow(rev, Nowhere, <<>>, 0, <<>>, 0)
    BY <1>1, <2>1, <2>3 DEF Flow
  <2> QED BY <1>4, <2>2, <2>4 DEF Ground
<1> QED BY <1>3, <1>4

\* A guest that is away, or waits for its terrain, is connected with nothing under way.
LEMMA FreshConnected ==
  ASSUME NEW g,
         (phase'[g] = "away" /\ client'[g] = "idle") \/ (phase'[g] = "pending" /\ client'[g] = "joining"),
         down'[g] = <<>>, up'[g] = <<>>, inbox'[g] = <<>>, replica'[g] = Nowhere, wants'[g] \in SUBSET Chunks
  PROVE  Connected(g)'
<1> DEFINE h == HalfOf(g)'
<1>1. h = [client |-> client'[g], replica |-> Nowhere, inbox |-> <<>>, wants |-> wants'[g]]
  BY DEF HalfOf
<1> HIDE DEF h
<1>2. Nowhere \in Replicas /\ <<>> \in Seq(Mutations) /\ 0 \in 0..Len(<<>>)
  BY DEF Nowhere, Replicas
<1>3. h \in Half /\ h.client = client'[g] /\ h.replica = Nowhere /\ h.inbox = <<>>
  BY <1>1, <1>2 DEF Half
<1>4. /\ Handshake(phase'[g], h.client, <<>>, 0) /\ Grounded(h.client, h.replica)
      /\ Ground(phase'[g], revision', <<>>, h.replica, h.inbox, 0, 0)
  BY <1>3, NothingUnderWay
<1>5. Midway(phase'[g], revision', down'[g], h, 0, 0)
  BY <1>2, <1>3, <1>4 DEF Midway
<1>6. Quiet(g)'
  BY DEF Quiet
<1>7. Reported(g)'
  BY DEF Reported
<1> QED BY <1>5, <1>6, <1>7 DEF Connected, h

LEMMA JoinKeeps ==
  ASSUME IInv, NEW g \in Guests, Join(g)
  PROVE  IInv'
<1>1. /\ phase[g] = "away"
      /\ phase' = [phase EXCEPT ![g] = "pending"] /\ client' = [client EXCEPT ![g] = "joining"]
      /\ UNCHANGED <<worldVars, encoderVars, hostPos, sent, down, up, pos, replica, inbox, wants>>
  BY DEF Join
<1>2. TypeOK /\ GuestOK
  BY DEF IInv
<1>3. TypeOK'
  BY <1>1, <1>2 DEF TypeOK, Room, worldVars, encoderVars
<1>4. WorldOK' /\ EncoderOK' /\ PayloadsCurrent'
  BY <1>1, StillWorld DEF IInv
<1>5. Connected(g)'
  <2>1. down[g] = <<>> /\ up[g] = <<>> /\ inbox[g] = <<>> /\ replica[g] = Nowhere
    BY <1>1, <1>2 DEF GuestOK, Connected, Quiet
  <2>2. phase'[g] = "pending" /\ client'[g] = "joining" /\ wants[g] \in SUBSET Chunks
    BY <1>1, <1>2 DEF TypeOK
  <2> QED BY <1>1, <2>1, <2>2, FreshConnected
<1>6. \A h \in Guests : h # g => Connected(h)'
  <2> SUFFICES ASSUME NEW h \in Guests, h # g PROVE Connected(h)'
    OBVIOUS
  <2>1. Connected(h) /\ phase'[h] = phase[h] /\ client'[h] = client[h] /\ revision' = revision
    BY <1>1, <1>2 DEF GuestOK, TypeOK, encoderVars
  <2> QED BY <1>1, <2>1, Untouched
<1> QED BY <1>3, <1>4, <1>5, <1>6 DEF IInv, GuestOK

LEMMA LeaveKeeps ==
  ASSUME IInv, NEW g \in Guests, Leave(g)
  PROVE  IInv'
<1>1. /\ phase' = [phase EXCEPT ![g] = "away"] /\ hostPos' = [hostPos EXCEPT ![g] = Spawn]
      /\ sent' = [sent EXCEPT ![g] = {}]
      /\ down' = [down EXCEPT ![g] = <<>>] /\ up' = [up EXCEPT ![g] = <<>>]
      /\ client' = [client EXCEPT ![g] = "idle"] /\ pos' = [pos EXCEPT ![g] = Spawn]
      /\ replica' = [replica EXCEPT ![g] = Nowhere]
      /\ inbox' = [inbox EXCEPT ![g] = <<>>] /\ wants' = [wants EXCEPT ![g] = {}]
      /\ UNCHANGED <<worldVars, encoderVars>>
  BY DEF Leave
<1>2. TypeOK /\ GuestOK
  BY DEF IInv
<1>3. TypeOK'
  <2>1. Spawn \in Places /\ MaxFlight \in Nat
    BY StreamingAssumption
  <2>2. Nowhere \in Replicas
    BY DEF Nowhere, Replicas
  <2>3. /\ phase' \in [Guests -> {"away", "pending", "entering", "ready"}]
        /\ hostPos' \in [Guests -> Places] /\ pos' \in [Guests -> Places]
        /\ sent' \in [Guests -> SUBSET Chunks] /\ wants' \in [Guests -> SUBSET Chunks]
        /\ client' \in [Guests -> {"idle", "joining", "receiving", "readySent", "active"}]
    BY <1>1, <1>2, <2>1 DEF TypeOK
  <2>4. replica' \in [Guests -> [Chunks -> 0..MaxEdits \cup {None}]]
    BY <1>1, <1>2, <2>2 DEF TypeOK, Replicas
  <2>5. /\ inbox' \in [Guests -> Seq(Mutations)]
        /\ down' \in [Guests -> Seq(Downward)] /\ up' \in [Guests -> Seq(Upward)]
    <3>1. <<>> \in Seq(Mutations) /\ <<>> \in Seq(Downward) /\ <<>> \in Seq(Upward)
      OBVIOUS
    <3> QED BY <1>1, <1>2, <3>1 DEF TypeOK
  <2>6. \A h \in Guests : Room(down'[h]) /\ Room(up'[h])
    <3>1. Room(<<>>)
      BY <2>1 DEF Room
    <3>2. \A h \in Guests : down'[h] \in {<<>>, down[h]} /\ up'[h] \in {<<>>, up[h]}
      BY <1>1, <1>2 DEF TypeOK
    <3> QED BY <1>2, <3>1, <3>2 DEF TypeOK
  <2> QED BY <1>1, <1>2, <2>3, <2>4, <2>5, <2>6 DEF TypeOK, worldVars, encoderVars
<1>4. WorldOK' /\ EncoderOK' /\ PayloadsCurrent'
  BY <1>1, StillWorld DEF IInv
<1>5. Connected(g)'
  <2>1. /\ phase'[g] = "away" /\ client'[g] = "idle" /\ wants'[g] = {} /\ replica'[g] = Nowhere
        /\ down'[g] = <<>> /\ up'[g] = <<>> /\ inbox'[g] = <<>>
    BY <1>1, <1>2 DEF TypeOK
  <2> QED BY <2>1, FreshConnected
<1>6. \A h \in Guests : h # g => Connected(h)'
  <2> SUFFICES ASSUME NEW h \in Guests, h # g PROVE Connected(h)'
    OBVIOUS
  <2>1. Connected(h) /\ phase'[h] = phase[h] /\ client'[h] = client[h] /\ revision' = revision
    BY <1>1, <1>2 DEF GuestOK, TypeOK, encoderVars
  <2>2. /\ down'[h] = down[h] /\ up'[h] = up[h] /\ replica'[h] = replica[h]
        /\ inbox'[h] = inbox[h] /\ wants'[h] = wants[h]
    BY <1>1, <1>2 DEF TypeOK
  <2> QED BY <2>1, <2>2, Untouched
<1> QED BY <1>3, <1>4, <1>5, <1>6 DEF IInv, GuestOK

-----------------------------------------------------------------------------
(* The host's messages. *)

LEMMA AllButFirst ==
  ASSUME NEW T, NEW q \in Seq(T), q # <<>>
  PROVE  /\ Tail(q) \in Seq(T) /\ Len(Tail(q)) = Len(q) - 1 /\ Len(q) \in Nat \ {0} /\ Head(q) = q[1]
         /\ \A i \in 1..Len(Tail(q)) : i + 1 \in 1..Len(q) /\ Tail(q)[i] = q[i + 1]
<1>1. Tail(q) \in Seq(T) /\ Len(Tail(q)) = Len(q) - 1 /\ Len(q) \in Nat \ {0} /\ Head(q) = q[1]
  BY EmptySeq
<1>2. \A i \in 1..Len(q) - 1 : Tail(q)[i] = q[i + 1]
  BY <1>1
<1> QED BY <1>1, <1>2

LEMMA AsJoined ==
  ASSUME NEW T, NEW q \in Seq(T), NEW x \in T
  PROVE  Append(q, x) = q \o <<x>> /\ <<x>> \in Seq(T) /\ Len(<<x>>) = 1 /\ <<x>>[1] = x
OBVIOUS

\* What the handshake allows stays allowed when the message after it is another one.
LEMMA HandshakeContinues ==
  ASSUME NEW ph, NEW c, NEW b \in Seq(Downward), NEW e \in Seq(Downward), Handshake(ph, c, b, 0),
         \A i \in 1..Len(e) : e[i] # Manifest /\ (e[i] = EntryAccepted => ph = "ready")
  PROVE  Handshake(ph, c, b \o e, 0)
<1> DEFINE w == b \o e
<1>1. /\ 0 + 1 = 1
      /\ \A i \in 1..Len(w) :
           (i \in 1..Len(b) /\ w[i] = b[i])
             \/ (w[i] # Manifest /\ (w[i] = EntryAccepted => ph = "ready"))
  <2>1. /\ \A i \in 1..Len(b) : w[i] = b[i]
        /\ \A i \in 1..Len(w) :
             i \in 1..Len(b) \/ (i > Len(b) /\ i - Len(b) \in 1..Len(e) /\ w[i] = e[i - Len(b)])
    BY Joined
  <2> HIDE DEF w
  <2> QED BY <2>1
<1> HIDE DEF w
<1>2. /\ \A i \in 1..Len(w) : w[i] = EntryAccepted => ph = "ready"
      /\ \A i \in 1..Len(w) : w[i] = Manifest => i \in 1..Len(b) /\ b[i] = Manifest
  BY <1>1 DEF Handshake
<1>3. \A i \in 1..Len(b) : b[i] = Manifest =>
        /\ ph = "entering" /\ c = "joining"
        /\ \A j \in 1..Len(b) : b[j] = Manifest => j = i
  BY <1>1 DEF Handshake
<1>4. \A i \in 1..Len(w) : w[i] = Manifest =>
        /\ ph = "entering" /\ c = "joining"
        /\ \A j \in 1..Len(w) : w[j] = Manifest => j = i
  BY <1>2, <1>3
<1> QED BY <1>1, <1>2, <1>4 DEF Handshake, w

\* One message more, that changes no chunk or brings one to its revision.
LEMMA OneMore ==
  ASSUME NEW ph, NEW rev \in [Chunks -> Nat], NEW s, NEW b \in Seq(Downward), NEW m \in Downward,
         Midway(ph, rev, b, s, 0, 0), m # Manifest, m = EntryAccepted => ph = "ready",
         m \in Mutations => ph = "ready" /\ m.val = rev[m.pos]
  PROVE  Midway(ph, rev, Append(b, m), s, 0, 0)
<1> DEFINE e == <<m>>
<1>1. /\ Append(b, m) = b \o e /\ e \in Seq(Downward) /\ Len(e) = 1 /\ e[1] = m
      /\ Append(b, m) \in Seq(Downward)
  BY AsJoined, OneAfter
<1> HIDE DEF e
<1>2. \A i \in 1..Len(e) : e[i] = m
  BY <1>1
<1>3. \A x \in Mutations : x.pos \in Chunks /\ x.val \in Nat /\ rev[x.pos] \in Nat
  BY MessageKinds
<1>4. Continues(rev, rev, e)
  BY <1>1, <1>2, <1>3 DEF Continues
<1>5. Fills(rev, rev, e)
  <2>1. \A p \in Chunks, x \in Nat : ~(rev[p] < x /\ x <= rev[p])
    OBVIOUS
  <2>2. \A i \in 1..Len(e), x \in Nat : ~(e[i] \in Mutations /\ e[i].val < x /\ x <= rev[e[i].pos])
    BY <1>2, <1>3
  <2> QED BY <2>1, <2>2 DEF Fills
<1>6. /\ s \in Half /\ s.replica \in Replicas /\ s.inbox \in Seq(Mutations)
      /\ Ground(ph, rev, b, s.replica, s.inbox, 0, 0) /\ Handshake(ph, s.client, b, 0)
  BY DEF Midway, Half
<1>7. Ground(ph, rev, b \o e, s.replica, s.inbox, 0, 0)
  <2>1. \A p \in Chunks : rev[p] <= rev[p]
    OBVIOUS
  <2>2. ph # "ready" => \A i \in 1..Len(e) : e[i] \in Mutations => e[i].pos \in EntrySet
    BY <1>2
  <2> QED BY <2>1, <2>2, <1>1, <1>4, <1>5, <1>6, GroundContinues
<1>8. Handshake(ph, s.client, b \o e, 0)
  BY <1>1, <1>2, <1>6, HandshakeContinues
<1>9. 0 \in 0..Len(Append(b, m))
  BY <1>1, LenProperties
<1> QED BY <1>1, <1>7, <1>8, <1>9 DEF Midway

\* A guest that plays has all its ground, when it had only its safety set before.
LEMMA Accepted ==
  ASSUME NEW rev, NEW b, NEW r, NEW a, Ground("entering", rev, b, r, a, 0, 0)
  PROVE  Ground("ready", rev, b, r, a, 0, 0)
<1>1. Confined(r, a, 0, b, 0) /\ Flow(rev, r, a, 0, b, 0)
  BY DEF Ground
<1>2. Complete(rev, r, a, 0, b, 0)
  BY <1>1 DEF Confined, Complete
<1> QED BY <1>1, <1>2 DEF Ground

LEMMA TailReported ==
  ASSUME NEW g, Reported(g), up[g] \in Seq(Upward), up[g] # <<>>, up'[g] = Tail(up[g]),
         phase'[g] = phase[g] \/ up[g][1] = EntryReady, client'[g] = client[g]
  PROVE  Reported(g)'
<1> DEFINE u == up[g]
           w == Tail(u)
<1>1. Len(u) \in Nat \ {0} /\ \A i \in 1..Len(w) : i + 1 \in 1..Len(u) /\ w[i] = u[i + 1]
  BY AllButFirst
<1> HIDE DEF w
<1>2. up'[g] = w /\ 1 \in 1..Len(u)
  BY <1>1 DEF w
<1>3. CASE u[1] = EntryReady
  <2>1. \A i \in 1..Len(w) : w[i] # EntryReady
    BY <1>1, <1>2, <1>3 DEF Reported
  <2> QED BY <2>1, <1>2 DEF Reported
<1>4. CASE phase'[g] = phase[g]
  <2>1. \A i, j \in 1..Len(w) : w[i] = EntryReady /\ w[j] = EntryReady => i + 1 = j + 1
    BY <1>1 DEF Reported
  <2>2. \A i \in 1..Len(w) : w[i] = EntryReady => phase[g] = "entering" /\ client[g] = "readySent"
    BY <1>1 DEF Reported
  <2> QED BY <2>1, <2>2, <1>2, <1>4 DEF Reported
<1> QED BY <1>3, <1>4

LEMMA HandleEntryReadyKeeps ==
  ASSUME IInv, NEW g \in Guests, HandleEntryReady(g)
  PROVE  /\ IInv'
         /\ phase[g] = "entering" /\ \A p \in ToSet(Entry) : replica[g][p] # None
<1>1. /\ up[g] # <<>> /\ Head(up[g]) = EntryReady /\ up' = [up EXCEPT ![g] = Tail(up[g])]
      /\ UNCHANGED <<worldVars, encoderVars, hostPos, sent, clientVars>>
  BY DEF HandleEntryReady
<1>2. \/ /\ phase[g] = "entering" /\ phase' = [phase EXCEPT ![g] = "ready"]
         /\ down' = [down EXCEPT ![g] = Append(down[g], EntryAccepted)] /\ Room(down'[g])
      \/ UNCHANGED <<phase, down>>
  BY DEF HandleEntryReady
<1>3. TypeOK /\ GuestOK /\ Connected(g)
  BY DEF IInv, GuestOK
<1>4. /\ up[g] \in Seq(Upward) /\ down[g] \in Seq(Downward) /\ revision \in [Chunks -> Nat]
  BY <1>3, StreamingAssumption DEF TypeOK
<1>5. Tail(up[g]) \in Seq(Upward) /\ up[g][1] = EntryReady /\ 1 \in 1..Len(up[g]) /\ Len(Tail(up[g])) <= Len(up[g])
  BY <1>1, <1>4, AllButFirst
<1>6. phase[g] = "entering" /\ client[g] = "readySent"
  BY <1>3, <1>5 DEF Connected, Reported
<1>7. HalfOf(g) \in Half /\ HalfOf(g).client = client[g] /\ HalfOf(g).replica = replica[g] /\ HalfOf(g).inbox = inbox[g]
  BY <1>3 DEF Connected, Midway, HalfOf
<1>8. \A p \in ToSet(Entry) : replica[g][p] # None
  BY <1>3, <1>6, <1>7 DEF Connected, Midway, Grounded, EntrySet
<1>9. EntryAccepted \in Downward
  BY DEF Downward
<1>10. TypeOK'
  <2>1. up' \in [Guests -> Seq(Upward)] /\ up'[g] = Tail(up[g])
    BY <1>1, <1>3, <1>5 DEF TypeOK
  <2>2. down' \in [Guests -> Seq(Downward)]
    <3>1. Append(down[g], EntryAccepted) \in Seq(Downward)
      BY <1>4, <1>9, OneAfter
    <3> QED BY <3>1, <1>2, <1>3 DEF TypeOK
  <2>3. phase' \in [Guests -> {"away", "pending", "entering", "ready"}]
    BY <1>2, <1>3 DEF TypeOK
  <2>4. \A h \in Guests : Room(down'[h]) /\ Room(up'[h])
    <3>1. Room(up'[g])
      <4>1. Len(Tail(up[g])) \in Nat /\ Len(up[g]) \in Nat /\ MaxFlight \in Nat
        BY <1>4, <1>5, LenProperties, StreamingAssumption
      <4> QED BY <2>1, <4>1, <1>3, <1>5 DEF TypeOK, Room
    <3>2. \A h \in Guests : h # g => down'[h] = down[h] /\ up'[h] = up[h]
      BY <1>1, <1>2, <1>3 DEF TypeOK
    <3>3. Room(down'[g])
      BY <1>2, <1>3 DEF TypeOK
    <3> QED BY <3>1, <3>2, <3>3, <1>3 DEF TypeOK
  <2> QED BY <2>1, <2>2, <2>3, <2>4, <1>1, <1>3 DEF TypeOK, worldVars, encoderVars, clientVars
<1>11. WorldOK' /\ EncoderOK' /\ PayloadsCurrent'
  BY <1>1, StillWorld DEF IInv
<1>12. revision' = revision /\ client' = client /\ replica' = replica /\ inbox' = inbox /\ wants' = wants
  BY <1>1 DEF encoderVars, clientVars
<1>13. Midway(phase[g], revision, down[g], HalfOf(g), 0, 0)'
  <2>1. Midway(phase[g], revision, down[g], HalfOf(g), 0, 0) /\ HalfOf(g)' = HalfOf(g)
    BY <1>3, <1>12 DEF Connected, HalfOf
  <2>2. CASE UNCHANGED <<phase, down>>
    BY <2>1, <2>2, <1>12
  <2>3. CASE phase' = [phase EXCEPT ![g] = "ready"] /\ down' = [down EXCEPT ![g] = Append(down[g], EntryAccepted)]
    <3>1. phase'[g] = "ready" /\ down'[g] = Append(down[g], EntryAccepted)
      BY <2>3, <1>3 DEF TypeOK
    <3>2. Midway("ready", revision, down[g], HalfOf(g), 0, 0)
      <4>1. Handshake("ready", client[g], down[g], 0)
        BY <2>1, <1>6, <1>7 DEF Midway, Handshake
      <4>2. Ground("ready", revision, down[g], replica[g], inbox[g], 0, 0)
        BY <2>1, <1>6, <1>7, Accepted DEF Midway
      <4> QED BY <2>1, <4>1, <4>2, <1>7 DEF Midway
    <3>3. Midway("ready", revision, Append(down[g], EntryAccepted), HalfOf(g), 0, 0)
      BY <3>2, <1>4, <1>9, OneMore, MessageKinds
    <3> QED BY <3>1, <3>3, <2>1, <1>12
  <2> QED BY <2>2, <2>3, <1>2
<1>14. Reported(g)'
  BY <1>1, <1>3, <1>4, <1>5, <1>12, TailReported DEF Connected, TypeOK
<1>15. Quiet(g)'
  BY <1>2, <1>3, <1>6 DEF Quiet, TypeOK
<1>16. \A h \in Guests : h # g => Connected(h)'
  <2> SUFFICES ASSUME NEW h \in Guests, h # g PROVE Connected(h)'
    OBVIOUS
  <2>1. Connected(h) /\ phase'[h] = phase[h] /\ down'[h] = down[h] /\ up'[h] = up[h]
    BY <1>1, <1>2, <1>3 DEF GuestOK, TypeOK
  <2> QED BY <2>1, <1>12, Untouched
<1> QED BY <1>6, <1>8, <1>10, <1>11, <1>13, <1>14, <1>15, <1>16 DEF IInv, GuestOK, Connected

LEMMA HandleRequestKeeps ==
  ASSUME IInv, NEW g \in Guests, HandleRequest(g)
  PROVE  IInv'
<1>1. PICK p \in Chunks :
        /\ up[g] # <<>> /\ Head(up[g]) = RequestChunk(p) /\ up' = [up EXCEPT ![g] = Tail(up[g])]
        /\ IF phase[g] = "ready" /\ p \in Keep[hostPos[g]] THEN StreamChunk(g, p)
           ELSE UNCHANGED <<terrain, encoding, down, sent>>
        /\ UNCHANGED <<content, editLog, edits, revision, encoded, cache, phase, hostPos, clientVars>>
  BY DEF HandleRequest
<1>2. \/ UNCHANGED <<terrain, encoding, down, sent>>
      \/ /\ terrain' = [terrain EXCEPT ![p] = IF terrain[p] = "absent" THEN "loading" ELSE terrain[p]]
         /\ UNCHANGED <<encoding, down, sent>>
      \/ /\ phase[g] = "ready"
         /\ \E c \in Payload(cache, revision, p) :
              /\ down' = [down EXCEPT ![g] = Append(down[g], Chunk(p, c.val))]
              /\ sent' = [sent EXCEPT ![g] = sent[g] \cup {p}]
              /\ Room(down'[g])
              /\ UNCHANGED <<terrain, encoding>>
      \/ /\ encoding' \in Requested(encoding, revision, {p})
         /\ UNCHANGED <<terrain, down, sent>>
  BY <1>1 DEF StreamChunk
<1>3. TypeOK /\ GuestOK /\ Connected(g) /\ EncoderOK /\ PayloadsCurrent /\ WorldOK
  BY DEF IInv, GuestOK
<1>4. /\ up[g] \in Seq(Upward) /\ down[g] \in Seq(Downward) /\ revision \in [Chunks -> Nat]
      /\ revision \in [Chunks -> 0..MaxEdits] /\ content \in [Chunks -> 0..MaxEdits]
  BY <1>3, StreamingAssumption DEF TypeOK
<1>5. Tail(up[g]) \in Seq(Upward) /\ Len(Tail(up[g])) <= Len(up[g])
  BY <1>1, <1>4, AllButFirst
<1>6. /\ content' = content /\ editLog' = editLog /\ edits' = edits /\ revision' = revision
      /\ cache' = cache /\ encoded' = encoded /\ phase' = phase /\ hostPos' = hostPos /\ client' = client
      /\ replica' = replica /\ inbox' = inbox /\ wants' = wants /\ pos' = pos
  BY <1>1 DEF clientVars
<1>7. \/ down' = down
      \/ /\ phase[g] = "ready" /\ Chunk(p, revision[p]) \in Mutations
         /\ down' = [down EXCEPT ![g] = Append(down[g], Chunk(p, revision[p]))] /\ Room(down'[g])
  <2>1. \A c \in Payload(cache, revision, p) : c.val = revision[p]
    BY <1>3 DEF EncoderOK, Payload
  <2>2. Chunk(p, revision[p]) \in Mutations
    BY <1>4, MessageKinds
  <2> QED BY <1>2, <2>1, <2>2
<1>8. /\ encoding' \in SUBSET Jobs /\ IsFiniteSet(encoding') /\ Cardinality(encoding') <= EncodeLimit
      /\ Keyed(encoding') /\ encoding \subseteq encoding'
      /\ \A c \in encoding' : c \in encoding \/ \E q \in Chunks : c = Job(revision, q)
  <2>1. encoding \in SUBSET Jobs /\ IsFiniteSet(encoding) /\ Cardinality(encoding) <= EncodeLimit /\ Keyed(encoding)
    BY <1>3 DEF TypeOK, EncoderOK, Keyed
  <2>2. CASE encoding' = encoding
    BY <2>1, <2>2
  <2>3. CASE encoding' \in Requested(encoding, revision, {p})
    <3>1. {p} \in SUBSET Chunks
      OBVIOUS
    <3> QED BY <2>1, <2>3, <3>1, <1>4, RequestedWithin
  <2> QED BY <2>2, <2>3, <1>2
<1>9. \A c : (\E q \in Chunks : c = Job(revision, q)) =>
        c.pos \in Chunks /\ c.rev = revision[c.pos] /\ c.val = content[c.pos]
  BY DEF Job
<1>10. TypeOK'
  <2>1. up' \in [Guests -> Seq(Upward)] /\ up'[g] = Tail(up[g])
    BY <1>1, <1>3, <1>5 DEF TypeOK
  <2>2. down' \in [Guests -> Seq(Downward)]
    <3>1. Chunk(p, revision[p]) \in Mutations => Append(down[g], Chunk(p, revision[p])) \in Seq(Downward)
      BY <1>4, OneAfter DEF Downward
    <3> QED BY <3>1, <1>3, <1>7 DEF TypeOK
  <2>3. terrain' \in [Chunks -> {"absent", "loading", "prepared", "resident"}]
    BY <1>2, <1>3 DEF TypeOK
  <2>4. sent' \in [Guests -> SUBSET Chunks]
    <3>1. sent' = sent \/ sent' = [sent EXCEPT ![g] = sent[g] \cup {p}]
      BY <1>2
    <3>2. sent \in [Guests -> SUBSET Chunks] /\ sent[g] \cup {p} \in SUBSET Chunks
      BY <1>3 DEF TypeOK
    <3> QED BY <3>1, <3>2
  <2>5. \A h \in Guests : Room(down'[h]) /\ Room(up'[h])
    <3>1. Room(up'[g])
      <4>1. Len(Tail(up[g])) \in Nat /\ Len(up[g]) \in Nat /\ MaxFlight \in Nat
        BY <1>4, <1>5, LenProperties, StreamingAssumption
      <4> QED BY <2>1, <4>1, <1>3, <1>5 DEF TypeOK, Room
    <3>2. \A h \in Guests : h # g => down'[h] = down[h] /\ up'[h] = up[h]
      BY <1>1, <1>3, <1>7 DEF TypeOK
    <3>3. Room(down'[g])
      BY <1>3, <1>7 DEF TypeOK
    <3> QED BY <3>1, <3>2, <3>3, <1>3 DEF TypeOK
  <2> QED BY <2>1, <2>2, <2>3, <2>4, <2>5, <1>3, <1>6, <1>8 DEF TypeOK, Keyed
<1>11. WorldOK'
  BY <1>3, <1>6 DEF WorldOK, Logged
<1>12. EncoderOK'
  <2>1. \A c \in encoding' : c.rev <= revision[c.pos]
    <3>1. \A q \in Chunks : revision[q] <= revision[q]
      BY <1>4
    <3> QED BY <3>1, <1>3, <1>8, <1>9 DEF EncoderOK
  <2> QED BY <2>1, <1>3, <1>6, <1>8 DEF EncoderOK
<1>13. PayloadsCurrent'
  BY <1>3, <1>6, <1>8, <1>9 DEF PayloadsCurrent
<1>14. Midway(phase[g], revision, down[g], HalfOf(g), 0, 0)'
  <2>1. Midway(phase[g], revision, down[g], HalfOf(g), 0, 0) /\ HalfOf(g)' = HalfOf(g)
    BY <1>3, <1>6 DEF Connected, HalfOf
  <2>2. CASE down' = down
    BY <2>1, <2>2, <1>6
  <2>3. CASE /\ phase[g] = "ready" /\ Chunk(p, revision[p]) \in Mutations
             /\ down' = [down EXCEPT ![g] = Append(down[g], Chunk(p, revision[p]))]
    <3> DEFINE m == Chunk(p, revision[p])
    <3>1. down'[g] = Append(down[g], m)
      BY <2>3, <1>3 DEF TypeOK
    <3>2. m \in Downward /\ m # Manifest /\ m # EntryAccepted /\ m.val = revision[m.pos]
      BY <2>3, MessageKinds DEF Downward
    <3> HIDE DEF m
    <3>3. Midway(phase[g], revision, Append(down[g], m), HalfOf(g), 0, 0)
      BY <2>1, <2>3, <3>2, <1>4, OneMore
    <3> QED BY <3>1, <3>3, <2>1, <1>6
  <2> QED BY <2>2, <2>3, <1>7
<1>15. Reported(g)'
  BY <1>1, <1>3, <1>4, <1>5, <1>6, TailReported DEF Connected, TypeOK
<1>16. Quiet(g)'
  <2>1. phase[g] \in {"away", "pending"} => up[g] = <<>>
    BY <1>3 DEF Connected, Quiet
  <2> QED BY <2>1, <1>1, <1>6 DEF Quiet
<1>17. \A h \in Guests : h # g => Connected(h)'
  <2> SUFFICES ASSUME NEW h \in Guests, h # g PROVE Connected(h)'
    OBVIOUS
  <2>1. Connected(h) /\ down'[h] = down[h] /\ up'[h] = up[h]
    BY <1>1, <1>3, <1>7 DEF GuestOK, TypeOK
  <2> QED BY <2>1, <1>6, Untouched
<1> QED BY <1>10, <1>11, <1>12, <1>13, <1>14, <1>15, <1>16, <1>17 DEF IInv, GuestOK, Connected

-----------------------------------------------------------------------------
(* The pump. *)

LEMMA FirstKeeps ==
  ASSUME NEW T, NEW q \in Seq(T), NEW n \in Nat
  PROVE  First(n, q) \in Seq(T)
<1>1. Len(q) \in Nat /\ \A i \in 1..Len(q) : q[i] \in T
  BY SetOf
<1> DEFINE m == IF Len(q) < n THEN Len(q) ELSE n
<1>2. m \in Nat /\ m <= Len(q)
  BY <1>1
<1> HIDE DEF m
<1>3. SubSeq(q, 1, m) \in Seq(T)
  BY <1>1, <1>2
<1> QED BY <1>3 DEF First, m

\* The pump asks for a guest's ring, or for the safety set of one that enters, or for nothing.
LEMMA NeededWithin ==
  ASSUME TypeOK, NEW g \in Guests, NEW land
  PROVE  /\ Needed(g, land) \in Seq(Chunks)
         /\ phase[g] # "ready" => Needed(g, land) \in Seq(EntrySet)
         /\ phase[g] # "ready" /\ phase[g] # "entering" /\ ~Prepared(g, land) => Needed(g, land) = <<>>
<1> DEFINE S == Chunks \ Remembered(g)
           ring == CASE phase[g] = "ready" -> View[hostPos[g]]
                     [] phase[g] = "entering" \/ Prepared(g, land) -> Entry
                     [] OTHER -> <<>>
           kept == First(Pace, Only(ring, S))
<1>1. Needed(g, land) = kept
  BY DEF Needed
<1>2. ASSUME NEW T, ring \in Seq(T) PROVE kept \in Seq(T)
  <2>1. Only(ring, S) \in Seq(T \cap S)
    <3> HIDE DEF ring, S
    <3> QED BY <1>2, OnlyKeeps
  <2>2. Only(ring, S) \in Seq(T)
    <3> HIDE DEF ring, S
    <3> QED BY <2>1, SeqWithin
  <2>3. Pace \in Nat
    BY StreamingAssumption
  <2> HIDE DEF ring, S
  <2> QED BY <2>2, <2>3, FirstKeeps
<1>3. /\ <<>> \in Seq(Chunks) /\ <<>> \in Seq(EntrySet) /\ <<>> \in Seq({})
      /\ Entry \in Seq(EntrySet) /\ EntrySet \subseteq Chunks /\ Entry \in Seq(Chunks)
  BY StreamingAssumption, SetOf DEF EntrySet
<1>4. hostPos[g] \in Places /\ View[hostPos[g]] \in Seq(Chunks)
  BY StreamingAssumption DEF TypeOK
<1>5. ring \in Seq(Chunks)
  BY <1>3, <1>4
<1>6. phase[g] # "ready" => ring \in Seq(EntrySet)
  BY <1>3
<1>7. phase[g] # "ready" /\ phase[g] # "entering" /\ ~Prepared(g, land) => ring \in Seq({})
  BY <1>3
<1> HIDE DEF ring, kept
<1>8. kept \in Seq({}) => kept = <<>>
  <2>1. ASSUME kept \in Seq({}) PROVE kept = <<>>
    <3>1. Len(kept) \in Nat /\ \A i \in 1..Len(kept) : kept[i] \in {}
      BY <2>1, SetOf
    <3>2. Len(kept) = 0
      BY <3>1
    <3> QED BY <2>1, <3>2, EmptySeq
  <2> QED BY <2>1
<1> QED BY <1>1, <1>2, <1>5, <1>6, <1>7, <1>8

\* The journal of edits takes every chunk from its revision to its content.
LEMMA LogContinues ==
  ASSUME TypeOK, WorldOK
  PROVE  Continues(revision, content, editLog) /\ Fills(revision, content, editLog)
<1>1. /\ revision \in [Chunks -> Nat] /\ content \in [Chunks -> Nat] /\ editLog \in Seq(Mutations)
      /\ Len(editLog) \in Nat
  BY LenProperties, StreamingAssumption DEF TypeOK
<1>2. \A i \in 1..Len(editLog) : editLog[i].pos \in Chunks /\ editLog[i].val \in Nat
  BY <1>1, SetOf, MessageKinds
<1>3. Continues(revision, content, editLog)
  BY <1>1, <1>2 DEF WorldOK, Continues
<1>4. \A p \in Chunks, x \in Nat : revision[p] < x /\ x <= content[p] =>
        \E l \in 1..Len(editLog) : editLog[l] = BlockSet(p, x)
  <2> SUFFICES ASSUME NEW p \in Chunks, NEW x \in Nat, revision[p] < x, x <= content[p]
               PROVE  \E l \in 1..Len(editLog) : editLog[l] = BlockSet(p, x)
    OBVIOUS
  <2>1. x \in revision[p] + 1..content[p]
    BY <1>1
  <2> QED BY <2>1 DEF WorldOK
<1>5. ASSUME NEW i \in 1..Len(editLog), NEW x \in Nat, editLog[i].val < x, x <= content[editLog[i].pos]
      PROVE  \E l \in i + 1..Len(editLog) : editLog[l] = BlockSet(editLog[i].pos, x)
  <2> DEFINE p == editLog[i].pos
  <2>1. p \in Chunks /\ revision[p] < editLog[i].val /\ editLog[i].val \in Nat /\ revision[p] \in Nat
    BY <1>1, <1>2 DEF WorldOK
  <2>2. PICK l \in 1..Len(editLog) : editLog[l] = BlockSet(p, x)
    BY <1>4, <1>5, <2>1
  <2>3. editLog[l].pos = p /\ editLog[l].val = x
    BY <2>2, MessageKinds
  <2>4. i < l
    <3>1. ASSUME l < i PROVE FALSE
      <4>1. editLog[l].val <= editLog[i].val
        BY <2>3, <3>1 DEF WorldOK
      <4> QED BY <4>1, <1>5, <2>1, <2>3
    <3>2. l # i
      BY <1>5, <2>1, <2>3
    <3> QED BY <3>1, <3>2
  <2>5. l \in i + 1..Len(editLog)
    BY <2>4, <1>1
  <2> QED BY <2>2, <2>5
<1> QED BY <1>3, <1>4, <1>5 DEF Fills

\* A pump leaves a guest connected: the journal, the manifest, and chunks as they are now.
LEMMA PumpConnected ==
  ASSUME IInv, NEW g \in Guests, NEW told, NEW burst,
         revision' = content, UNCHANGED clientVars, up' = up,
         down'[g] = down[g] \o Broadcast(g) \o told \o burst,
         burst \in Seq(Mutations),
         \A i \in 1..Len(burst) : burst[i].kind = "Chunk" /\ burst[i].val = content[burst[i].pos],
         phase[g] # "ready" => \A i \in 1..Len(burst) : burst[i].pos \in EntrySet,
         \/ /\ told = <<Manifest>> /\ phase[g] = "pending" /\ phase'[g] = "entering"
         \/ /\ told = <<>> /\ phase'[g] = phase[g]
            /\ phase[g] \in {"away", "pending"} => burst = <<>>
  PROVE  Connected(g)' /\ down'[g] \in Seq(Downward)
<1> DEFINE ph == phase[g]
           b0 == down[g]
           b1 == b0 \o Broadcast(g)
           b2 == b1 \o told
           b3 == b2 \o burst
           r == replica[g]
           a == inbox[g]
           c == client[g]
<1>1. TypeOK /\ WorldOK /\ Connected(g)
  BY DEF IInv, GuestOK
<1>2. /\ revision \in [Chunks -> Nat] /\ content \in [Chunks -> Nat] /\ editLog \in Seq(Mutations)
      /\ b0 \in Seq(Downward) /\ r \in Replicas /\ a \in Seq(Mutations)
      /\ ph \in {"away", "pending", "entering", "ready"}
  BY <1>1, StreamingAssumption DEF TypeOK, Replicas
<1>3. /\ HalfOf(g) \in Half /\ Handshake(ph, c, b0, 0) /\ Grounded(c, r) /\ Ground(ph, revision, b0, r, a, 0, 0)
  BY <1>1 DEF Connected, Midway, HalfOf
<1>4. \A p \in Chunks : revision[p] <= content[p] /\ content[p] <= content[p]
  <2> TAKE p \in Chunks
  <2>1. DOMAIN editLog = 1..Len(editLog) /\ Len(editLog) \in Nat
    BY <1>2, LenProperties
  <2>2. IsFiniteSet(1..Len(editLog))
    BY <2>1, FS_Interval
  <2>3. Logged(p) \in SUBSET (1..Len(editLog))
    BY <2>1 DEF Logged
  <2>4. Cardinality(Logged(p)) \in Nat
    BY <2>2, <2>3, FS_Subset, FS_CardinalityType
  <2>5. revision[p] + Cardinality(Logged(p)) = content[p]
    BY <1>1 DEF WorldOK
  <2> QED BY <2>4, <2>5, <1>2
<1>5. /\ Manifest \in Downward /\ Mutations \subseteq Downward
      /\ <<>> \in Seq(Downward) /\ Len(<<>>) = 0 /\ <<Manifest>> \in Seq(Downward)
      /\ Len(<<Manifest>>) = 1 /\ <<Manifest>>[1] = Manifest
  BY DEF Downward
<1>6. /\ Broadcast(g) \in Seq(Downward) /\ told \in Seq(Downward) /\ burst \in Seq(Downward)
  <2>1. editLog \in Seq(Downward) /\ burst \in Seq(Downward)
    BY <1>2, <1>5, SeqWithin
  <2> QED BY <2>1, <1>5 DEF Broadcast
<1>7. /\ \A i \in 1..Len(Broadcast(g)) : Broadcast(g)[i] \in Mutations /\ ph = "ready"
      /\ \A i \in 1..Len(burst) : burst[i] \in Mutations
  <2>1. \A i \in 1..Len(editLog) : editLog[i] \in Mutations
    BY <1>2, SetOf
  <2>2. \A i \in 1..Len(burst) : burst[i] \in Mutations
    BY SetOf
  <2> QED BY <2>1, <2>2, <1>5 DEF Broadcast
<1>8. \A i \in 1..Len(told) : told[i] \notin Mutations /\ told[i] # EntryAccepted
  BY <1>5, MessageKinds
<1>9. b1 \in Seq(Downward) /\ b2 \in Seq(Downward) /\ b3 \in Seq(Downward)
  <2>1. b1 \in Seq(Downward)
    BY <1>2, <1>6, Joined
  <2> HIDE DEF b1
  <2>2. b2 \in Seq(Downward)
    BY <2>1, <1>6, Joined
  <2> HIDE DEF b2
  <2> QED BY <2>1, <2>2, <1>6, Joined
<1>10. Ground(ph, content, b1, r, a, 0, 0)
  <2>1. Continues(revision, content, Broadcast(g)) /\ (ph = "ready" => Fills(revision, content, Broadcast(g)))
    <3>1. CASE ph = "ready"
      BY <3>1, <1>1, LogContinues DEF Broadcast
    <3>2. CASE ph # "ready"
      <4>1. \A i \in 1..Len(Broadcast(g)) : FALSE
        BY <3>2, <1>7
      <4> QED BY <3>2, <4>1 DEF Continues
    <3> QED BY <3>1, <3>2
  <2>2. ph # "ready" => \A i \in 1..Len(Broadcast(g)) : Broadcast(g)[i] \in Mutations => Broadcast(g)[i].pos \in EntrySet
    BY <1>7
  <2> HIDE DEF ph, b0, r, a
  <2> QED BY <2>1, <2>2, <1>2, <1>3, <1>4, <1>6, GroundContinues
<1>11. /\ \A p \in Chunks, x \in Nat : ~(content[p] < x /\ x <= content[p])
       /\ \A m \in Mutations : m.pos \in Chunks /\ m.val \in Nat /\ content[m.pos] \in Nat
  BY <1>2, MessageKinds
<1>12. Ground(ph, content, b2, r, a, 0, 0)
  <2>1. Continues(content, content, told)
    BY <1>8 DEF Continues
  <2>2. Fills(content, content, told)
    BY <1>8, <1>11 DEF Fills
  <2>3. ph # "ready" => \A i \in 1..Len(told) : told[i] \in Mutations => told[i].pos \in EntrySet
    BY <1>8
  <2> HIDE DEF ph, b1, r, a
  <2> QED BY <2>1, <2>2, <2>3, <1>2, <1>4, <1>6, <1>9, <1>10, GroundContinues
<1>13. Ground(ph, content, b3, r, a, 0, 0)
  <2>1. Continues(content, content, burst)
    <3>1. \A i \in 1..Len(burst) : burst[i].val = content[burst[i].pos] /\ content[burst[i].pos] \in Nat
      BY <1>7, <1>11
    <3>2. \A i \in 1..Len(burst) : content[burst[i].pos] <= burst[i].val /\ burst[i].val <= content[burst[i].pos]
      <4> TAKE i \in 1..Len(burst)
      <4> DEFINE v == content[burst[i].pos]
      <4>1. v \in Nat /\ burst[i].val = v
        BY <3>1
      <4> HIDE DEF v
      <4>2. v <= v
        BY <4>1
      <4> QED BY <4>1, <4>2 DEF v
    <3>3. \A i, j \in 1..Len(burst) : burst[i].pos = burst[j].pos => burst[i].val <= burst[j].val
      <4> TAKE i, j \in 1..Len(burst)
      <4> HAVE burst[i].pos = burst[j].pos
      <4>1. burst[i].val = content[burst[j].pos]
        BY <3>1
      <4> QED BY <4>1, <3>2
    <3> QED BY <3>2, <3>3 DEF Continues
  <2>2. Fills(content, content, burst)
    <3>1. \A i \in 1..Len(burst), x \in Nat : ~(burst[i].val < x /\ x <= content[burst[i].pos])
      BY <1>7, <1>11
    <3> QED BY <3>1, <1>11 DEF Fills
  <2> HIDE DEF ph, b2, r, a
  <2> QED BY <2>1, <2>2, <1>2, <1>4, <1>6, <1>9, <1>12, GroundContinues DEF ph
<1>14. Ground(phase'[g], content, b3, r, a, 0, 0)
  <2>1. phase'[g] = ph \/ (ph = "pending" /\ phase'[g] = "entering")
    OBVIOUS
  <2> HIDE DEF ph
  <2> QED BY <2>1, <1>13 DEF Ground
<1>15. \A i \in 1..Len(burst) : burst[i] # Manifest /\ burst[i] # EntryAccepted
  BY <1>7, MessageKinds
<1>16. Handshake(phase'[g], c, b3, 0)
  <2>1. CASE told = <<Manifest>> /\ ph = "pending" /\ phase'[g] = "entering"
    <3>1. c = "joining" /\ b0 = <<>>
      BY <2>1, <1>1, <1>3 DEF Handshake, Connected, Quiet
    <3>2. Broadcast(g) = <<>>
      BY <2>1 DEF Broadcast
    <3>3. b2 = <<Manifest>>
      BY <2>1, <3>1, <3>2, <1>5, ConcatEmptySeq
    <3> HIDE DEF b2
    <3>4. Len(b2) = 1 /\ b2[1] = Manifest /\ Manifest # EntryAccepted
      BY <3>3, <1>5, MessageKinds
    <3>5. Handshake("entering", "joining", b2, 0)
      BY <3>4 DEF Handshake
    <3> QED BY <2>1, <3>1, <3>5, <1>6, <1>9, <1>15, HandshakeContinues
  <2>2. CASE told = <<>> /\ phase'[g] = ph
    <3>1. Handshake(ph, c, b1, 0)
      <4>1. \A i \in 1..Len(Broadcast(g)) : Broadcast(g)[i] # Manifest /\ Broadcast(g)[i] # EntryAccepted
        BY <1>7, MessageKinds
      <4> HIDE DEF ph, b0
      <4> QED BY <4>1, <1>2, <1>3, <1>6, HandshakeContinues
    <3>2. b2 = b1
      BY <2>2, <1>9, ConcatEmptySeq
    <3> HIDE DEF b1, b2
    <3>3. Handshake(ph, c, b2 \o burst, 0)
      BY <3>1, <3>2, <1>6, <1>9, <1>15, HandshakeContinues
    <3> QED BY <2>2, <3>3
  <2> QED BY <2>1, <2>2
<1>17. Midway(phase[g], revision, down[g], HalfOf(g), 0, 0)'
  <2>1. HalfOf(g)' = HalfOf(g)
    BY DEF HalfOf, clientVars
  <2>2. /\ HalfOf(g).client = c /\ HalfOf(g).replica = r /\ HalfOf(g).inbox = a
        /\ 0 \in 0..Len(a) /\ 0 \in 0..Len(b3)
    BY <1>2, <1>9, LenProperties DEF HalfOf
  <2>3. down'[g] = b3
    OBVIOUS
  <2> HIDE DEF b3
  <2>4. Midway(phase'[g], content, b3, HalfOf(g), 0, 0)
    BY <2>2, <1>3, <1>14, <1>16 DEF Midway
  <2> QED BY <2>1, <2>3, <2>4
<1>18. Quiet(g)'
  <2>1. SUFFICES ASSUME phase'[g] \in {"away", "pending"}
                 PROVE  down'[g] = <<>> /\ up'[g] = <<>> /\ inbox'[g] = <<>> /\ replica'[g] = Nowhere
    BY DEF Quiet
  <2>2. ph \in {"away", "pending"} /\ told = <<>> /\ burst = <<>>
    BY <2>1
  <2>3. b0 = <<>> /\ up[g] = <<>> /\ inbox[g] = <<>> /\ replica[g] = Nowhere /\ Broadcast(g) = <<>>
    BY <2>2, <1>1 DEF Connected, Quiet, Broadcast
  <2>4. b3 = <<>>
    BY <2>2, <2>3, <1>5, ConcatEmptySeq
  <2> QED BY <2>3, <2>4 DEF clientVars
<1>19. Reported(g)'
  <2>1. Reported(g) /\ phase[g] = "entering" => phase'[g] = "entering"
    BY <1>1 DEF Connected
  <2> QED BY <2>1, <1>1 DEF Connected, Reported, clientVars
<1> QED BY <1>9, <1>17, <1>18, <1>19 DEF Connected

LEMMA PumpKeeps ==
  ASSUME IInv, Pump
  PROVE  IInv'
<1> DEFINE Asked(needed) == UNION {ToSet(needed[g]) : g \in Guests}
           Ready(p, rev, land, store) == land[p] = "resident" /\ Payload(store, rev, p) # {}
           ChunkOf(p, rev, store) == Chunk(p, (CHOOSE c \in Payload(store, rev, p) : TRUE).val)
           Burst(g, rev, land, store, needed) ==
             LET ps == Only(needed[g], {p \in Chunks : Ready(p, rev, land, store)})
             IN  [i \in 1..Len(ps) |-> ChunkOf(ps[i], rev, store)]
           Body(dropped, rev, land, store, needed) ==
             /\ revision' = rev /\ editLog' = <<>>
             /\ cache' = store /\ encoded' = {}
             /\ encoding' \in Requested(encoding \ (encoded \cup dropped), rev,
                                {p \in Asked(needed) : land[p] = "resident" /\ ~Ready(p, rev, land, store)})
             /\ terrain' = [p \in Chunks |-> IF land[p] = "absent" /\ p \in Asked(needed)
                                             THEN "loading" ELSE land[p]]
             /\ phase' = [g \in Guests |-> IF Prepared(g, land) THEN "entering" ELSE phase[g]]
             /\ sent' = [g \in Guests |-> Recorded(Remembered(g), ToSet(needed[g]),
                                                {p \in ToSet(needed[g]) : Ready(p, rev, land, store)})]
             /\ down' = [g \in Guests |-> down[g] \o Broadcast(g)
                          \o (IF Prepared(g, land) THEN <<Manifest>> ELSE <<>>)
                          \o Burst(g, rev, land, store, needed)]
             /\ \A g \in Guests : Room(down'[g])
             /\ UNCHANGED <<content, edits, hostPos, up, clientVars>>
<1>1. PICK cancelled, dropped, rev, land, store, needed :
        /\ rev = Invalidated /\ land = Adopted(cancelled) /\ store = Drained(rev)
        /\ needed = [g \in Guests |-> Needed(g, land)]
        /\ Body(dropped, rev, land, store, needed)
  <2>1. \E can \in SUBSET {p \in Chunks : terrain[p] = "loading" /\ ~Wanted(p)},
           dropped \in SUBSET {j \in encoding \ encoded : ~Wanted(j.pos)} :
        \E rev \in {Invalidated}, land \in {Adopted(can)} :
        \E store \in {Drained(rev)}, needed \in {[g \in Guests |-> Needed(g, land)]} :
          Body(dropped, rev, land, store, needed)
    BY DEF Pump
  <2> HIDE DEF Body
  <2> QED BY <2>1, Zenon
<1>2. TypeOK /\ WorldOK /\ EncoderOK /\ PayloadsCurrent /\ GuestOK
  BY DEF IInv
<1>3. /\ content \in [Chunks -> 0..MaxEdits] /\ editLog \in Seq(Mutations)
      /\ encoding \in SUBSET Jobs /\ encoded \in SUBSET encoding /\ cache \in SUBSET Jobs
      /\ IsFiniteSet(encoding) /\ Cardinality(encoding) <= EncodeLimit /\ Keyed(encoding)
      /\ terrain \in [Chunks -> {"absent", "loading", "prepared", "resident"}]
      /\ phase \in [Guests -> {"away", "pending", "entering", "ready"}]
      /\ sent \in [Guests -> SUBSET Chunks]
      /\ revision \in [Chunks -> 0..MaxEdits]
      /\ MaxEdits \in Nat
  BY <1>2, StreamingAssumption DEF TypeOK, EncoderOK, Keyed
<1>4. rev = content
  <2>1. \A p \in Chunks : rev[p] = content[p]
    BY <1>1, <1>2 DEF Invalidated, WorldOK, Logged
  <2>2. rev = [p \in Chunks |-> rev[p]] /\ content = [p \in Chunks |-> content[p]]
    BY <1>1, <1>3 DEF Invalidated
  <2> QED BY <2>1, <2>2
<1>5. \A p \in Chunks : revision[p] <= content[p] /\ (revision[p] = content[p] => ~\E m \in ToSet(editLog) : m.pos = p)
  <2> TAKE p \in Chunks
  <2>1. DOMAIN editLog = 1..Len(editLog) /\ Len(editLog) \in Nat /\ ToSet(editLog) = {editLog[i] : i \in 1..Len(editLog)}
    BY <1>3, LenProperties, SetOf
  <2>2. IsFiniteSet(1..Len(editLog))
    BY <2>1, FS_Interval
  <2>3. Logged(p) \in SUBSET (1..Len(editLog))
    BY <2>1 DEF Logged
  <2>4. Cardinality(Logged(p)) \in Nat /\ (Cardinality(Logged(p)) = 0 => Logged(p) = {})
    BY <2>2, <2>3, FS_Subset, FS_CardinalityType, FS_EmptySet
  <2>5. revision[p] + Cardinality(Logged(p)) = content[p]
    BY <1>2 DEF WorldOK
  <2>6. revision[p] <= content[p] /\ (revision[p] = content[p] => Logged(p) = {})
    BY <2>4, <2>5, <1>3
  <2>7. Logged(p) = {} => ~\E m \in ToSet(editLog) : m.pos = p
    BY <2>1 DEF Logged
  <2> QED BY <2>6, <2>7
<1>6. \A c \in store : c \in Jobs /\ c.rev = content[c.pos] /\ c.val = content[c.pos]
  <2> SUFFICES ASSUME NEW c \in store PROVE c \in Jobs /\ c.rev = content[c.pos] /\ c.val = content[c.pos]
    OBVIOUS
  <2>1. c \in cache \cup encoded /\ c.rev = content[c.pos]
    BY <1>1, <1>4 DEF Drained
  <2>2. c \in Jobs /\ c.pos \in Chunks
    BY <2>1, <1>3 DEF Jobs
  <2>3. CASE c \in cache
    BY <2>1, <2>2, <2>3, <1>2 DEF EncoderOK
  <2>4. CASE c \in encoding
    <3>1. c.rev <= revision[c.pos]
      BY <2>4, <1>2 DEF EncoderOK
    <3>2. revision[c.pos] = content[c.pos]
      BY <2>1, <2>2, <3>1, <1>3, <1>5
    <3> QED BY <2>1, <2>2, <2>4, <3>2, <1>2, <1>5 DEF PayloadsCurrent
  <2> QED BY <2>1, <2>3, <2>4, <1>3
<1>7. /\ revision' = content /\ editLog' = <<>> /\ cache' = store /\ encoded' = {}
      /\ encoding' \in Requested(encoding \ (encoded \cup dropped), content,
                         {p \in Asked(needed) : land[p] = "resident" /\ ~Ready(p, rev, land, store)})
      /\ terrain' = [p \in Chunks |-> IF land[p] = "absent" /\ p \in Asked(needed)
                                      THEN "loading" ELSE land[p]]
      /\ phase' = [g \in Guests |-> IF Prepared(g, land) THEN "entering" ELSE phase[g]]
      /\ sent' = [g \in Guests |-> Recorded(Remembered(g), ToSet(needed[g]),
                                         {p \in ToSet(needed[g]) : Ready(p, rev, land, store)})]
      /\ down' = [g \in Guests |-> down[g] \o Broadcast(g)
                   \o (IF Prepared(g, land) THEN <<Manifest>> ELSE <<>>)
                   \o Burst(g, rev, land, store, needed)]
      /\ \A g \in Guests : Room(down'[g])
      /\ UNCHANGED <<content, edits, hostPos, up, clientVars>>
  BY <1>1, <1>4
<1>8. \A g \in Guests :
        /\ needed[g] \in Seq(Chunks)
        /\ phase[g] # "ready" => needed[g] \in Seq(EntrySet)
        /\ phase[g] # "ready" /\ phase[g] # "entering" /\ ~Prepared(g, land) => needed[g] = <<>>
  <2> HIDE DEF Body
  <2> TAKE g \in Guests
  <2>1. needed[g] = Needed(g, land)
    BY <1>1
  <2> QED BY <2>1, <1>2, NeededWithin
<1>9. ASSUME NEW g \in Guests
      PROVE  LET B == Burst(g, rev, land, store, needed) IN
             /\ B \in Seq(Mutations)
             /\ \A i \in 1..Len(B) : B[i].kind = "Chunk" /\ B[i].val = content[B[i].pos]
             /\ phase[g] # "ready" => \A i \in 1..Len(B) : B[i].pos \in EntrySet
             /\ needed[g] = <<>> => B = <<>>
  <2> DEFINE S == {p \in Chunks : Ready(p, rev, land, store)}
             ps == Only(needed[g], S)
             B == [i \in 1..Len(ps) |-> ChunkOf(ps[i], rev, store)]
  <2>1. \A p \in S : ChunkOf(p, rev, store) = Chunk(p, content[p])
    <3> TAKE p \in S
    <3>1. \A c \in Payload(store, rev, p) : c.val = content[p]
      BY <1>6 DEF Payload
    <3>2. Payload(store, rev, p) # {}
      OBVIOUS
    <3> QED BY <3>1, <3>2
  <2>2. S \subseteq Chunks
    OBVIOUS
  <2>3. Burst(g, rev, land, store, needed) = B
    OBVIOUS
  <2> HIDE DEF S, Ready, ChunkOf, Burst
  <2>4. \A T : needed[g] \in Seq(T) => ps \in Seq(T \cap S)
    BY OnlyKeeps
  <2>5. ps \in Seq(Chunks \cap S) /\ (phase[g] # "ready" => ps \in Seq(EntrySet \cap S))
        /\ (needed[g] = <<>> => ps \in Seq({} \cap S))
    <3>1. <<>> \in Seq({})
      OBVIOUS
    <3> QED BY <2>4, <3>1, <1>8
  <2> HIDE DEF ps
  <2>6. /\ Len(ps) \in Nat
        /\ \A i \in 1..Len(ps) : ps[i] \in S /\ ps[i] \in Chunks
        /\ phase[g] # "ready" => \A i \in 1..Len(ps) : ps[i] \in EntrySet
        /\ needed[g] = <<>> => \A i \in 1..Len(ps) : FALSE
    <3>1. Len(ps) \in Nat /\ \A i \in 1..Len(ps) : ps[i] \in Chunks \cap S
      BY <2>5, SetOf
    <3>2. phase[g] # "ready" => \A i \in 1..Len(ps) : ps[i] \in EntrySet \cap S
      BY <2>5, SetOf
    <3>3. needed[g] = <<>> => \A i \in 1..Len(ps) : ps[i] \in {} \cap S
      BY <2>5, SetOf
    <3> QED BY <3>1, <3>2, <3>3
  <2>7. \A i \in 1..Len(ps) : B[i] = Chunk(ps[i], content[ps[i]])
    <3> TAKE i \in 1..Len(ps)
    <3>1. B[i] = ChunkOf(ps[i], rev, store)
      OBVIOUS
    <3>2. ps[i] \in S
      BY <2>6
    <3> HIDE DEF B
    <3>3. ChunkOf(ps[i], rev, store) = Chunk(ps[i], content[ps[i]])
      BY <2>1, <3>2
    <3> QED BY <3>1, <3>3
  <2>8. \A p \in Chunks : Chunk(p, content[p]) \in Mutations
    BY <1>3, MessageKinds
  <2>9. B \in Seq(Mutations) /\ Len(B) = Len(ps)
    <3>1. \A i \in 1..Len(ps) : B[i] \in Mutations
      <4> HIDE DEF B
      <4> QED BY <2>6, <2>7, <2>8
    <3>2. B = [i \in 1..Len(ps) |-> B[i]]
      OBVIOUS
    <3> HIDE DEF B
    <3>3. B \in [1..Len(ps) -> Mutations]
      BY <3>1, <3>2
    <3>4. \A n \in Nat : \A f \in [1..n -> Mutations] : f \in Seq(Mutations) /\ Len(f) = n
      OBVIOUS
    <3> QED BY <2>6, <3>3, <3>4
  <2> HIDE DEF B
  <2>10. \A i \in 1..Len(B) : B[i].kind = "Chunk" /\ B[i].pos = ps[i] /\ B[i].val = content[ps[i]]
    BY <2>7, <2>9, MessageKinds
  <2>11. needed[g] = <<>> => B = <<>>
    <3> SUFFICES ASSUME needed[g] = <<>> PROVE B = <<>>
      OBVIOUS
    <3>1. \A n \in Nat : (\A i \in 1..n : FALSE) => n = 0
      <4> SUFFICES ASSUME NEW n \in Nat, \A i \in 1..n : FALSE, n # 0 PROVE FALSE
        OBVIOUS
      <4>1. 1 \in 1..n
        OBVIOUS
      <4> QED BY <4>1
    <3>2. Len(B) = 0
      BY <2>6, <2>9, <3>1
    <3> QED BY <2>9, <3>2, EmptySeq
  <2>12. phase[g] # "ready" => \A i \in 1..Len(B) : B[i].pos \in EntrySet
    <3>1. \A i \in 1..Len(B) : i \in 1..Len(ps) /\ B[i].pos = ps[i]
      BY <2>9, <2>10
    <3> QED BY <2>6, <3>1
  <2>13. \A i \in 1..Len(B) : B[i].kind = "Chunk" /\ B[i].val = content[B[i].pos]
    BY <2>10
  <2> QED BY <2>3, <2>9, <2>11, <2>12, <2>13
<1> HIDE DEF Burst, Ready, ChunkOf, Asked, Body
<1>10. ASSUME NEW g \in Guests PROVE Connected(g)' /\ down'[g] \in Seq(Downward)
  <2> DEFINE told == IF Prepared(g, land) THEN <<Manifest>> ELSE <<>>
             B == Burst(g, rev, land, store, needed)
  <2>1. /\ B \in Seq(Mutations)
        /\ \A i \in 1..Len(B) : B[i].kind = "Chunk" /\ B[i].val = content[B[i].pos]
        /\ phase[g] # "ready" => \A i \in 1..Len(B) : B[i].pos \in EntrySet
        /\ needed[g] = <<>> => B = <<>>
    BY <1>9
  <2>2. down'[g] = down[g] \o Broadcast(g) \o told \o B
    BY <1>7
  <2>3. \/ /\ told = <<Manifest>> /\ phase[g] = "pending" /\ phase'[g] = "entering"
        \/ /\ told = <<>> /\ phase'[g] = phase[g]
           /\ phase[g] \in {"away", "pending"} => B = <<>>
    <3>1. CASE Prepared(g, land)
      BY <3>1, <1>7 DEF Prepared
    <3>2. CASE ~Prepared(g, land)
      <4>1. phase'[g] = phase[g]
        BY <3>2, <1>7
      <4>2. phase[g] \in {"away", "pending"} => needed[g] = <<>>
        BY <3>2, <1>8
      <4> QED BY <3>2, <4>1, <4>2, <2>1
    <3> QED BY <3>1, <3>2
  <2> HIDE DEF told, B
  <2>4. revision' = content /\ UNCHANGED clientVars /\ up' = up
    BY <1>7
  <2> QED BY <2>1, <2>2, <2>3, <2>4, PumpConnected
<1>11. /\ encoding' \in SUBSET Jobs /\ IsFiniteSet(encoding') /\ Cardinality(encoding') <= EncodeLimit
       /\ Keyed(encoding')
       /\ \A c \in encoding' : c \in encoding \/ \E q \in Chunks : c = Job(content, q)
  <2> DEFINE jobs == encoding \ (encoded \cup dropped)
             ps == {p \in Asked(needed) : land[p] = "resident" /\ ~Ready(p, rev, land, store)}
  <2>1. jobs \in SUBSET encoding
    OBVIOUS
  <2>2. encoding' \in Requested(jobs, content, ps)
    BY <1>7
  <2>3. ps \in SUBSET Chunks
    <3>1. \A g \in Guests : ToSet(needed[g]) \subseteq Chunks
      <4> TAKE g \in Guests
      <4>1. needed[g] \in Seq(Chunks)
        BY <1>8
      <4>2. ToSet(needed[g]) = {needed[g][i] : i \in 1..Len(needed[g])} /\ \A i \in 1..Len(needed[g]) : needed[g][i] \in Chunks
        BY <4>1, SetOf
      <4> QED BY <4>2
    <3>2. Asked(needed) \subseteq Chunks
      BY <3>1 DEF Asked
    <3> QED BY <3>2
  <2> HIDE DEF jobs, ps
  <2>4. jobs \in SUBSET Jobs /\ IsFiniteSet(jobs) /\ Keyed(jobs)
    BY <2>1, <1>3, FS_Subset DEF Keyed
  <2>5. Cardinality(jobs) <= EncodeLimit
    <3>1. Cardinality(jobs) <= Cardinality(encoding) /\ Cardinality(jobs) \in Nat /\ Cardinality(encoding) \in Nat
      BY <2>1, <2>4, <1>3, FS_Subset, FS_CardinalityType
    <3> QED BY <3>1, <1>3, StreamingAssumption
  <2>6. /\ encoding' \in SUBSET Jobs /\ IsFiniteSet(encoding') /\ Cardinality(encoding') <= EncodeLimit
        /\ Keyed(encoding')
        /\ \A c \in encoding' : c \in jobs \/ \E q \in Chunks : c = Job(content, q)
    <3>1. content \in [Chunks -> 0..MaxEdits]
      BY <1>3
    <3> HIDE DEF Keyed, Jobs, Requested
    <3> QED BY <2>2, <2>3, <2>4, <2>5, <3>1, RequestedWithin
  <2> QED BY <2>1, <2>6
<1>12. \A c : (\E q \in Chunks : c = Job(content, q)) =>
         c.pos \in Chunks /\ c.rev = content[c.pos] /\ c.val = content[c.pos]
  BY DEF Job
<1>13. TypeOK'
  <2>1. terrain' \in [Chunks -> {"absent", "loading", "prepared", "resident"}]
    <3>1. \A p \in Chunks : land[p] \in {"absent", "loading", "prepared", "resident"}
      BY <1>1, <1>3 DEF Adopted
    <3> QED BY <3>1, <1>7
  <2>2. phase' \in [Guests -> {"away", "pending", "entering", "ready"}]
    BY <1>3, <1>7
  <2>3. sent' \in [Guests -> SUBSET Chunks]
    <3>1. \A g \in Guests : Remembered(g) \cup ToSet(needed[g]) \subseteq Chunks
      <4> TAKE g \in Guests
      <4>1. needed[g] \in Seq(Chunks)
        BY <1>8
      <4>2. ToSet(needed[g]) = {needed[g][i] : i \in 1..Len(needed[g])} /\ \A i \in 1..Len(needed[g]) : needed[g][i] \in Chunks
        BY <4>1, SetOf
      <4> QED BY <4>2, <1>3 DEF Remembered
    <3>2. \A g \in Guests :
            Recorded(Remembered(g), ToSet(needed[g]), {p \in ToSet(needed[g]) : Ready(p, rev, land, store)})
              \in SUBSET Chunks
      BY <3>1 DEF Recorded
    <3> QED BY <3>2, <1>7
  <2>4. down' \in [Guests -> Seq(Downward)]
    BY <1>7, <1>10
  <2>5. editLog' \in Seq(Mutations) /\ cache' \subseteq Jobs /\ encoded' \subseteq encoding'
    BY <1>6, <1>7
  <2>6. \A g \in Guests : Room(down'[g]) /\ Room(up'[g])
    BY <1>2, <1>7 DEF TypeOK
  <2> QED BY <2>1, <2>2, <2>3, <2>4, <2>5, <2>6, <1>2, <1>3, <1>7, <1>11 DEF TypeOK, Keyed, clientVars
<1>14. WorldOK'
  <2>1. Len(editLog') = 0 /\ \A p \in Chunks : Logged(p)' = {}
    BY <1>7 DEF Logged
  <2>2. \A p \in Chunks : content[p] \in Nat /\ content[p] + Cardinality({}) = content[p] /\ content[p] <= edits
    BY <1>2, <1>3, FS_EmptySet DEF WorldOK
  <2>3. \A p \in Chunks : \A x \in content[p] + 1..content[p] : FALSE
    BY <2>2
  <2>4. \A i \in 1..Len(editLog') : FALSE
    BY <2>1
  <2>5. \A p \in Chunks : content'[p] <= edits' /\ revision'[p] + Cardinality(Logged(p)') = content'[p]
    BY <2>1, <2>2, <1>7
  <2>6. \A p \in Chunks : \A x \in revision'[p] + 1..content'[p] : FALSE
    BY <2>3, <1>7
  <2> QED BY <2>4, <2>5, <2>6 DEF WorldOK
<1>15. EncoderOK'
  <2>1. \A c \in encoding' : c.rev <= content[c.pos]
    <3> TAKE c \in encoding'
    <3>1. CASE c \in encoding
      <4>1. c.rev <= revision[c.pos] /\ c.pos \in Chunks /\ c.rev \in Nat
        BY <3>1, <1>2, <1>3 DEF EncoderOK, Jobs
      <4> QED BY <4>1, <1>3, <1>5
    <3>2. CASE \E q \in Chunks : c = Job(content, q)
      <4>1. c.pos \in Chunks /\ c.rev = content[c.pos]
        BY <3>2, <1>12
      <4>2. content[c.pos] \in Nat
        BY <4>1, <1>3
      <4>3. \A v \in Nat : v <= v
        OBVIOUS
      <4> QED BY <4>1, <4>2, <4>3
    <3> QED BY <3>1, <3>2, <1>11
  <2>2. \A c \in store : c.val = c.rev /\ c.rev <= content[c.pos]
    <3> TAKE c \in store
    <3>1. c.pos \in Chunks /\ c.rev = content[c.pos] /\ c.val = content[c.pos]
      BY <1>6 DEF Jobs
    <3> QED BY <3>1, <1>3
  <2> QED BY <2>1, <2>2, <1>7, <1>11 DEF EncoderOK
<1>16. PayloadsCurrent'
  <2> SUFFICES ASSUME NEW c \in store \cup encoding', c.rev = content[c.pos]
               PROVE  c.val = content[c.pos]
    BY <1>7 DEF PayloadsCurrent
  <2>1. CASE c \in store
    BY <2>1, <1>6
  <2>2. CASE c \in encoding
    <3>1. c.rev <= revision[c.pos] /\ c.pos \in Chunks
      BY <2>2, <1>2, <1>3 DEF EncoderOK, Jobs
    <3>2. revision[c.pos] = content[c.pos]
      BY <3>1, <1>3, <1>5
    <3> QED BY <2>2, <3>1, <3>2, <1>2, <1>5 DEF PayloadsCurrent
  <2>3. CASE \E q \in Chunks : c = Job(content, q)
    BY <2>3, <1>12
  <2> QED BY <2>1, <2>2, <2>3, <1>11
<1>17. GuestOK'
  BY <1>10 DEF GuestOK
<1> QED BY <1>13, <1>14, <1>15, <1>16, <1>17 DEF IInv

-----------------------------------------------------------------------------
(* The invariant is inductive. *)

LEMMA InitIInv == Init => IInv
<1> SUFFICES ASSUME Init PROVE IInv
  OBVIOUS
<1>1. Cardinality({}) = 0 /\ IsFiniteSet({}) /\ EncodeLimit \in Nat \ {0} /\ MaxEdits \in Nat /\ MaxFlight \in Nat
      /\ Spawn \in Places
  BY FS_EmptySet, StreamingAssumption
<1>2. Len(editLog) = 0 /\ (\A i \in 1..Len(editLog) : FALSE) /\ \A p \in Chunks : Logged(p) = {}
  BY DEF Init, Logged
<1>3. Nowhere \in Replicas /\ Room(<<>>)
  BY <1>1 DEF Nowhere, Replicas, Room
<1>4. TypeOK
  <2>1. /\ <<>> \in Seq(Mutations) /\ <<>> \in Seq(Downward) /\ <<>> \in Seq(Upward)
    OBVIOUS
  <2>2. /\ editLog \in Seq(Mutations) /\ inbox \in [Guests -> Seq(Mutations)]
        /\ down \in [Guests -> Seq(Downward)] /\ up \in [Guests -> Seq(Upward)]
        /\ \A g \in Guests : Room(down[g]) /\ Room(up[g])
    BY <1>3, <2>1 DEF Init
  <2>3. replica \in [Guests -> [Chunks -> 0..MaxEdits \cup {None}]]
    BY <1>3 DEF Init, Replicas
  <2>4. /\ content \in [Chunks -> 0..MaxEdits] /\ revision \in [Chunks -> 0..MaxEdits] /\ edits \in 0..MaxEdits
        /\ terrain \in [Chunks -> {"absent", "loading", "prepared", "resident"}]
    BY <1>1 DEF Init
  <2>5. /\ encoding \subseteq Jobs /\ encoded \subseteq encoding /\ cache \subseteq Jobs
        /\ Cardinality(encoding) <= EncodeLimit
        /\ \A i, j \in encoding : i.pos = j.pos /\ i.rev = j.rev => i = j
    BY <1>1 DEF Init
  <2>6. /\ phase \in [Guests -> {"away", "pending", "entering", "ready"}]
        /\ hostPos \in [Guests -> Places] /\ pos \in [Guests -> Places]
        /\ sent \in [Guests -> SUBSET Chunks] /\ wants \in [Guests -> SUBSET Chunks]
        /\ client \in [Guests -> {"idle", "joining", "receiving", "readySent", "active"}]
    BY <1>1 DEF Init
  <2> QED BY <2>2, <2>3, <2>4, <2>5, <2>6 DEF TypeOK
<1>5. WorldOK
  <2>1. \A p \in Chunks : content[p] = 0 /\ revision[p] = 0 /\ edits = 0
    BY DEF Init
  <2>2. \A p \in Chunks : content[p] <= edits /\ revision[p] + Cardinality(Logged(p)) = content[p]
    <3> TAKE p \in Chunks
    <3>1. Cardinality(Logged(p)) = 0
      BY <1>1, <1>2
    <3> QED BY <2>1, <3>1
  <2>3. \A p \in Chunks : \A x \in revision[p] + 1..content[p] : FALSE
    BY <2>1
  <2> QED BY <1>2, <2>2, <2>3 DEF WorldOK
<1>6. EncoderOK /\ PayloadsCurrent
  BY <1>1 DEF Init, EncoderOK, PayloadsCurrent
<1>7. ASSUME NEW g \in Guests PROVE Connected(g)
  <2> DEFINE h == HalfOf(g)
  <2>1. /\ phase[g] = "away" /\ client[g] = "idle" /\ down[g] = <<>> /\ up[g] = <<>> /\ inbox[g] = <<>>
        /\ replica[g] = Nowhere /\ wants[g] = {}
    BY DEF Init
  <2>2. h = [client |-> "idle", replica |-> Nowhere, inbox |-> <<>>, wants |-> {}]
    BY <2>1 DEF HalfOf
  <2> HIDE DEF h
  <2>3. /\ h \in Half /\ h.client = "idle" /\ h.replica = Nowhere /\ h.inbox = <<>>
        /\ 0 \in 0..Len(h.inbox) /\ 0 \in 0..Len(<<>>)
    BY <1>3, <2>2 DEF Half
  <2>4. /\ Handshake("away", h.client, <<>>, 0) /\ Grounded(h.client, h.replica)
        /\ Ground("away", revision, <<>>, h.replica, h.inbox, 0, 0)
    BY <2>3, NothingUnderWay
  <2>5. Midway(phase[g], revision, down[g], h, 0, 0)
    BY <2>1, <2>3, <2>4 DEF Midway
  <2>6. Quiet(g) /\ Reported(g)
    BY <2>1 DEF Quiet, Reported
  <2> QED BY <2>5, <2>6 DEF Connected, h
<1> QED BY <1>4, <1>5, <1>6, <1>7 DEF IInv, GuestOK

LEMMA StutterKeeps ==
  ASSUME IInv, UNCHANGED vars
  PROVE  IInv'
<1>1. UNCHANGED <<worldVars, encoderVars, hostVars, down, up, clientVars>>
  BY DEF vars
<1>2. TypeOK'
  BY <1>1 DEF IInv, TypeOK, Room, worldVars, encoderVars, hostVars, clientVars
<1>3. WorldOK' /\ EncoderOK' /\ PayloadsCurrent'
  BY <1>1, StillWorld DEF IInv
<1>4. GuestOK'
  BY <1>1, StillGuests DEF IInv, encoderVars, hostVars
<1> QED BY <1>2, <1>3, <1>4 DEF IInv

LEMMA StepKeeps ==
  ASSUME IInv, [Next]_vars
  PROVE  IInv'
<1>1. CASE Pump
  BY <1>1, PumpKeeps
<1>2. CASE \E g \in Guests : HandleEntryReady(g) \/ HandleRequest(g) \/ HearMove(g)
  <2>1. PICK g \in Guests : HandleEntryReady(g) \/ HandleRequest(g) \/ HearMove(g)
    BY <1>2
  <2> QED BY <2>1, HandleEntryReadyKeeps, HandleRequestKeeps, HearMoveKeeps
<1>3. CASE \E p \in Chunks : Edit(p) \/ Load(p)
  <2>1. PICK p \in Chunks : Edit(p) \/ Load(p)
    BY <1>3
  <2> QED BY <2>1, EditKeeps, LoadKeeps
<1>4. CASE \E j \in encoding : Encode(j)
  BY <1>4, EncodeKeeps
<1>5. CASE \E g \in Guests : Join(g)
  BY <1>5, JoinKeeps
<1>6. CASE \E g \in Guests : Leave(g)
  BY <1>6, LeaveKeeps
<1>7. CASE \E g \in Guests : \E k \in 0..Len(down[g]), pl \in Places : Frame(g, k, pl)
  BY <1>7, FrameKeeps
<1>8. CASE UNCHANGED vars
  BY <1>8, StutterKeeps
<1> QED BY <1>1, <1>2, <1>3, <1>4, <1>5, <1>6, <1>7, <1>8 DEF Next, HostStep, WorldStep, GuestStep

\* Streaming keeps its inductive invariant: revisions count broadcast edits, a
\* payload has the edits its revision counts, and what is on its way to a guest
\* only moves its ground forward, with no edit of the ring left out.
THEOREM StreamingInductive == Spec => []IInv
<1>1. IInv /\ [Next]_vars => IInv'
  BY StepKeeps
<1> QED BY InitIInv, <1>1, PTL DEF Spec

\* What the host holds to send is well typed, within the encoder's budget and
\* current (multiplayer/host/chunk_jobs.rs), with any number of guests.
THEOREM StreamCurrent == Spec => []StreamInv
<1>1. IInv => StreamInv
  BY DEF IInv, StreamInv
<1> QED BY <1>1, StreamingInductive, PTL

-----------------------------------------------------------------------------
(* What a guest will hold. *)

Values == 0..MaxEdits \cup {None}

LEMMA TakeInTypes ==
  ASSUME NEW v \in Values, NEW p, NEW m
  PROVE  TakeIn(v, p, m) \in Values
BY MessageKinds DEF TakeIn, Values

\* What is under way is taken in one message at a time.
LEMMA SettledRuns ==
  ASSUME NEW g, NEW p, replica[g][p] \in Values, Pipeline(g) \in Seq(Downward)
  PROVE  \E f : /\ f[0] = replica[g][p]
                /\ \A n \in 1..Len(Pipeline(g)) : f[n] = TakeIn(f[n - 1], p, Pipeline(g)[n])
                /\ Settled(g, p) = f[Len(Pipeline(g))]
<1> DEFINE q == Pipeline(g)
           N == Len(q)
           r == replica[g][p]
           Grown(n, v) == TakeIn(v, p, q[n])
           Body(f) == [n \in 0..N |-> IF n = 0 THEN r ELSE Grown(n, f[n - 1])]
           step == [n \in 1..N |-> [v \in Values |-> Grown(n, v)]]
           upTo == CHOOSE f : f = Body(f)
<1>1. N \in Nat
  BY LenProperties
<1>2. r \in Values /\ \A n \in 1..N, v \in Values : Grown(n, v) \in Values
  BY TakeInTypes
<1>3. Settled(g, p) = upTo[N]
  BY DEF Settled
<1> HIDE DEF Grown, N, r
<1>4. step \in Steps(N, Values)
  BY <1>1, <1>2 DEF Steps
<1>5. \A n \in 1..N, v \in Values : step[n][v] = Grown(n, v)
  OBVIOUS
<1> HIDE DEF step
<1>6. PICK f : Runs(f, N, Values, r, step)
  BY <1>1, <1>2, <1>4, Recursion
<1>7. f = Body(f)
  <2>1. \A n \in 1..N : f[n - 1] \in Values
    BY <1>1, <1>6 DEF Runs
  <2>2. \A n \in 0..N : f[n] = IF n = 0 THEN r ELSE Grown(n, f[n - 1])
    BY <1>1, <1>5, <1>6, <2>1 DEF Runs
  <2> QED BY <1>6, <2>2 DEF Runs
<1>8. upTo = Body(upTo)
  <2> HIDE DEF Body
  <2> QED BY <1>7
<1> HIDE DEF upTo
<1>9. upTo[0] = r /\ \A n \in 1..N : upTo[n] = Grown(n, upTo[n - 1])
  <2>1. \A n \in 0..N : upTo[n] = IF n = 0 THEN r ELSE Grown(n, upTo[n - 1])
    BY <1>8
  <2> QED BY <1>1, <2>1
<1>10. /\ upTo[0] = replica[g][p] /\ \A n \in 1..Len(q) : upTo[n] = TakeIn(upTo[n - 1], p, q[n])
       /\ Settled(g, p) = upTo[Len(q)]
  BY <1>3, <1>9 DEF Grown, N, r
<1> QED BY <1>10

\* After i places of what is under way (w), edits above v of chunk p are still to come.
Ahead(w, p, v, i, top) ==
  v <= top /\ \A x \in v + 1..top : \E l \in i + 1..Len(w) : w[l] = BlockSet(p, x)

\* A chunk whose snapshots and edits each have the later edits behind them ends
\* up as the last of them has it, or is not held.
LEMMA SettlesOn ==
  ASSUME NEW p \in Chunks, NEW top \in Nat, NEW w \in Seq(Downward), NEW f, f[0] \in Values,
         \A n \in 1..Len(w) : f[n] = TakeIn(f[n - 1], p, w[n]),
         f[0] # None => Ahead(w, p, f[0], 0, top),
         \A i \in 1..Len(w) : w[i] \in Mutations /\ w[i].pos = p => Ahead(w, p, w[i].val, i, top)
  PROVE  f[Len(w)] \in {None, top}
<1> DEFINE N == Len(w)
           good == {n \in 0..N : f[n] \in Values /\ (f[n] # None => Ahead(w, p, f[n], n, top))}
<1>1. N \in Nat /\ MaxEdits \in Nat
  BY LenProperties, StreamingAssumption
<1>2. 0 \in good
  BY <1>1
<1>3. ASSUME NEW n \in 1..N, n - 1 \in good PROVE n \in good
  <2>1. f[n] = TakeIn(f[n - 1], p, w[n]) /\ f[n - 1] \in Values
    BY <1>3
  <2>2. f[n] \in Values
    BY <2>1, TakeInTypes
  <2>3. CASE w[n] \in Mutations /\ w[n].pos = p /\ (w[n].kind = "Chunk") = (f[n - 1] = None)
    <3>1. f[n] = w[n].val
      BY <2>1, <2>3 DEF TakeIn
    <3>2. Ahead(w, p, w[n].val, n, top)
      BY <2>3
    <3> QED BY <2>2, <3>1, <3>2, <1>1
  <2>4. CASE ~(w[n] \in Mutations /\ w[n].pos = p /\ (w[n].kind = "Chunk") = (f[n - 1] = None))
    <3>1. f[n] = f[n - 1]
      BY <2>1, <2>4 DEF TakeIn
    <3>2. f[n] # None => Ahead(w, p, f[n], n, top)
      <4> SUFFICES ASSUME f[n] # None PROVE Ahead(w, p, f[n], n, top)
        OBVIOUS
      <4>1. Ahead(w, p, f[n], n - 1, top)
        BY <1>3, <3>1
      <4>2. ASSUME NEW x \in f[n] + 1..top PROVE \E l \in n + 1..Len(w) : w[l] = BlockSet(p, x)
        <5>1. f[n] \in 0..MaxEdits /\ x \in Nat
          BY <2>2, <1>1 DEF Values
        <5>2. PICK l \in (n - 1) + 1..Len(w) : w[l] = BlockSet(p, x)
          BY <4>1, <4>2 DEF Ahead
        <5>3. l \in 1..N /\ w[l] \in Downward
          <6>1. l \in 1..N
            BY <5>2, <1>1
          <6> QED BY <6>1, SetOf
        <5>4. w[l] \in Mutations /\ w[l].pos = p /\ w[l].kind = "BlockSet"
          BY <5>2, <5>3, MessageKinds DEF Downward
        <5>5. l # n
          BY <2>4, <3>1, <5>4
        <5>6. l \in n + 1..Len(w)
          BY <5>2, <5>5, <1>1
        <5> QED BY <5>2, <5>6
      <4> QED BY <4>1, <4>2 DEF Ahead
    <3> QED BY <2>2, <3>2, <1>1
  <2> QED BY <2>3, <2>4
<1>4. N \in good
  <2> HIDE DEF good, N
  <2>1. \A n \in 0..N : n \in good
    BY <1>1, <1>2, <1>3, Climb
  <2> QED BY <1>1, <2>1
<1>5. ASSUME f[N] # None PROVE f[N] = top
  <2>1. f[N] \in 0..MaxEdits /\ Ahead(w, p, f[N], N, top)
    BY <1>4, <1>5 DEF Values
  <2>2. f[N] \in Nat /\ f[N] <= top
    BY <1>1, <2>1 DEF Ahead
  <2>3. ASSUME f[N] < top PROVE FALSE
    <3>1. top \in f[N] + 1..top
      BY <2>2, <2>3
    <3>2. \E l \in N + 1..N : w[l] = BlockSet(p, top)
      BY <2>1, <3>1 DEF Ahead
    <3> QED BY <3>2, <1>1
  <2> QED BY <2>2, <2>3
<1> QED BY <1>5

LEMMA RingCoherent ==
  ASSUME IInv
  PROVE  RingTerrainCoherent
<1> SUFFICES ASSUME NEW g \in Guests, NEW p \in Chunks \ EntrySet, phase[g] = "ready"
             PROVE  Settled(g, p) \in {None, content[p]}
  BY DEF RingTerrainCoherent, EntrySet
<1> DEFINE r == replica[g]
           a == inbox[g]
           b == down[g] \o editLog
           w == Pipeline(g)
<1>1. TypeOK /\ WorldOK /\ Connected(g)
  BY DEF IInv, GuestOK
<1>2. /\ revision \in [Chunks -> Nat] /\ content \in [Chunks -> Nat] /\ r \in Replicas
      /\ a \in Seq(Mutations) /\ a \in Seq(Downward) /\ editLog \in Seq(Mutations)
      /\ editLog \in Seq(Downward) /\ down[g] \in Seq(Downward)
  <2>1. /\ revision \in [Chunks -> Nat] /\ content \in [Chunks -> Nat] /\ r \in Replicas
        /\ a \in Seq(Mutations) /\ editLog \in Seq(Mutations) /\ down[g] \in Seq(Downward)
    BY <1>1, StreamingAssumption DEF TypeOK, Replicas
  <2>2. Mutations \subseteq Downward
    BY DEF Downward
  <2> QED BY <2>1, <2>2, SeqWithin
<1>3. \A q \in Chunks : revision[q] <= content[q]
  <2> TAKE q \in Chunks
  <2>1. DOMAIN editLog = 1..Len(editLog) /\ IsFiniteSet(1..Len(editLog))
    <3>1. DOMAIN editLog = 1..Len(editLog) /\ Len(editLog) \in Nat
      BY <1>2, LenProperties
    <3>2. \A n \in Nat : IsFiniteSet(1..n)
      BY FS_Interval
    <3> QED BY <3>1, <3>2
  <2>2. Logged(q) \in SUBSET (1..Len(editLog))
    BY <2>1 DEF Logged
  <2>3. Cardinality(Logged(q)) \in Nat
    BY <2>1, <2>2, FS_Subset, FS_CardinalityType
  <2> QED BY <1>1, <1>2, <2>3 DEF WorldOK
<1>4. Ground("ready", content, b, r, a, 0, 0)
  <2>1. HalfOf(g).replica = r /\ HalfOf(g).inbox = a
    BY DEF HalfOf
  <2>2. Ground("ready", revision, down[g], r, a, 0, 0)
    BY <1>1, <2>1 DEF Connected, Midway
  <2>3. Continues(revision, content, editLog) /\ Fills(revision, content, editLog)
    BY <1>1, LogContinues
  <2> HIDE DEF r, a
  <2> QED BY <1>2, <1>3, <2>2, <2>3, GroundContinues
<1>5. Complete(content, r, a, 0, b, 0) /\ Flow(content, r, a, 0, b, 0)
  BY <1>4 DEF Ground
<1>6. b \in Seq(Downward) /\ w = a \o b
  <2>1. w = (a \o down[g]) \o editLog
    BY DEF Pipeline, Broadcast
  <2> HIDE DEF a, w
  <2>2. down[g] \o editLog \in Seq(Downward)
    BY <1>2, ConcatProperties
  <2>3. (a \o down[g]) \o editLog = a \o (down[g] \o editLog)
    <3>1. \A x, y, z \in Seq(Downward) : (x \o y) \o z = x \o (y \o z)
      BY ConcatAssociative
    <3> QED BY <1>2, <3>1
  <2> QED BY <2>1, <2>2, <2>3
<1> HIDE DEF b, w, r, a
<1>7. /\ w \in Seq(Downward) /\ Len(w) = Len(a) + Len(b)
      /\ \A i \in 1..Len(a) : i \in 1..Len(w) /\ w[i] = a[i]
      /\ \A i \in 1..Len(b) : Len(a) + i \in 1..Len(w) /\ w[Len(a) + i] = b[i]
      /\ \A i \in 1..Len(w) :
           i \in 1..Len(a) \/ (i > Len(a) /\ i - Len(a) \in 1..Len(b) /\ w[i] = b[i - Len(a)])
  BY <1>2, <1>6, Joined
<1>8. Len(a) \in Nat /\ Len(b) \in Nat /\ Len(w) \in Nat /\ \A i \in 1..Len(a) : a[i] \in Mutations
  BY <1>2, <1>6, <1>7, SetOf
<1>9. ASSUME NEW v, NEW i \in 0..Len(a), v <= content[p], Covered(content, p, v, a, i, b, 0)
      PROVE  Ahead(w, p, v, i, content[p])
  <2>1. ASSUME NEW x \in v + 1..content[p] PROVE \E l \in i + 1..Len(w) : w[l] = BlockSet(p, x)
    <3>1. CASE \E l \in i + 1..Len(a) : a[l] = BlockSet(p, x)
      <4>1. PICK l \in i + 1..Len(a) : a[l] = BlockSet(p, x)
        BY <3>1
      <4>2. l \in 1..Len(a) /\ l \in i + 1..Len(w)
        BY <1>7, <1>8
      <4> QED BY <1>7, <4>1, <4>2
    <3>2. CASE \E l \in 0 + 1..Len(b) : b[l] = BlockSet(p, x)
      <4>1. PICK l \in 0 + 1..Len(b) : b[l] = BlockSet(p, x)
        BY <3>2
      <4>2. l \in 1..Len(b) /\ Len(a) + l \in i + 1..Len(w)
        BY <1>7, <1>8
      <4> QED BY <1>7, <4>1, <4>2
    <3> QED BY <1>9, <2>1, <3>1, <3>2 DEF Covered
  <2> QED BY <1>9, <2>1 DEF Ahead
<1>10. r[p] # None => Ahead(w, p, r[p], 0, content[p])
  <2> SUFFICES ASSUME r[p] # None PROVE Ahead(w, p, r[p], 0, content[p])
    OBVIOUS
  <2>1. r[p] <= content[p] /\ Covered(content, p, r[p], a, 0, b, 0)
    BY <1>5 DEF Complete, Flow
  <2>2. 0 \in 0..Len(a)
    BY <1>8
  <2> QED BY <1>9, <2>1, <2>2
<1>11. ASSUME NEW i \in 1..Len(w), w[i] \in Mutations, w[i].pos = p
       PROVE  Ahead(w, p, w[i].val, i, content[p])
  <2>1. CASE i \in 1..Len(a)
    <3>1. w[i] = a[i] /\ i \in 0 + 1..Len(a) /\ i \in 0..Len(a) /\ a[i].pos \notin EntrySet
      BY <1>7, <1>11, <2>1
    <3>2. a[i].val <= content[p] /\ Covered(content, p, a[i].val, a, i, b, 0)
      BY <1>5, <1>11, <3>1 DEF Complete, Flow
    <3> QED BY <1>9, <3>1, <3>2
  <2>2. CASE i \notin 1..Len(a)
    <3> DEFINE j == i - Len(a)
    <3>1. i > Len(a) /\ j \in 1..Len(b) /\ j \in 0 + 1..Len(b) /\ w[i] = b[j]
      BY <1>7, <1>8, <2>2
    <3>2. b[j].val <= content[p] /\ Covered(content, p, b[j].val, a, Len(a), b, j)
      <4>1. b[j] \in Mutations /\ b[j].pos = p /\ b[j].pos \notin EntrySet
        BY <1>11, <3>1
      <4> HIDE DEF j
      <4> QED BY <1>5, <3>1, <4>1 DEF Complete, Flow
    <3>3. ASSUME NEW x \in b[j].val + 1..content[p] PROVE \E l \in i + 1..Len(w) : w[l] = BlockSet(p, x)
      <4>1. \A l \in Len(a) + 1..Len(a) : FALSE
        BY <1>8
      <4>2. PICK l \in j + 1..Len(b) : b[l] = BlockSet(p, x)
        BY <3>2, <3>3, <4>1 DEF Covered
      <4>3. l \in 1..Len(b) /\ Len(a) + l \in i + 1..Len(w)
        BY <1>7, <1>8, <3>1, <4>2
      <4> QED BY <1>7, <4>2, <4>3
    <3> QED BY <3>1, <3>2, <3>3 DEF Ahead
  <2> QED BY <2>1, <2>2
<1>12. r[p] \in Values
  BY <1>2 DEF Replicas, Values
<1>13. PICK f : /\ f[0] = r[p] /\ \A n \in 1..Len(w) : f[n] = TakeIn(f[n - 1], p, w[n])
                /\ Settled(g, p) = f[Len(w)]
  BY <1>7, <1>12, SettledRuns DEF r, w
<1>14. content[p] \in Nat
  BY <1>2
<1>15. /\ f[0] \in Values
       /\ f[0] # None => Ahead(w, p, f[0], 0, content[p])
       /\ \A i \in 1..Len(w) : w[i] \in Mutations /\ w[i].pos = p => Ahead(w, p, w[i].val, i, content[p])
  BY <1>10, <1>11, <1>12, <1>13
<1> HIDE DEF Ahead, TakeIn
<1>16. f[Len(w)] \in {None, content[p]}
  BY <1>7, <1>13, <1>14, <1>15, SettlesOn
<1> QED BY <1>13, <1>16

-----------------------------------------------------------------------------
(* What a step never does. *)

\* Only frames and departures touch a replica.
LEMMA ForwardOnly ==
  ASSUME IInv, [Next]_vars, NEW g \in Guests, NEW p \in Chunks,
         replica[g][p] # None, replica'[g][p] # None
  PROVE  replica'[g][p] >= replica[g][p]
<1>1. TypeOK /\ replica[g][p] \in Nat /\ \A v \in Nat : v >= v
  <2>1. TypeOK
    BY DEF IInv
  <2>2. replica[g][p] \in 0..MaxEdits
    BY <2>1 DEF TypeOK
  <2>3. \A v \in Nat : v >= v
    OBVIOUS
  <2> QED BY <2>1, <2>2, <2>3, StreamingAssumption
<1>2. CASE replica' = replica
  BY <1>1, <1>2
<1>3. CASE \E h \in Guests : Leave(h)
  <2>1. PICK h \in Guests : replica' = [replica EXCEPT ![h] = Nowhere]
    BY <1>3 DEF Leave
  <2>2. h # g
    BY <1>1, <2>1 DEF Nowhere, TypeOK
  <2> QED BY <1>1, <2>1, <2>2 DEF TypeOK
<1>4. CASE \E h \in Guests : \E k \in 0..Len(down[h]), pl \in Places : Frame(h, k, pl)
  <2>1. PICK h \in Guests : \E k \in 0..Len(down[h]), pl \in Places : Frame(h, k, pl)
    BY <1>4
  <2>2. /\ replica' = [replica EXCEPT ![h] = replica'[h]]
        /\ \A q \in Chunks : replica[h][q] # None /\ replica'[h][q] # None => replica'[h][q] >= replica[h][q]
    BY <2>1, FrameOutcome
  <2>3. CASE h = g
    BY <2>2, <2>3
  <2>4. CASE h # g
    BY <1>1, <2>2, <2>4 DEF TypeOK
  <2> QED BY <2>3, <2>4
<1>5. \/ replica' = replica
      \/ \E h \in Guests : Leave(h)
      \/ \E h \in Guests : \E k \in 0..Len(down[h]), pl \in Places : Frame(h, k, pl)
  <2>1. Pump => replica' = replica
    BY DEF Pump, clientVars
  <2>2. \A h \in Guests : HandleEntryReady(h) \/ HandleRequest(h) \/ HearMove(h) => replica' = replica
    BY DEF HandleEntryReady, HandleRequest, HearMove, clientVars
  <2>3. /\ \A q \in Chunks : Edit(q) \/ Load(q) => replica' = replica
        /\ \A j \in encoding : Encode(j) => replica' = replica
    BY DEF Edit, Load, Encode, clientVars
  <2>4. \A h \in Guests : Join(h) => replica' = replica
    BY DEF Join
  <2>5. UNCHANGED vars => replica' = replica
    BY DEF vars, clientVars
  <2> QED BY <2>1, <2>2, <2>3, <2>4, <2>5 DEF Next, HostStep, WorldStep, GuestStep
<1> QED BY <1>2, <1>3, <1>4, <1>5

\* Only a readiness report makes an entering guest ready.
LEMMA ReadyOnReport ==
  ASSUME IInv, [Next]_vars, NEW g \in Guests, phase[g] = "entering", phase'[g] = "ready"
  PROVE  \A p \in ToSet(Entry) : replica[g][p] # None
<1>1. phase \in [Guests -> {"away", "pending", "entering", "ready"}]
  BY DEF IInv, TypeOK
<1>2. ~Pump
  <2>1. ASSUME Pump PROVE \E land : phase' = [h \in Guests |-> IF Prepared(h, land) THEN "entering" ELSE phase[h]]
    BY <2>1 DEF Pump
  <2> QED BY <2>1
<1>3. \A h \in Guests : ~HandleRequest(h) /\ ~HearMove(h) /\ ~Join(h) /\ ~Leave(h)
  <2> TAKE h \in Guests
  <2>1. HandleRequest(h) => phase' = phase
    BY DEF HandleRequest
  <2>2. HearMove(h) => phase' = phase
    BY DEF HearMove
  <2>3. Join(h) => phase'[g] \in {"pending", phase[g]}
    BY <1>1 DEF Join
  <2>4. Leave(h) => phase'[g] \in {"away", phase[g]}
    BY <1>1 DEF Leave
  <2> QED BY <2>1, <2>2, <2>3, <2>4
<1>4. /\ \A q \in Chunks : ~Edit(q) /\ ~Load(q)
      /\ \A j \in encoding : ~Encode(j)
      /\ phase' # phase
  BY DEF Edit, Load, Encode, hostVars
<1>5. \A h \in Guests : \A k \in 0..Len(down[h]), pl \in Places : ~Frame(h, k, pl)
  BY <1>4, FrameOutcome DEF hostVars
<1>6. PICK h \in Guests : HandleEntryReady(h)
  BY <1>2, <1>3, <1>4, <1>5 DEF Next, HostStep, WorldStep, GuestStep, vars, hostVars
<1>7. h = g
  <2>1. h # g => phase'[g] = phase[g]
    BY <1>1, <1>6 DEF HandleEntryReady
  <2> QED BY <2>1
<1> QED BY <1>6, <1>7, HandleEntryReadyKeeps

\* The ring a playing guest stands on becomes the host's ground: no edit falls
\* between a snapshot it was sent and the broadcasts that follow
\* (multiplayer/host/pump_delivery.rs, streaming.rs, client_session/terrain.rs).
THEOREM RingIsCoherent == Spec => []RingTerrainCoherent
BY StreamingInductive, RingCoherent, PTL

\* No step takes back an edit a guest already sees: a snapshot waits in the
\* inbox behind the edits queued before it (client_session/terrain.rs).
THEOREM NothingRewinds == Spec => NoRewind
<1>1. IInv /\ [Next]_vars
        => [\A g \in Guests, p \in Chunks :
              replica[g][p] # None /\ replica'[g][p] # None => replica'[g][p] >= replica[g][p]]_vars
  BY ForwardOnly
<1> QED BY <1>1, StreamingInductive, PTL DEF Spec, NoRewind

\* The host lets a guest act only once it stands on decoded ground, however its
\* readiness report and the pump's messages interleave (multiplayer/host/replies.rs).
THEOREM EntryOnGround == Spec => EntersOnGround
<1>1. IInv /\ [Next]_vars
        => [\A g \in Guests : phase[g] = "entering" /\ phase'[g] = "ready"
              => \A p \in ToSet(Entry) : replica[g][p] # None]_vars
  BY ReadyOnReport
<1> QED BY <1>1, StreamingInductive, PTL DEF Spec, EntersOnGround

-----------------------------------------------------------------------------
(* Queues. *)

\* Nothing is in a queue twice.
Single(s) == \A i, j \in DOMAIN s : s[i] = s[j] => i = j

LEMMA InQueue ==
  ASSUME NEW T, NEW s \in Seq(T)
  PROVE  /\ Len(s) \in Nat /\ DOMAIN s = 1..Len(s) /\ \A i \in 1..Len(s) : s[i] \in T
         /\ \A v : v \in ToSet(s) <=> \E i \in 1..Len(s) : s[i] = v
         /\ ToSet(s) \subseteq T /\ (s = <<>> <=> Len(s) = 0) /\ (Len(s) = 0 => ToSet(s) = {})
BY LenProperties, EmptySeq DEF ToSet

\* What is appended is in the queue, once if it was not there.
LEMMA Appended ==
  ASSUME NEW T, NEW s \in Seq(T), NEW x \in T
  PROVE  /\ Append(s, x) \in Seq(T) /\ Len(Append(s, x)) = Len(s) + 1
         /\ ToSet(Append(s, x)) = ToSet(s) \cup {x}
         /\ Single(s) /\ x \notin ToSet(s) => Single(Append(s, x))
<1> DEFINE r == Append(s, x)
           n == Len(s)
<1>1. /\ r \in Seq(T) /\ Len(r) = n + 1 /\ \A i \in 1..n : r[i] = s[i]
      /\ r[n + 1] = x /\ n \in Nat
  BY AppendProperties, LenProperties
<1> HIDE DEF r
<1>2. ASSUME NEW v PROVE v \in ToSet(r) <=> v \in ToSet(s) \/ v = x
  <2>1. v \in ToSet(r) <=> \E i \in 1..(n + 1) : r[i] = v
    BY <1>1, InQueue
  <2>2. v \in ToSet(s) <=> \E i \in 1..n : s[i] = v
    BY InQueue
  <2> HIDE DEF n
  <2>3. (\E i \in 1..(n + 1) : r[i] = v) <=> (\E i \in 1..n : s[i] = v) \/ v = x
    BY <1>1
  <2> QED BY <2>1, <2>2, <2>3
<1>3. ASSUME Single(s), x \notin ToSet(s) PROVE Single(r)
  <2>1. DOMAIN r = 1..(n + 1) /\ DOMAIN s = 1..n
    BY <1>1, InQueue
  <2>2. \A i \in 1..n : s[i] # x
    BY <1>3, InQueue
  <2> HIDE DEF n
  <2> QED BY <1>1, <1>3, <2>1, <2>2 DEF Single
<1> QED BY <1>1, <1>2, <1>3 DEF r, n

\* The head leaves the queue.
LEMMA Headed ==
  ASSUME NEW T, NEW s \in Seq(T), s # <<>>
  PROVE  /\ Head(s) \in T /\ Tail(s) \in Seq(T) /\ Len(Tail(s)) = Len(s) - 1 /\ Len(s) \in Nat \ {0}
         /\ ToSet(s) = ToSet(Tail(s)) \cup {Head(s)}
         /\ Single(s) => Single(Tail(s)) /\ Head(s) \notin ToSet(Tail(s))
<1> DEFINE r == Tail(s)
           n == Len(s)
           h == Head(s)
<1>1. /\ h \in T /\ r \in Seq(T) /\ Len(r) = n - 1
      /\ \A i \in 1..(n - 1) : r[i] = s[i + 1]
  BY HeadTailProperties
<1>2. h = s[1] /\ n \in Nat \ {0}
  BY LenProperties, EmptySeq
<1> HIDE DEF r, h
<1>3. ASSUME NEW v PROVE v \in ToSet(s) <=> v \in ToSet(r) \/ v = h
  <2>1. v \in ToSet(r) <=> \E i \in 1..(n - 1) : r[i] = v
    BY <1>1, InQueue
  <2>2. v \in ToSet(s) <=> \E i \in 1..n : s[i] = v
    BY InQueue
  <2> HIDE DEF n
  <2>3. ASSUME NEW i \in 1..n, s[i] = v PROVE (\E j \in 1..(n - 1) : r[j] = v) \/ v = h
    <3>1. CASE i = 1
      BY <1>2, <2>3, <3>1
    <3>2. CASE i # 1
      <4>1. i - 1 \in 1..(n - 1) /\ (i - 1) + 1 = i
        BY <1>2, <3>2
      <4> QED BY <1>1, <2>3, <4>1
    <3> QED BY <3>1, <3>2
  <2>4. ASSUME NEW i \in 1..(n - 1), r[i] = v PROVE \E j \in 1..n : s[j] = v
    <3>1. i + 1 \in 1..n /\ s[i + 1] = v
      BY <1>1, <1>2, <2>4
    <3> QED BY <3>1
  <2>5. v = h => \E j \in 1..n : s[j] = v
    BY <1>2
  <2> QED BY <2>1, <2>2, <2>3, <2>4, <2>5
<1>4. ASSUME Single(s) PROVE Single(r) /\ h \notin ToSet(r)
  <2>1. DOMAIN r = 1..(n - 1) /\ DOMAIN s = 1..n
    BY <1>1, InQueue
  <2>2. h \in ToSet(r) <=> \E i \in 1..(n - 1) : r[i] = h
    BY <1>1, InQueue
  <2> HIDE DEF n
  <2>3. ASSUME NEW i \in 1..(n - 1), NEW j \in 1..(n - 1), r[i] = r[j] PROVE i = j
    <3>1. i + 1 \in 1..n /\ j + 1 \in 1..n /\ s[i + 1] = s[j + 1]
      BY <1>1, <1>2, <2>3
    <3> QED BY <1>4, <2>1, <3>1 DEF Single
  <2>4. ASSUME NEW i \in 1..(n - 1), r[i] = h PROVE FALSE
    <3>1. i + 1 \in 1..n /\ 1 \in 1..n /\ s[i + 1] = s[1]
      BY <1>1, <1>2, <2>4
    <3>2. i + 1 = 1
      BY <1>4, <2>1, <3>1 DEF Single
    <3> QED BY <3>2
  <2> QED BY <2>1, <2>2, <2>3, <2>4 DEF Single
<1> QED BY <1>1, <1>2, <1>3, <1>4 DEF r, n, h

\* What is kept of a queue is what was wanted of it, each once.
LEMMA OnlyWanted ==
  ASSUME NEW T, NEW s \in Seq(T), NEW S, Single(s)
  PROVE  /\ Only(s, S) \in Seq(T) /\ Len(Only(s, S)) <= Len(s) /\ Len(Only(s, S)) \in Nat
         /\ ToSet(Only(s, S)) = ToSet(s) \cap S /\ Single(Only(s, S))
<1> DEFINE N == Len(s)
           X == Seq(T)
           nil == <<>>
           Grown(n, x) == IF s[n] \in S THEN Append(x, s[n]) ELSE x
           Body(f) == [n \in 0..N |-> IF n = 0 THEN nil ELSE Grown(n, f[n - 1])]
           upTo == CHOOSE f : f = Body(f)
           step == [n \in 1..N |-> [x \in X |-> Grown(n, x)]]
<1>1. N \in Nat /\ \A n \in 1..N : s[n] \in T
  BY InQueue
<1>2. nil \in X /\ \A n \in 1..N, x \in X : Grown(n, x) \in X
  BY <1>1
<1>3. Only(s, S) = upTo[N]
  <2>1. Only(s, S) = (CHOOSE f : f = [n \in 0..Len(s) |->
                        IF n = 0 THEN <<>>
                        ELSE IF s[n] \in S THEN Append(f[n - 1], s[n]) ELSE f[n - 1]])[Len(s)]
    BY DEF Only
  <2> QED BY <2>1
<1> HIDE DEF X, nil, Grown, N
<1>4. step \in Steps(N, X)
  BY <1>1, <1>2 DEF Steps
<1>5. \A n \in 1..N, x \in X : step[n][x] = Grown(n, x)
  OBVIOUS
<1> HIDE DEF step
<1>6. PICK f : Runs(f, N, X, nil, step)
  BY <1>1, <1>2, <1>4, Recursion
<1>7. f = Body(f)
  <2>1. \A n \in 1..N : f[n - 1] \in X
    BY <1>1, <1>6 DEF Runs
  <2>2. f[0] = nil /\ \A n \in 1..N : f[n] = step[n][f[n - 1]]
    BY <1>6 DEF Runs
  <2>3. \A n \in 1..N : f[n] = Grown(n, f[n - 1])
    BY <1>5, <2>1, <2>2
  <2>4. \A n \in 0..N : f[n] = IF n = 0 THEN nil ELSE Grown(n, f[n - 1])
    BY <1>1, <2>2, <2>3
  <2> QED BY <1>6, <2>4 DEF Runs
<1>8. upTo = Body(upTo)
  <2> HIDE DEF Body
  <2> QED BY <1>7
<1> HIDE DEF upTo
<1>9. upTo[0] = nil /\ \A n \in 1..N : upTo[n] = Grown(n, upTo[n - 1])
  <2>1. \A n \in 0..N : upTo[n] = IF n = 0 THEN nil ELSE Grown(n, upTo[n - 1])
    BY <1>8
  <2> QED BY <1>1, <2>1
<1> HIDE DEF Body
<1> DEFINE Kept(n, x) ==
             /\ x \in Seq(T) /\ Len(x) <= n /\ Single(x)
             /\ \A v : v \in ToSet(x) <=> v \in S /\ \E i \in 1..n : s[i] = v
           good == {n \in 0..N : Kept(n, upTo[n])}
<1>10. 0 \in good
  <2>1. nil \in Seq(T) /\ Len(nil) = 0 /\ DOMAIN nil = {} /\ ToSet(nil) = {}
    <3>1. <<>> \in Seq(T) /\ Len(<<>>) = 0
      OBVIOUS
    <3>2. DOMAIN <<>> = 1..Len(<<>>) /\ ToSet(<<>>) = {}
      BY <3>1, InQueue
    <3>3. DOMAIN <<>> = {}
      BY <3>1, <3>2
    <3> QED BY <3>1, <3>2, <3>3 DEF nil
  <2>2. Kept(0, nil)
    BY <2>1 DEF Single
  <2> HIDE DEF Kept
  <2> QED BY <1>1, <1>9, <2>2
<1>11. ASSUME NEW n \in 1..N, n - 1 \in good PROVE n \in good
  <2> DEFINE x == upTo[n - 1]
             m == n - 1
  <2>1. Kept(m, x) /\ upTo[n] = Grown(n, x)
    BY <1>9, <1>11
  <2>2. n \in 0..N /\ n \in Nat /\ m \in Nat /\ n = m + 1 /\ s[n] \in T /\ m < n
    BY <1>1
  <2>3. \A v : (\E i \in 1..n : s[i] = v) <=> (\E i \in 1..m : s[i] = v) \/ s[n] = v
    BY <2>2
  <2>4. \A i \in 1..m : s[i] # s[n]
    <3>1. DOMAIN s = 1..N
      BY InQueue DEF N
    <3>2. \A i \in 1..m : i \in 1..N /\ n \in 1..N /\ i # n
      BY <1>1
    <3> QED BY <3>1, <3>2 DEF Single
  <2> HIDE DEF x, m
  <2>5. Len(x) \in Nat
    BY <2>1, InQueue
  <2>6. CASE s[n] \notin S
    <3>1. Grown(n, x) = x
      BY <2>6 DEF Grown
    <3>2. Kept(n, x)
      BY <2>1, <2>2, <2>3, <2>5, <2>6
    <3> QED BY <2>1, <2>2, <3>1, <3>2
  <2>7. CASE s[n] \in S
    <3> DEFINE y == Append(x, s[n])
    <3>1. Grown(n, x) = y
      BY <2>7 DEF Grown
    <3>2. s[n] \notin ToSet(x)
      BY <2>1, <2>4
    <3>3. y \in Seq(T) /\ Len(y) = Len(x) + 1 /\ ToSet(y) = ToSet(x) \cup {s[n]} /\ Single(y)
      BY <2>1, <2>2, <3>2, Appended
    <3> HIDE DEF y
    <3>4. Kept(n, y)
      BY <2>1, <2>2, <2>3, <2>5, <2>7, <3>3
    <3> QED BY <2>1, <2>2, <3>1, <3>4
  <2> QED BY <2>6, <2>7
<1>12. \A n \in 0..N : n \in good
  <2> HIDE DEF good
  <2> QED BY <1>1, <1>10, <1>11, Climb
<1>13. Kept(N, upTo[N])
  <2> HIDE DEF Kept
  <2> QED BY <1>1, <1>12
<1> DEFINE r == upTo[N]
<1>14. Len(r) \in Nat
  BY <1>13, InQueue
<1>15. \A v : v \in ToSet(s) <=> \E i \in 1..N : s[i] = v
  BY InQueue DEF N
<1> HIDE DEF r
<1>16. ToSet(r) = ToSet(s) \cap S
  <2>1. \A v : v \in ToSet(r) <=> v \in S /\ \E i \in 1..N : s[i] = v
    BY <1>13 DEF r
  <2> QED BY <1>15, <2>1
<1> QED BY <1>3, <1>13, <1>14, <1>16 DEF N, r

-----------------------------------------------------------------------------
(* The pool of workers that encode chunks: the invariant. *)

Post == [at : {"awake", "asleep", "busy", "exited"}, job : Tasks \cup {NoJob}]

Handled(j) == \E w \in Workers : worker[w].job = j
Waits(j)   == j \in ToSet(requests)
Done(j)    == j \in ToSet(ready)

\* No job is in two places.
OnePlace ==
  /\ Single(requests) /\ Single(ready)
  /\ \A v, w \in Workers : worker[v].job = worker[w].job => v = w \/ worker[v].job = NoJob
  /\ \A j \in Tasks : (Waits(j) => ~Handled(j) /\ ~Done(j)) /\ (Done(j) => ~Handled(j))

\* An owner that joins its workers has stopped them.
JoinsStopped == owner # "open" => stopped

\* The inductive invariant of the pool.
CrewInv ==
  PoolTypeOK /\ OnePlace /\ BudgetExact /\ NoLostWakeup /\ StoppedIsAwake /\ JoinsStopped

\* What the parts of the invariant say, one by one.
LEMMA CrewFacts ==
  ASSUME CrewInv
  PROVE  /\ requests \in Seq(Tasks) /\ ready \in Seq(Tasks) /\ pending \in 0..Limit
         /\ stopped \in BOOLEAN /\ failure \in BOOLEAN /\ worker \in [Workers -> Post]
         /\ \A w \in Workers : (worker[w].at = "busy") = (worker[w].job # NoJob)
         /\ owner \in {"open", "joining", "closed"}
         /\ Len(requests) \in Nat /\ Len(ready) \in Nat
         /\ ToSet(requests) \in SUBSET Tasks /\ ToSet(ready) \in SUBSET Tasks
         /\ Single(requests) /\ Single(ready)
<1>0. PoolTypeOK /\ OnePlace
  BY DEF CrewInv
<1>1. requests \in Seq(Tasks) /\ ready \in Seq(Tasks)
  BY <1>0 DEF PoolTypeOK
<1>7. pending \in 0..Limit
  BY <1>0 DEF PoolTypeOK
<1>8. stopped \in BOOLEAN /\ failure \in BOOLEAN
  BY <1>0 DEF PoolTypeOK
<1>9. owner \in {"open", "joining", "closed"}
  BY <1>0 DEF PoolTypeOK
<1>4. worker \in [Workers -> Post]
  BY <1>0 DEF PoolTypeOK, Post
<1>5. \A w \in Workers : (worker[w].at = "busy") = (worker[w].job # NoJob)
  BY <1>0 DEF PoolTypeOK
<1>6. Single(requests) /\ Single(ready)
  BY <1>0 DEF OnePlace
<1>2. Len(requests) \in Nat /\ ToSet(requests) \in SUBSET Tasks
  BY <1>1, InQueue
<1>3. Len(ready) \in Nat /\ ToSet(ready) \in SUBSET Tasks
  BY <1>1, InQueue
<1> QED BY <1>1, <1>2, <1>3, <1>4, <1>5, <1>6, <1>7, <1>8, <1>9

\* Any workers can be counted.
LEMMA Crew ==
  \A S \in SUBSET Workers : IsFiniteSet(S) /\ Cardinality(S) \in Nat
BY SnapshotAssumption, FS_Subset, FS_CardinalityType

SameJobs ==
  \A w \in Workers : worker'[w].job = worker[w].job /\ (worker'[w].at = "busy" <=> worker[w].at = "busy")

\* Enough are awake for n requests.
Enough(n) == At("asleep") # {} => n <= Cardinality(At("awake"))

\* notify_one wakes one sleeper for the one request that came.
LEMMA Notified ==
  ASSUME worker \in [Workers -> Post], NotifyOne, NEW n \in Nat, Enough(n)
  PROVE  /\ worker' \in [Workers -> Post] /\ SameJobs
         /\ At("asleep")' # {} => n + 1 <= Cardinality(At("awake")')
<1>1. CASE At("asleep") = {}
  <2>1. worker' = worker
    BY <1>1 DEF NotifyOne
  <2> QED BY <1>1, <2>1 DEF At, SameJobs
<1>2. CASE At("asleep") # {}
  <2>1. PICK w \in At("asleep") : worker' = [worker EXCEPT ![w].at = "awake"]
    BY <1>2 DEF NotifyOne
  <2>2. w \in Workers /\ worker[w].at = "asleep"
    BY <2>1 DEF At
  <2> DEFINE a == At("awake")
             b == At("awake")'
  <2>3. \A v \in Workers : worker'[v].at = IF v = w THEN "awake" ELSE worker[v].at
    BY <2>1, <2>2 DEF Post
  <2>4. b = a \cup {w}
    BY <2>2, <2>3 DEF At
  <2>5. w \notin a /\ a \in SUBSET Workers
    BY <2>2 DEF At
  <2>6. worker' \in [Workers -> Post] /\ SameJobs
    BY <2>1, <2>2 DEF Post, SameJobs
  <2>7. n <= Cardinality(a)
    BY <1>2 DEF Enough
  <2> HIDE DEF a, b
  <2>8. Cardinality(b) = Cardinality(a) + 1 /\ Cardinality(a) \in Nat
    BY <2>4, <2>5, Crew, FS_AddElement
  <2> DEFINE x == Cardinality(a)
             y == Cardinality(b)
  <2>9. x \in Nat /\ y = x + 1 /\ n <= x
    BY <2>7, <2>8
  <2> HIDE DEF x, y
  <2>10. n + 1 <= y
    BY <2>9
  <2> QED BY <2>6, <2>10 DEF b, y
<1> QED BY <1>1, <1>2

\* Waking everyone moves no job.
LEMMA WokenHands ==
  ASSUME NEW ws \in [Workers -> Post]
  PROVE  /\ Woken(ws) \in [Workers -> Post]
         /\ \A w \in Workers : /\ Woken(ws)[w].job = ws[w].job
                               /\ (Woken(ws)[w].at = "busy" <=> ws[w].at = "busy")
                               /\ Woken(ws)[w].at # "asleep"
BY DEF Woken, Post

-----------------------------------------------------------------------------
(* The owner's calls. *)

\* A request is admitted once, within the budget.
LEMMA RequestKeeps ==
  ASSUME CrewInv, NEW j \in Tasks, Request(j)
  PROVE  /\ CrewInv' /\ ~stopped /\ ~stopped' /\ ~Waits(j) /\ ~Handled(j) /\ ~Done(j)
         /\ \A k \in Tasks : /\ (Handled(k)' <=> Handled(k)) /\ (Done(k)' <=> Done(k))
                             /\ (Waits(k)' <=> Waits(k) \/ k = j)
<1> DEFINE n == Len(requests)
<1>1. /\ ~stopped /\ pending < Limit /\ requests' = Append(requests, j) /\ pending' = pending + 1
      /\ UNCHANGED <<stopped, failure, ready, owner>>
  BY DEF Request
<1>2. ~Waits(j) /\ ~Handled(j) /\ ~Done(j)
  BY DEF Request, Free, Waits, Handled, Done
<1>3. /\ requests' \in Seq(Tasks) /\ Len(requests') = n + 1
      /\ ToSet(requests') = ToSet(requests) \cup {j} /\ Single(requests')
  BY <1>1, <1>2, CrewFacts, Appended DEF Waits
<1>4. Enough(n)
  BY DEF CrewInv, NoLostWakeup, Enough
<1>5. n \in Nat
  BY CrewFacts
<1> HIDE DEF n
<1>6. /\ worker' \in [Workers -> Post] /\ SameJobs
      /\ At("asleep")' # {} => n + 1 <= Cardinality(At("awake")')
  BY <1>4, <1>5, CrewFacts, Notified DEF Request
<1>7. \A k \in Tasks : /\ (Handled(k)' <=> Handled(k)) /\ (Done(k)' <=> Done(k))
                       /\ (Waits(k)' <=> Waits(k) \/ k = j)
  BY <1>1, <1>3, <1>6 DEF Handled, Done, Waits, SameJobs
<1>8. PoolTypeOK'
  <2>1. pending' \in 0..Limit
    BY <1>1, CrewFacts, SnapshotAssumption
  <2>2. \A w \in Workers : (worker'[w].at = "busy") = (worker'[w].job # NoJob)
    BY <1>6, CrewFacts DEF SameJobs
  <2> QED BY <1>1, <1>3, <1>6, <2>1, <2>2, CrewFacts DEF PoolTypeOK, Post
<1>9. OnePlace'
  <2>1. \A v, w \in Workers : worker'[v].job = worker'[w].job => v = w \/ worker'[v].job = NoJob
    BY <1>6 DEF CrewInv, OnePlace, SameJobs
  <2>2. Single(ready') /\ \A k \in Tasks : (Waits(k)' => ~Handled(k)' /\ ~Done(k)') /\ (Done(k)' => ~Handled(k)')
    BY <1>1, <1>2, <1>7 DEF CrewInv, OnePlace
  <2> QED BY <1>3, <2>1, <2>2 DEF OnePlace
<1>10. BudgetExact'
  <2> DEFINE h == Cardinality(InHand)
             d == Len(ready)
  <2>1. InHand' = InHand /\ InHand \in SUBSET Workers
    BY <1>6 DEF InHand, SameJobs
  <2>2. pending = n + h + d
    BY <1>1 DEF CrewInv, BudgetExact, n
  <2>3. h \in Nat /\ d \in Nat
    BY <2>1, Crew, CrewFacts
  <2> HIDE DEF h, d
  <2>4. pending' = (n + 1) + h + d
    BY <1>1, <1>5, <2>2, <2>3
  <2> QED BY <1>1, <1>3, <2>1, <2>4 DEF BudgetExact, h, d
<1>11. NoLostWakeup'
  BY <1>3, <1>6 DEF NoLostWakeup
<1>12. StoppedIsAwake' /\ JoinsStopped'
  BY <1>1 DEF StoppedIsAwake, CrewInv, JoinsStopped
<1>13. CrewInv'
  BY <1>8, <1>9, <1>10, <1>11, <1>12 DEF CrewInv
<1> QED BY <1>1, <1>2, <1>7, <1>13

\* Cancelling takes back unwanted requests and what they counted.
LEMMA CancelKeeps ==
  ASSUME CrewInv, NEW wanted \in SUBSET Tasks, CancelQueued(wanted)
  PROVE  /\ CrewInv' /\ stopped' = stopped
         /\ \A k \in Tasks : /\ (Handled(k)' <=> Handled(k)) /\ (Done(k)' <=> Done(k))
                             /\ (Waits(k)' <=> Waits(k) /\ k \in wanted)
<1> DEFINE n == Len(requests)
           m == Len(requests')
<1>1. /\ requests' = Only(requests, wanted) /\ pending' = pending - (n - m)
      /\ UNCHANGED <<stopped, failure, worker, ready, owner>>
  BY DEF CancelQueued
<1>2. /\ requests' \in Seq(Tasks) /\ m <= n /\ m \in Nat
      /\ ToSet(requests') = ToSet(requests) \cap wanted /\ Single(requests')
  BY <1>1, CrewFacts, OnlyWanted
<1>3. n \in Nat /\ (stopped => n = 0)
  <2>1. <<>> \in Seq(Tasks) /\ Len(<<>>) = 0
    OBVIOUS
  <2>2. stopped => requests = <<>>
    BY DEF CrewInv, StoppedIsAwake
  <2> QED BY <2>1, <2>2, CrewFacts
<1>4. stopped => requests' = <<>>
  BY <1>2, <1>3, InQueue
<1> HIDE DEF n, m
<1>5. \A k \in Tasks : /\ (Handled(k)' <=> Handled(k)) /\ (Done(k)' <=> Done(k))
                       /\ (Waits(k)' <=> Waits(k) /\ k \in wanted)
  BY <1>1, <1>2 DEF Handled, Done, Waits
<1>6. /\ pending' \in 0..Limit
      /\ ~stopped => pending' = m + Cardinality(InHand) + Len(ready)
  <2> DEFINE h == Cardinality(InHand)
             d == Len(ready)
  <2>1. h \in Nat /\ d \in Nat
    <3>1. InHand \in SUBSET Workers
      BY DEF InHand
    <3> QED BY <3>1, Crew, CrewFacts
  <2>2. pending \in 0..Limit /\ Limit \in Nat
    BY CrewFacts, SnapshotAssumption
  <2>3. ~stopped => pending = n + h + d
    BY DEF CrewInv, BudgetExact, n
  <2> HIDE DEF h, d
  <2>4. ~stopped => pending' = m + h + d /\ pending' \in 0..Limit
    BY <1>1, <1>2, <1>3, <2>1, <2>2, <2>3
  <2>5. stopped => pending' \in 0..Limit
    BY <1>1, <1>2, <1>3, <2>2
  <2> QED BY <2>4, <2>5, CrewFacts DEF h, d
<1>7. PoolTypeOK'
  BY <1>1, <1>2, <1>6, CrewFacts DEF PoolTypeOK, Post
<1>8. OnePlace'
  BY <1>1, <1>2, <1>5 DEF CrewInv, OnePlace
<1>9. BudgetExact'
  BY <1>1, <1>6 DEF BudgetExact, InHand, m
<1>10. NoLostWakeup'
  <2> DEFINE y == Cardinality(At("awake"))
  <2>1. y \in Nat
    BY Crew DEF At
  <2>2. At("asleep") # {} => n <= y
    BY DEF CrewInv, NoLostWakeup, n
  <2>3. Cardinality(At("awake")') = y /\ At("asleep")' = At("asleep")
    BY <1>1 DEF At
  <2> HIDE DEF y
  <2>4. n <= y => m <= y
    BY <1>2, <1>3, <2>1
  <2> QED BY <2>2, <2>3, <2>4 DEF NoLostWakeup, m
<1>11. StoppedIsAwake' /\ JoinsStopped'
  BY <1>1, <1>4 DEF CrewInv, StoppedIsAwake, At, JoinsStopped
<1>12. CrewInv'
  BY <1>7, <1>8, <1>9, <1>10, <1>11 DEF CrewInv
<1> QED BY <1>1, <1>5, <1>12

\* Results leave the channel.
LEMMA ResultsKeep ==
  ASSUME CrewInv, UNCHANGED <<requests, stopped, failure, worker>>,
         owner' \in {"open", "joining", "closed"}, owner' # "open" => stopped,
         ready' \in Seq(Tasks), Single(ready'), ToSet(ready') \subseteq ToSet(ready),
         pending' \in 0..Limit,
         ~stopped => pending' = Len(requests) + Cardinality(InHand) + Len(ready')
  PROVE  CrewInv'
<1>1. PoolTypeOK'
  BY CrewFacts DEF PoolTypeOK, Post
<1>2. OnePlace'
  BY DEF CrewInv, OnePlace, Waits, Handled, Done
<1>3. BudgetExact'
  BY DEF BudgetExact, InHand
<1>4. NoLostWakeup' /\ StoppedIsAwake' /\ JoinsStopped'
  BY DEF CrewInv, NoLostWakeup, StoppedIsAwake, JoinsStopped, At
<1> QED BY <1>1, <1>2, <1>3, <1>4 DEF CrewInv

\* Nothing is in an empty queue.
LEMMA EmptyQueue ==
  <<>> \in Seq(Tasks) /\ Len(<<>>) = 0 /\ ToSet(<<>>) = {} /\ Single(<<>>)
<1>1. <<>> \in Seq(Tasks) /\ Len(<<>>) = 0
  OBVIOUS
<1>2. DOMAIN <<>> = 1..Len(<<>>) /\ ToSet(<<>>) = {}
  BY <1>1, InQueue
<1>3. DOMAIN <<>> = {}
  BY <1>1, <1>2
<1> QED BY <1>1, <1>2, <1>3 DEF Single

\* The owner takes a result; a stopped pool's results it throws away.
LEMMA TryReadyKeeps ==
  ASSUME CrewInv, TryReady
  PROVE  /\ CrewInv' /\ stopped' = stopped
         /\ ~stopped => \E j \in Tasks : /\ Done(j)
              /\ \A k \in Tasks : /\ (Handled(k)' <=> Handled(k)) /\ (Waits(k)' <=> Waits(k))
                                  /\ (Done(k)' <=> Done(k) /\ k # j)
<1>1. UNCHANGED <<requests, stopped, failure, worker, owner>> /\ ready # <<>>
  BY DEF TryReady
<1>2. owner' \in {"open", "joining", "closed"} /\ (owner' # "open" => stopped)
  BY <1>1, CrewFacts DEF CrewInv, JoinsStopped
<1>3. CASE stopped
  <2>1. ready' = <<>> /\ pending' = pending
    BY <1>3 DEF TryReady
  <2>2. ready' \in Seq(Tasks) /\ Single(ready') /\ ToSet(ready') \subseteq ToSet(ready)
    BY <2>1, EmptyQueue
  <2>3. pending' \in 0..Limit
    BY <2>1, CrewFacts
  <2>4. CrewInv'
    BY <1>1, <1>2, <1>3, <2>2, <2>3, ResultsKeep
  <2> QED BY <1>1, <1>3, <2>4
<1>4. CASE ~stopped
  <2> DEFINE j == Head(ready)
             n == Len(requests)
             h == Cardinality(InHand)
             d == Len(ready)
  <2>1. ready' = Tail(ready) /\ pending' = pending - 1
    BY <1>4 DEF TryReady
  <2>2. /\ j \in Tasks /\ ready' \in Seq(Tasks) /\ Len(ready') = d - 1 /\ d \in Nat \ {0}
        /\ ToSet(ready) = ToSet(ready') \cup {j} /\ Single(ready') /\ j \notin ToSet(ready')
    BY <1>1, <2>1, CrewFacts, Headed
  <2>3. pending = n + h + d /\ pending \in 0..Limit /\ n \in Nat
    BY <1>4, CrewFacts DEF CrewInv, BudgetExact
  <2>4. h \in Nat
    <3>1. InHand \in SUBSET Workers
      BY DEF InHand
    <3> QED BY <3>1, Crew
  <2> HIDE DEF j, n, h, d
  <2>5. pending' = n + h + (d - 1) /\ pending' \in 0..Limit
    BY <2>1, <2>2, <2>3, <2>4, SnapshotAssumption
  <2>6. ToSet(ready') \subseteq ToSet(ready)
    BY <2>2
  <2>7. pending' = Len(requests) + Cardinality(InHand) + Len(ready')
    BY <2>2, <2>5 DEF n, h
  <2>8. CrewInv'
    BY <1>1, <1>2, <2>2, <2>5, <2>6, <2>7, ResultsKeep
  <2>9. \A k \in Tasks : /\ (Handled(k)' <=> Handled(k)) /\ (Waits(k)' <=> Waits(k))
                         /\ (Done(k)' <=> Done(k) /\ k # j)
    BY <1>1, <2>2 DEF Handled, Waits, Done
  <2>10. Done(j)
    BY <2>2 DEF Done
  <2> QED BY <1>1, <2>2, <2>8, <2>9, <2>10
<1> QED BY <1>3, <1>4

\* The join returns: what is left in the channel is dropped.
LEMMA JoinAllKeeps ==
  ASSUME CrewInv, JoinAll
  PROVE  CrewInv' /\ stopped /\ stopped'
<1>1. /\ UNCHANGED <<requests, stopped, failure, worker>> /\ pending' = pending
      /\ ready' = <<>> /\ owner' = "closed" /\ stopped
  BY DEF JoinAll, CrewInv, JoinsStopped
<1>2. ready' \in Seq(Tasks) /\ Single(ready') /\ ToSet(ready') \subseteq ToSet(ready)
  BY <1>1, EmptyQueue
<1>3. pending' \in 0..Limit /\ owner' \in {"open", "joining", "closed"}
  BY <1>1, CrewFacts
<1>4. CrewInv'
  BY <1>1, <1>2, <1>3, ResultsKeep
<1> QED BY <1>1, <1>4

\* The queue stops: nothing is queued or counted, and nobody sleeps.
LEMMA EmptiedKeeps ==
  ASSUME CrewInv, Emptied, UNCHANGED ready, failure' \in BOOLEAN,
         owner' \in {"open", "joining", "closed"}, worker' \in [Workers -> Post],
         \A w \in Workers : /\ worker'[w].at # "asleep"
                            /\ worker'[w].job = worker[w].job \/ worker'[w].job = NoJob
                            /\ (worker'[w].at = "busy") = (worker'[w].job # NoJob)
  PROVE  CrewInv'
<1>1. stopped' = TRUE /\ requests' = <<>> /\ pending' = 0
  BY DEF Emptied
<1>2. PoolTypeOK'
  <2>1. requests' \in Seq(Tasks) /\ ready' \in Seq(Tasks)
    BY <1>1, EmptyQueue, CrewFacts
  <2>2. pending' \in 0..Limit /\ stopped' \in BOOLEAN
    BY <1>1, SnapshotAssumption
  <2> QED BY <2>1, <2>2 DEF PoolTypeOK, Post
<1>3. OnePlace'
  <2>1. \A v, w \in Workers : worker'[v].job = worker'[w].job => v = w \/ worker'[v].job = NoJob
    BY DEF CrewInv, OnePlace
  <2>2. Single(requests') /\ Single(ready') /\ ToSet(requests') = {}
    BY <1>1, EmptyQueue, CrewFacts
  <2>3. \A k \in Tasks : Handled(k)' => Handled(k)
    BY SnapshotAssumption DEF Handled
  <2>4. \A k \in Tasks : (Waits(k)' => ~Handled(k)' /\ ~Done(k)') /\ (Done(k)' => ~Handled(k)')
    BY <2>2, <2>3 DEF CrewInv, OnePlace, Waits, Done
  <2> QED BY <2>1, <2>2, <2>4 DEF OnePlace
<1>4. BudgetExact' /\ NoLostWakeup' /\ StoppedIsAwake' /\ JoinsStopped'
  BY <1>1 DEF BudgetExact, NoLostWakeup, StoppedIsAwake, JoinsStopped, At
<1> QED BY <1>2, <1>3, <1>4 DEF CrewInv

LEMMA StopKeeps ==
  ASSUME CrewInv, Stop \/ Shutdown
  PROVE  CrewInv' /\ stopped'
<1>1. /\ Emptied /\ worker' = Woken(worker) /\ UNCHANGED ready /\ failure' = failure
      /\ owner' \in {"open", "joining", "closed"}
  BY CrewFacts DEF Stop, Shutdown
<1>2. /\ worker' \in [Workers -> Post]
      /\ \A w \in Workers : /\ worker'[w].job = worker[w].job
                            /\ (worker'[w].at = "busy" <=> worker[w].at = "busy")
                            /\ worker'[w].at # "asleep"
  BY <1>1, CrewFacts, WokenHands
<1>3. \A w \in Workers : (worker'[w].at = "busy") = (worker'[w].job # NoJob)
  BY <1>2, CrewFacts
<1>4. CrewInv'
  BY <1>1, <1>2, <1>3, CrewFacts, EmptiedKeeps
<1> QED BY <1>1, <1>4 DEF Emptied

\* A panic fails the whole pool.
LEMMA PanicKeeps ==
  ASSUME CrewInv, NEW w \in Workers, Panic(w)
  PROVE  CrewInv' /\ stopped'
<1> DEFINE left == [worker EXCEPT ![w] = [at |-> "exited", job |-> NoJob]]
<1>1. Emptied /\ failure' = TRUE /\ worker' = Woken(left) /\ UNCHANGED <<ready, owner>>
  BY DEF Panic
<1>2. /\ left \in [Workers -> Post]
      /\ \A v \in Workers : left[v] = IF v = w THEN [at |-> "exited", job |-> NoJob] ELSE worker[v]
  BY CrewFacts DEF Post
<1> HIDE DEF left
<1>3. /\ worker' \in [Workers -> Post]
      /\ \A v \in Workers : /\ worker'[v].job = left[v].job
                            /\ (worker'[v].at = "busy" <=> left[v].at = "busy")
                            /\ worker'[v].at # "asleep"
  BY <1>1, <1>2, WokenHands
<1>4. \A v \in Workers : (left[v].at = "busy" <=> left[v].job # NoJob) /\ (left[v].job = worker[v].job \/ left[v].job = NoJob)
  BY <1>2, CrewFacts
<1>5. \A v \in Workers : /\ worker'[v].at # "asleep"
                         /\ worker'[v].job = worker[v].job \/ worker'[v].job = NoJob
                         /\ (worker'[v].at = "busy") = (worker'[v].job # NoJob)
  BY <1>3, <1>4
<1>6. failure' \in BOOLEAN /\ owner' \in {"open", "joining", "closed"}
  BY <1>1, CrewFacts
<1>7. CrewInv'
  BY <1>1, <1>3, <1>5, <1>6, EmptiedKeeps
<1> QED BY <1>1, <1>7 DEF Emptied

-----------------------------------------------------------------------------
(* The workers of the encoding pool. *)

\* The first request goes into a worker's hands.
LEMMA TakeKeeps ==
  ASSUME CrewInv, NEW w \in Workers, Take(w)
  PROVE  /\ CrewInv' /\ ~stopped /\ ~stopped'
         /\ \E j \in Tasks : /\ Waits(j)
              /\ \A k \in Tasks : /\ (Handled(k)' <=> Handled(k) \/ k = j) /\ (Done(k)' <=> Done(k))
                                  /\ (Waits(k)' <=> Waits(k) /\ k # j)
<1> DEFINE j == Head(requests)
           n == Len(requests)
<1>1. /\ worker[w].at = "awake" /\ ~stopped /\ requests # <<>> /\ requests' = Tail(requests)
      /\ worker' = [worker EXCEPT ![w] = [at |-> "busy", job |-> j]]
      /\ UNCHANGED <<pending, stopped, failure, ready, owner>>
  BY DEF Take
<1>2. /\ j \in Tasks /\ requests' \in Seq(Tasks) /\ Len(requests') = n - 1 /\ n \in Nat \ {0}
      /\ ToSet(requests) = ToSet(requests') \cup {j} /\ Single(requests') /\ j \notin ToSet(requests')
  BY <1>1, CrewFacts, Headed
<1> HIDE DEF j, n
<1>3. /\ worker' \in [Workers -> Post] /\ worker'[w].at = "busy" /\ worker'[w].job = j
      /\ \A v \in Workers \ {w} : worker'[v] = worker[v]
  BY <1>1, <1>2, CrewFacts DEF Post
<1>4. worker[w].job = NoJob /\ j # NoJob
  BY <1>1, <1>2, CrewFacts, SnapshotAssumption
<1>5. Waits(j) /\ ~Handled(j) /\ ~Done(j)
  BY <1>2 DEF CrewInv, OnePlace, Waits
<1>6. \A k \in Tasks : /\ (Handled(k)' <=> Handled(k) \/ k = j) /\ (Done(k)' <=> Done(k))
                       /\ (Waits(k)' <=> Waits(k) /\ k # j)
  <2>1. \A k \in Tasks : Handled(k)' <=> Handled(k) \/ k = j
    BY <1>3, <1>4, SnapshotAssumption DEF Handled
  <2>2. \A k \in Tasks : (Done(k)' <=> Done(k)) /\ (Waits(k)' <=> Waits(k) /\ k # j)
    BY <1>1, <1>2 DEF Done, Waits
  <2> QED BY <2>1, <2>2
<1>7. PoolTypeOK'
  <2>1. \A v \in Workers : (worker'[v].at = "busy") = (worker'[v].job # NoJob)
    BY <1>3, <1>4, CrewFacts
  <2>2. /\ ready' \in Seq(Tasks) /\ pending' \in 0..Limit /\ stopped' \in BOOLEAN /\ failure' \in BOOLEAN
        /\ owner' \in {"open", "joining", "closed"}
    BY <1>1, CrewFacts
  <2> QED BY <1>2, <1>3, <2>1, <2>2 DEF PoolTypeOK, Post
<1>8. OnePlace'
  <2>1. \A u, v \in Workers : worker'[u].job = worker'[v].job => u = v \/ worker'[u].job = NoJob
    <3>1. \A v \in Workers : worker[v].job # j
      BY <1>5 DEF Handled
    <3> QED BY <1>3, <3>1 DEF CrewInv, OnePlace
  <2>2. \A k \in Tasks : (Waits(k)' => ~Handled(k)' /\ ~Done(k)') /\ (Done(k)' => ~Handled(k)')
    BY <1>5, <1>6 DEF CrewInv, OnePlace
  <2> QED BY <1>1, <1>2, <2>1, <2>2, CrewFacts DEF OnePlace
<1>9. BudgetExact'
  <2> DEFINE h == Cardinality(InHand)
             g == Cardinality(InHand')
             d == Len(ready)
  <2>1. InHand' = InHand \cup {w} /\ w \notin InHand /\ InHand \in SUBSET Workers
    BY <1>3, <1>4 DEF InHand
  <2>2. h \in Nat /\ g = h + 1
    BY <2>1, Crew, FS_AddElement
  <2>3. pending = n + h + d /\ d \in Nat
    BY <1>1, CrewFacts DEF CrewInv, BudgetExact, n
  <2> HIDE DEF h, g, d
  <2>4. pending' = (n - 1) + g + d
    BY <1>1, <1>2, <2>2, <2>3
  <2> QED BY <1>1, <1>2, <2>4 DEF BudgetExact, g, d
<1>10. NoLostWakeup'
  <2> DEFINE x == Cardinality(At("awake"))
             y == Cardinality(At("awake")')
  <2>1. At("awake")' = At("awake") \ {w} /\ At("asleep")' = At("asleep") /\ w \in At("awake")
    BY <1>1, <1>3 DEF At
  <2>2. x \in Nat /\ y = x - 1
    <3>1. At("awake") \in SUBSET Workers
      BY DEF At
    <3> QED BY <2>1, <3>1, Crew, FS_RemoveElement
  <2>3. At("asleep") # {} => n <= x
    BY DEF CrewInv, NoLostWakeup, n
  <2> HIDE DEF x, y
  <2>4. At("asleep")' # {} => n - 1 <= y
    BY <1>2, <2>1, <2>2, <2>3
  <2> QED BY <1>2, <2>4 DEF NoLostWakeup, y
<1>11. StoppedIsAwake' /\ JoinsStopped'
  BY <1>1 DEF CrewInv, StoppedIsAwake, JoinsStopped
<1>12. CrewInv'
  BY <1>7, <1>8, <1>9, <1>10, <1>11 DEF CrewInv
<1> QED BY <1>1, <1>2, <1>5, <1>6, <1>12

\* A worker goes to sleep when there is nothing to do, wakes, or leaves a stopped pool.
LEMMA RestKeeps ==
  ASSUME CrewInv, NEW w \in Workers, Sleep(w) \/ SpuriousWake(w) \/ Exit(w)
  PROVE  /\ CrewInv' /\ stopped' = stopped
         /\ \A k \in Tasks : (Handled(k)' <=> Handled(k)) /\ (Done(k)' <=> Done(k)) /\ (Waits(k)' <=> Waits(k))
<1>1. UNCHANGED <<requests, pending, stopped, failure, ready, owner>>
  BY DEF Sleep, SpuriousWake, Exit
<1>2. /\ worker' \in [Workers -> Post] /\ \A v \in Workers \ {w} : worker'[v] = worker[v]
      /\ worker'[w].job = worker[w].job
      /\ worker'[w].at \in {"awake", "asleep", "exited"} /\ worker[w].at # "busy"
  <2>1. CASE Sleep(w)
    BY <2>1, CrewFacts DEF Sleep, Post
  <2>2. CASE SpuriousWake(w)
    BY <2>2, CrewFacts DEF SpuriousWake, Post
  <2>3. CASE Exit(w)
    BY <2>3, CrewFacts DEF Exit, Post
  <2> QED BY <2>1, <2>2, <2>3
<1>3. \A v \in Workers : /\ worker'[v].job = worker[v].job
                         /\ (worker'[v].at = "busy" <=> worker[v].at = "busy")
  BY <1>2
<1>4. \A k \in Tasks : (Handled(k)' <=> Handled(k)) /\ (Done(k)' <=> Done(k)) /\ (Waits(k)' <=> Waits(k))
  BY <1>1, <1>3 DEF Handled, Done, Waits
<1>5. PoolTypeOK'
  <2>1. \A v \in Workers : (worker'[v].at = "busy") = (worker'[v].job # NoJob)
    BY <1>3, CrewFacts
  <2>2. /\ requests' \in Seq(Tasks) /\ ready' \in Seq(Tasks) /\ pending' \in 0..Limit
        /\ stopped' \in BOOLEAN /\ failure' \in BOOLEAN /\ owner' \in {"open", "joining", "closed"}
    BY <1>1, CrewFacts
  <2> QED BY <1>2, <2>1, <2>2 DEF PoolTypeOK, Post
<1>6. OnePlace'
  <2>1. \A u, v \in Workers : worker'[u].job = worker'[v].job => u = v \/ worker'[u].job = NoJob
    BY <1>3 DEF CrewInv, OnePlace
  <2>2. \A k \in Tasks : (Waits(k)' => ~Handled(k)' /\ ~Done(k)') /\ (Done(k)' => ~Handled(k)')
    BY <1>4 DEF CrewInv, OnePlace
  <2> QED BY <1>1, <2>1, <2>2, CrewFacts DEF OnePlace
<1>7. BudgetExact'
  <2>1. InHand' = InHand
    BY <1>3 DEF InHand
  <2> QED BY <1>1, <2>1 DEF CrewInv, BudgetExact
<1>8. NoLostWakeup'
  <2> DEFINE n == Len(requests)
  <2>1. n \in Nat /\ Len(requests') = n
    BY <1>1, CrewFacts
  <2>2. Cardinality(At("awake")') \in Nat
    <3>1. At("awake")' \in SUBSET Workers
      BY DEF At
    <3> QED BY <3>1, Crew
  <2>3. n = 0 => NoLostWakeup'
    BY <2>1, <2>2 DEF NoLostWakeup
  <2>4. ASSUME requests = <<>> PROVE n = 0
    BY <2>4, EmptyQueue
  <2> HIDE DEF n
  <2>5. CASE Sleep(w)
    <3>1. requests = <<>>
      BY <2>5 DEF Sleep
    <3> QED BY <2>3, <2>4, <3>1
  <2>6. CASE Exit(w)
    <3>1. requests = <<>>
      BY <2>6 DEF Exit, CrewInv, StoppedIsAwake
    <3> QED BY <2>3, <2>4, <3>1
  <2>7. CASE SpuriousWake(w)
    <3> DEFINE a == At("awake")
               b == At("awake")'
               x == Cardinality(a)
               y == Cardinality(b)
    <3>1. b = a \cup {w} /\ w \notin a /\ w \in At("asleep") /\ a \in SUBSET Workers
      BY <2>7, CrewFacts DEF SpuriousWake, At, Post
    <3>2. n <= x
      BY <3>1 DEF CrewInv, NoLostWakeup, n
    <3> HIDE DEF a, b
    <3>3. y = x + 1 /\ x \in Nat
      BY <3>1, Crew, FS_AddElement
    <3> HIDE DEF x, y
    <3>4. n <= y
      BY <2>1, <3>2, <3>3
    <3> QED BY <2>1, <3>4 DEF NoLostWakeup, y, b
  <2> QED BY <2>5, <2>6, <2>7
<1>9. StoppedIsAwake' /\ JoinsStopped'
  <2>1. stopped => requests' = <<>> /\ At("asleep") = {}
    BY <1>1 DEF CrewInv, StoppedIsAwake
  <2>2. ASSUME stopped PROVE At("asleep")' = {}
    <3>1. \A v \in Workers : worker[v].at # "asleep"
      BY <2>1, <2>2 DEF At
    <3>2. worker'[w].at # "asleep"
      BY <2>2, <3>1, CrewFacts DEF Sleep, SpuriousWake, Exit, Post
    <3> QED BY <1>2, <3>1, <3>2 DEF At
  <2>3. JoinsStopped'
    BY <1>1 DEF CrewInv, JoinsStopped
  <2> QED BY <1>1, <2>1, <2>2, <2>3 DEF StoppedIsAwake
<1>10. CrewInv'
  BY <1>5, <1>6, <1>7, <1>8, <1>9 DEF CrewInv
<1> QED BY <1>1, <1>4, <1>10

\* A result goes from a worker's hands into the channel, or is dropped by a stopped pool.
LEMMA PublishKeeps ==
  ASSUME CrewInv, NEW w \in Workers, Publish(w)
  PROVE  /\ CrewInv' /\ stopped' = stopped
         /\ ~stopped => \E j \in Tasks : /\ Handled(j)
              /\ \A k \in Tasks : /\ (Handled(k)' <=> Handled(k) /\ k # j) /\ (Waits(k)' <=> Waits(k))
                                  /\ (Done(k)' <=> Done(k) \/ k = j)
<1> DEFINE j == worker[w].job
<1>1. /\ UNCHANGED <<requests, pending, stopped, failure, owner>> /\ worker[w].at = "busy"
      /\ stopped => ready' = ready
      /\ ~stopped => ready' = Append(ready, j)
  BY DEF Publish
<1>2. /\ worker' \in [Workers -> Post] /\ \A v \in Workers \ {w} : worker'[v] = worker[v]
      /\ worker'[w].job = NoJob /\ worker'[w].at = IF stopped THEN "exited" ELSE "awake"
  <2>1. CASE stopped
    <3>1. worker' = [worker EXCEPT ![w] = [at |-> "exited", job |-> NoJob]]
      BY <2>1 DEF Publish
    <3> QED BY <2>1, <3>1, CrewFacts DEF Post
  <2>2. CASE ~stopped
    <3>1. worker' = [worker EXCEPT ![w] = [at |-> "awake", job |-> NoJob]]
      BY <2>2 DEF Publish
    <3> QED BY <2>2, <3>1, CrewFacts DEF Post
  <2> QED BY <2>1, <2>2
<1>3. j \in Tasks
  BY <1>1, CrewFacts DEF Post
<1>4. Handled(j) /\ ~Done(j) /\ ~Waits(j)
  BY <1>3 DEF CrewInv, OnePlace, Handled
<1>5. \A k \in Tasks : Handled(k)' <=> Handled(k) /\ k # j
  <2>1. ASSUME NEW v \in Workers, v # w, worker[v].job = j PROVE FALSE
    BY <1>3, <2>1, SnapshotAssumption DEF CrewInv, OnePlace
  <2> QED BY <1>2, <2>1, SnapshotAssumption DEF Handled
<1>6. \A u, v \in Workers : worker'[u].job = worker'[v].job => u = v \/ worker'[u].job = NoJob
  BY <1>2 DEF CrewInv, OnePlace
<1>7. \A v \in Workers : (worker'[v].at = "busy") = (worker'[v].job # NoJob)
  <2>1. worker'[w].at # "busy"
    BY <1>2
  <2> QED BY <1>2, <2>1, CrewFacts
<1>8. /\ requests' \in Seq(Tasks) /\ pending' \in 0..Limit /\ Single(requests')
      /\ stopped' \in BOOLEAN /\ failure' \in BOOLEAN /\ owner' \in {"open", "joining", "closed"}
  BY <1>1, CrewFacts
<1>9. At("asleep")' = At("asleep")
  BY <1>1, <1>2 DEF At
<1>10. StoppedIsAwake' /\ JoinsStopped'
  BY <1>1, <1>9 DEF CrewInv, StoppedIsAwake, JoinsStopped
<1> HIDE DEF j
<1>11. CASE stopped
  <2>1. PoolTypeOK'
    BY <1>1, <1>2, <1>7, <1>8, <1>11, CrewFacts DEF PoolTypeOK, Post
  <2>2. OnePlace'
    <3>1. \A k \in Tasks : (Waits(k)' => ~Handled(k)' /\ ~Done(k)') /\ (Done(k)' => ~Handled(k)')
      BY <1>1, <1>5, <1>11 DEF CrewInv, OnePlace, Waits, Done
    <3> QED BY <1>1, <1>6, <1>8, <1>11, <3>1, CrewFacts DEF OnePlace
  <2>3. BudgetExact'
    BY <1>1, <1>11 DEF BudgetExact
  <2>4. NoLostWakeup'
    BY <1>9, <1>11 DEF CrewInv, StoppedIsAwake, NoLostWakeup
  <2>5. CrewInv'
    BY <1>10, <2>1, <2>2, <2>3, <2>4 DEF CrewInv
  <2> QED BY <1>1, <1>11, <2>5
<1>12. CASE ~stopped
  <2> DEFINE n == Len(requests)
             d == Len(ready)
             h == Cardinality(InHand)
             g == Cardinality(InHand')
             a == At("awake")
             b == At("awake")'
             x == Cardinality(a)
             y == Cardinality(b)
  <2>1. ready' = Append(ready, j)
    BY <1>1, <1>12
  <2>2. /\ ready' \in Seq(Tasks) /\ Len(ready') = d + 1 /\ ToSet(ready') = ToSet(ready) \cup {j}
        /\ Single(ready')
    BY <1>3, <1>4, <2>1, CrewFacts, Appended DEF Done
  <2>3. PoolTypeOK'
    BY <1>2, <1>7, <1>8, <2>2 DEF PoolTypeOK, Post
  <2>4. \A k \in Tasks : (Done(k)' <=> Done(k) \/ k = j) /\ (Waits(k)' <=> Waits(k))
    BY <1>1, <2>2 DEF Done, Waits
  <2>5. OnePlace'
    <3>1. \A k \in Tasks : (Waits(k)' => ~Handled(k)' /\ ~Done(k)') /\ (Done(k)' => ~Handled(k)')
      BY <1>4, <1>5, <2>4 DEF CrewInv, OnePlace
    <3> QED BY <1>6, <1>8, <2>2, <3>1 DEF OnePlace
  <2>6. InHand' = InHand \ {w} /\ w \in InHand /\ InHand \in SUBSET Workers
    BY <1>2, <1>3, SnapshotAssumption DEF InHand, j
  <2>7. h \in Nat /\ g = h - 1
    BY <2>6, Crew, FS_RemoveElement
  <2>8. n \in Nat /\ d \in Nat /\ pending = n + h + d
    BY <1>12, CrewFacts DEF CrewInv, BudgetExact
  <2>9. b = a \cup {w} /\ w \notin a /\ a \in SUBSET Workers
    BY <1>1, <1>2, <1>12 DEF At
  <2>10. At("asleep") # {} => n <= x
    BY DEF CrewInv, NoLostWakeup
  <2> HIDE DEF n, d, h, g, a, b
  <2>11. x \in Nat /\ y = x + 1
    BY <2>9, Crew, FS_AddElement
  <2> HIDE DEF x, y
  <2>12. pending' = n + g + (d + 1)
    BY <1>1, <2>7, <2>8
  <2>13. BudgetExact'
    BY <1>1, <2>2, <2>12 DEF BudgetExact, n, g
  <2>14. At("asleep")' # {} => n <= y
    BY <1>9, <2>8, <2>10, <2>11
  <2>15. NoLostWakeup'
    BY <1>1, <2>14 DEF NoLostWakeup, n, y, b
  <2>16. CrewInv'
    BY <1>10, <2>3, <2>5, <2>13, <2>15 DEF CrewInv
  <2> QED BY <1>1, <1>3, <1>4, <1>5, <2>4, <2>16
<1> QED BY <1>11, <1>12

-----------------------------------------------------------------------------
(* The invariant of the encoding pool. *)

LEMMA PoolInitHolds ==
  ASSUME PoolInit
  PROVE  CrewInv
<1>1. /\ requests = <<>> /\ pending = 0 /\ stopped = FALSE /\ failure = FALSE
      /\ worker = [w \in Workers |-> [at |-> "awake", job |-> NoJob]]
      /\ ready = <<>> /\ owner = "open"
  BY DEF PoolInit
<1>2. /\ worker \in [Workers -> Post]
      /\ \A w \in Workers : worker[w].at = "awake" /\ worker[w].job = NoJob
  BY <1>1 DEF Post
<1>3. PoolTypeOK
  <2>1. \A w \in Workers : (worker[w].at = "busy") = (worker[w].job # NoJob)
    BY <1>2
  <2>2. pending \in 0..Limit
    BY <1>1, SnapshotAssumption
  <2>4. stopped \in BOOLEAN /\ failure \in BOOLEAN
    BY <1>1
  <2>3. requests \in Seq(Tasks) /\ ready \in Seq(Tasks) /\ owner \in {"open", "joining", "closed"}
    BY <1>1, EmptyQueue
  <2> QED BY <1>2, <2>1, <2>2, <2>3, <2>4 DEF PoolTypeOK, Post
<1>4. OnePlace
  <2>1. Single(requests) /\ Single(ready) /\ \A j \in Tasks : ~Waits(j) /\ ~Done(j)
    BY <1>1, EmptyQueue DEF Waits, Done
  <2> QED BY <1>2, <2>1 DEF OnePlace
<1>5. BudgetExact
  <2>1. InHand = {}
    BY <1>2 DEF InHand
  <2>2. Cardinality(InHand) = 0
    BY <2>1, FS_EmptySet
  <2> QED BY <1>1, <2>2, EmptyQueue DEF BudgetExact
<1>6. NoLostWakeup /\ StoppedIsAwake /\ JoinsStopped
  <2>1. At("asleep") = {}
    BY <1>2 DEF At
  <2> QED BY <1>1, <2>1 DEF NoLostWakeup, StoppedIsAwake, JoinsStopped
<1> QED BY <1>3, <1>4, <1>5, <1>6 DEF CrewInv

LEMMA StillKeeps ==
  ASSUME CrewInv, UNCHANGED poolVars
  PROVE  CrewInv'
<1>1. UNCHANGED <<requests, pending, stopped, failure, worker, ready, owner>>
  BY DEF poolVars
<1>2. /\ ready' \in Seq(Tasks) /\ Single(ready') /\ pending' \in 0..Limit
      /\ owner' \in {"open", "joining", "closed"} /\ ToSet(ready') \subseteq ToSet(ready)
  BY <1>1, CrewFacts
<1>3. owner' # "open" => stopped
  BY <1>1 DEF CrewInv, JoinsStopped
<1>4. ~stopped => pending' = Len(requests) + Cardinality(InHand) + Len(ready')
  BY <1>1 DEF CrewInv, BudgetExact
<1> QED BY <1>1, <1>2, <1>3, <1>4, ResultsKeep

LEMMA CrewStep ==
  ASSUME CrewInv, [PoolNext]_poolVars
  PROVE  CrewInv'
<1>1. CASE UNCHANGED poolVars \/ Closed
  BY <1>1, StillKeeps DEF Closed
<1>2. ASSUME NEW j \in Tasks, Request(j) PROVE CrewInv'
  BY <1>2, RequestKeeps
<1>3. ASSUME NEW wanted \in SUBSET Tasks, CancelQueued(wanted) PROVE CrewInv'
  BY <1>3, CancelKeeps
<1>4. CASE TryReady
  BY <1>4, TryReadyKeeps
<1>5. CASE Stop \/ Shutdown
  BY <1>5, StopKeeps
<1>6. CASE JoinAll
  BY <1>6, JoinAllKeeps
<1>7. ASSUME NEW w \in Workers, Take(w) PROVE CrewInv'
  BY <1>7, TakeKeeps
<1>8. ASSUME NEW w \in Workers, Sleep(w) \/ SpuriousWake(w) \/ Exit(w) PROVE CrewInv'
  BY <1>8, RestKeeps
<1>9. ASSUME NEW w \in Workers, Publish(w) PROVE CrewInv'
  BY <1>9, PublishKeeps
<1>10. ASSUME NEW w \in Workers, Panic(w) PROVE CrewInv'
  BY <1>10, PanicKeeps
<1> QED BY <1>1, <1>2, <1>3, <1>4, <1>5, <1>6, <1>7, <1>8, <1>9, <1>10 DEF PoolNext, WorkerStep

LEMMA CrewAlways == PoolSpec => []CrewInv
<1>1. CrewInv /\ [PoolNext]_poolVars => CrewInv'
  BY CrewStep
<1> QED BY <1>1, PoolInitHolds, PTL DEF PoolSpec

\* The encoding pool's bare count is exact, nobody sleeps while a request waits for a worker,
\* and a stopped pool holds no request and no sleeper, for any workers, jobs and budget
\* (background/snapshots.rs).
THEOREM EncodersAreSound == PoolSpec => []PoolInv
<1>1. CrewInv => PoolInv
  BY DEF CrewInv, PoolInv
<1> QED BY <1>1, CrewAlways, PTL

-----------------------------------------------------------------------------
(* The encoding pool is a board of jobs. *)

LEMMA Stages ==
  CrewInv => \A j \in Tasks :
    /\ stopped => Stage(j) = "idle"
    /\ ~stopped => /\ Stage(j) = IF Waits(j) THEN "queued" ELSE IF Handled(j) THEN "running"
                                 ELSE IF Done(j) THEN "ready" ELSE "idle"
                   /\ (Waits(j) => ~Handled(j)) /\ (Done(j) => ~Handled(j) /\ ~Waits(j))
<1> SUFFICES ASSUME CrewInv, NEW j \in Tasks
             PROVE  /\ stopped => Stage(j) = "idle"
                    /\ ~stopped =>
                         /\ Stage(j) = IF Waits(j) THEN "queued" ELSE IF Handled(j) THEN "running"
                                       ELSE IF Done(j) THEN "ready" ELSE "idle"
                         /\ (Waits(j) => ~Handled(j)) /\ (Done(j) => ~Handled(j) /\ ~Waits(j))
  OBVIOUS
<1>1. stopped \in BOOLEAN
  BY CrewFacts
<1>2. (Waits(j) => ~Handled(j)) /\ (Done(j) => ~Handled(j) /\ ~Waits(j))
  BY DEF CrewInv, OnePlace
<1>3. stopped => Stage(j) = "idle"
  BY DEF Stage
<1>4. ASSUME ~stopped
      PROVE  Stage(j) = IF Waits(j) THEN "queued" ELSE IF Handled(j) THEN "running"
                        ELSE IF Done(j) THEN "ready" ELSE "idle"
  <2>1. /\ j \in ToSet(requests) <=> Waits(j)
        /\ (\E w \in Workers : worker[w].job = j) <=> Handled(j)
        /\ j \in ToSet(ready) <=> Done(j)
    BY DEF Waits, Handled, Done
  <2>2. CASE Waits(j)
    BY <1>2, <1>4, <2>1, <2>2 DEF Stage
  <2>3. CASE Handled(j)
    BY <1>2, <1>4, <2>1, <2>3 DEF Stage
  <2>4. CASE Done(j)
    BY <1>2, <1>4, <2>1, <2>4 DEF Stage
  <2>5. CASE ~Waits(j) /\ ~Handled(j) /\ ~Done(j)
    BY <1>4, <2>1, <2>5 DEF Stage
  <2> QED BY <1>2, <1>4, <2>2, <2>3, <2>4, <2>5
<1> QED BY <1>1, <1>2, <1>3, <1>4

\* A queue holds no more than it is long.
LEMMA Bounded ==
  ASSUME NEW T, NEW s \in Seq(T)
  PROVE  IsFiniteSet(ToSet(s)) /\ Cardinality(ToSet(s)) <= Len(s) /\ Cardinality(ToSet(s)) \in Nat
<1> DEFINE n == Len(s)
           f == [i \in 1..n |-> s[i]]
<1>1. n \in Nat /\ DOMAIN s = 1..n /\ \A v : v \in ToSet(s) <=> \E i \in 1..n : s[i] = v
  BY InQueue
<1>2. f \in Surjection(1..n, ToSet(s))
  BY <1>1 DEF Surjection
<1>3. IsFiniteSet(1..n) /\ Cardinality(1..n) = n
  BY <1>1, FS_Interval
<1> HIDE DEF n, f
<1>4. IsFiniteSet(ToSet(s)) /\ Cardinality(ToSet(s)) <= n
  BY <1>2, <1>3, FS_Surjection
<1> QED BY <1>4, FS_CardinalityType DEF n

\* What the workers hold is no more than the workers that hold something.
LEMMA HandsBound ==
  ASSUME CrewInv
  PROVE  /\ IsFiniteSet({worker[w].job : w \in InHand})
         /\ Cardinality({worker[w].job : w \in InHand}) <= Cardinality(InHand)
         /\ Cardinality({worker[w].job : w \in InHand}) \in Nat
<1> DEFINE H == {worker[w].job : w \in InHand}
           f == [w \in InHand |-> worker[w].job]
<1>1. f \in Surjection(InHand, H)
  BY DEF Surjection
<1>2. InHand \in SUBSET Workers
  BY DEF InHand
<1> HIDE DEF f, H
<1>3. IsFiniteSet(H) /\ Cardinality(H) <= Cardinality(InHand)
  BY <1>1, <1>2, Crew, FS_Surjection
<1> QED BY <1>3, FS_CardinalityType DEF H

\* Two finite sets are together no larger than their sizes added.
LEMMA Together ==
  ASSUME NEW S, NEW T, IsFiniteSet(S), IsFiniteSet(T), NEW a \in Nat, NEW b \in Nat,
         Cardinality(S) <= a, Cardinality(T) <= b
  PROVE  IsFiniteSet(S \cup T) /\ Cardinality(S \cup T) <= a + b
<1>1. IsFiniteSet(S \cap T)
  BY FS_Subset
<1>2. Cardinality(S) \in Nat /\ Cardinality(T) \in Nat /\ Cardinality(S \cap T) \in Nat
  BY <1>1, FS_CardinalityType
<1>3. /\ IsFiniteSet(S \cup T)
      /\ Cardinality(S \cup T) = Cardinality(S) + Cardinality(T) - Cardinality(S \cap T)
  BY FS_Union
<1> QED BY <1>2, <1>3

\* The board holds no more than the count says.
LEMMA BoardBound ==
  ASSUME CrewInv, ~stopped
  PROVE  Cardinality({j \in Tasks : Stage(j) # "idle"}) <= pending
<1> DEFINE n == Len(requests)
           h == Cardinality(InHand)
           d == Len(ready)
           A == ToSet(requests)
           H == {worker[w].job : w \in InHand}
           D == ToSet(ready)
           B == {j \in Tasks : Stage(j) # "idle"}
<1>1. pending = n + h + d /\ n \in Nat /\ d \in Nat
  BY CrewFacts DEF CrewInv, BudgetExact
<1>2. h \in Nat
  <2>1. InHand \in SUBSET Workers
    BY DEF InHand
  <2> QED BY <2>1, Crew
<1>3. IsFiniteSet(A) /\ Cardinality(A) <= n /\ IsFiniteSet(D) /\ Cardinality(D) <= d
  BY CrewFacts, Bounded
<1>4. IsFiniteSet(H) /\ Cardinality(H) <= h
  BY HandsBound
<1>5. B \subseteq (A \cup H) \cup D
  <2> SUFFICES ASSUME NEW j \in Tasks, Stage(j) # "idle", ~Waits(j), ~Done(j) PROVE j \in H
    BY DEF Waits, Done
  <2>1. Handled(j)
    BY Stages
  <2> QED BY <2>1, SnapshotAssumption DEF Handled, InHand
<1> HIDE DEF n, h, d, A, H, D, B
<1>6. IsFiniteSet(A \cup H) /\ Cardinality(A \cup H) <= n + h
  BY <1>1, <1>2, <1>3, <1>4, Together
<1>7. n + h \in Nat
  BY <1>1, <1>2
<1> DEFINE m == n + h
           E == A \cup H
<1> HIDE DEF m, E
<1>8. IsFiniteSet(E \cup D) /\ Cardinality(E \cup D) <= m + d
  BY <1>1, <1>3, <1>6, <1>7, Together DEF m, E
<1>9. IsFiniteSet(B) /\ Cardinality(B) <= Cardinality(E \cup D)
  BY <1>5, <1>8, FS_Subset DEF E
<1>10. Cardinality(B) \in Nat /\ Cardinality(E \cup D) \in Nat
  BY <1>8, <1>9, FS_CardinalityType
<1>11. Cardinality(B) <= pending
  BY <1>1, <1>2, <1>7, <1>8, <1>9, <1>10 DEF m
<1> QED BY <1>11 DEF B

\* One job goes from one stage to the next.
Goes(j, to) ==
  \A k \in Tasks : Stage(k)' = IF k = j THEN to ELSE Stage(k)

LEMMA MoveStep ==
  ASSUME NEW j \in Tasks, NEW from, NEW to, ~stopped, ~stopped', Stage(j) = from, Goes(j, to)
  PROVE  Board!Move(j, from, to)
<1> DEFINE job == [k \in Tasks |-> Stage(k)]
<1>1. job' = [job EXCEPT ![j] = to]
  BY DEF Goes
<1> QED BY <1>1 DEF Board!Move

LEMMA StayStep ==
  ASSUME stopped' = stopped, \A k \in Tasks : Stage(k)' = Stage(k)
  PROVE  UNCHANGED Board!boardVars
BY DEF Board!boardVars

LEMMA CloseStep ==
  ASSUME stopped', \A k \in Tasks : Stage(k)' = "idle"
  PROVE  Board!Close
BY DEF Board!Close, Board!AllIdle

\* Every step of the pool is a step of the board, or none.
LEMMA BoardStep ==
  ASSUME CrewInv, [PoolNext]_poolVars
  PROVE  [Board!Next]_(Board!boardVars)
<1>0. CrewInv' /\ CrewInv /\ stopped \in BOOLEAN /\ stopped' \in BOOLEAN
  <2>1. CrewInv'
    BY CrewStep
  <2>2. stopped \in BOOLEAN
    BY CrewFacts
  <2>3. stopped' \in BOOLEAN
    BY <2>1 DEF CrewInv, PoolTypeOK
  <2> QED BY <2>1, <2>2, <2>3
<1>s. \A j \in Tasks :
        /\ stopped => Stage(j) = "idle"
        /\ ~stopped => /\ Stage(j) = IF Waits(j) THEN "queued" ELSE IF Handled(j) THEN "running"
                                     ELSE IF Done(j) THEN "ready" ELSE "idle"
                       /\ (Waits(j) => ~Handled(j)) /\ (Done(j) => ~Handled(j) /\ ~Waits(j))
  BY Stages
<1>t. \A j \in Tasks :
        /\ stopped' => Stage(j)' = "idle"
        /\ ~stopped' => /\ Stage(j)' = IF Waits(j)' THEN "queued" ELSE IF Handled(j)' THEN "running"
                                       ELSE IF Done(j)' THEN "ready" ELSE "idle"
                        /\ (Waits(j)' => ~Handled(j)') /\ (Done(j)' => ~Handled(j)' /\ ~Waits(j)')
  <2>1. (CrewInv => \A j \in Tasks :
    /\ stopped => Stage(j) = "idle"
    /\ ~stopped => /\ Stage(j) = IF Waits(j) THEN "queued" ELSE IF Handled(j) THEN "running"
                                 ELSE IF Done(j) THEN "ready" ELSE "idle"
                   /\ (Waits(j) => ~Handled(j)) /\ (Done(j) => ~Handled(j) /\ ~Waits(j)))'
    BY Stages, PTL
  <2> QED BY <1>0, <2>1
<1> HIDE DEF Stage, Waits, Handled, Done, CrewInv
<1>a. ASSUME stopped' = stopped,
             ~stopped => \A k \in Tasks : /\ (Handled(k)' <=> Handled(k)) /\ (Done(k)' <=> Done(k))
                                          /\ (Waits(k)' <=> Waits(k))
      PROVE  UNCHANGED Board!boardVars
  <2>1. \A k \in Tasks : Stage(k)' = Stage(k)
    BY <1>0, <1>a, <1>s, <1>t
  <2> QED BY <1>a, <2>1, StayStep
<1>1. CASE UNCHANGED poolVars
  <2>1. stopped' = stopped /\ \A k \in Tasks : /\ (Handled(k)' <=> Handled(k)) /\ (Done(k)' <=> Done(k))
                                               /\ (Waits(k)' <=> Waits(k))
    BY <1>1 DEF poolVars, Handled, Done, Waits
  <2> QED BY <1>a, <2>1
<1>2. ASSUME NEW j \in Tasks, Request(j) PROVE Board!Request(j)
  <2>1. /\ ~stopped /\ ~stopped' /\ ~Waits(j) /\ ~Handled(j) /\ ~Done(j)
        /\ \A k \in Tasks : /\ (Handled(k)' <=> Handled(k)) /\ (Done(k)' <=> Done(k))
                            /\ (Waits(k)' <=> Waits(k) \/ k = j)
    BY <1>0, <1>2, RequestKeeps
  <2>2. Stage(j) = "idle"
    BY <1>s, <2>1
  <2>3. Goes(j, "queued")
    BY <1>s, <1>t, <2>1 DEF Goes
  <2> DEFINE B == {k \in Tasks : Stage(k) # "idle"}
             x == Cardinality(B)
  <2>4. Board!Held = B /\ Board!Cardinality(B) = x
    BY DEF Board!Held, Board!Cardinality, Cardinality
  <2>5. x \in Nat
    <3>1. IsFiniteSet(B)
      BY SnapshotAssumption, FS_Subset
    <3> QED BY <3>1, FS_CardinalityType
  <2>6. x <= pending /\ pending < Limit /\ pending \in 0..Limit
    BY <1>0, <1>2, <2>1, BoardBound, CrewFacts DEF Request
  <2> HIDE DEF B, x
  <2>7. x < Limit
    BY <2>5, <2>6, SnapshotAssumption
  <2>8. Board!Move(j, "idle", "queued")
    BY <2>1, <2>2, <2>3, MoveStep
  <2> HIDE DEF Board!Move
  <2> QED BY <2>4, <2>7, <2>8 DEF Board!Request
<1>3. ASSUME NEW wanted \in SUBSET Tasks, CancelQueued(wanted)
      PROVE  UNCHANGED Board!boardVars \/ \E S \in SUBSET Tasks : Board!Cancel(S)
  <2>1. /\ stopped' = stopped
        /\ \A k \in Tasks : /\ (Handled(k)' <=> Handled(k)) /\ (Done(k)' <=> Done(k))
                            /\ (Waits(k)' <=> Waits(k) /\ k \in wanted)
    BY <1>0, <1>3, CancelKeeps
  <2>2. CASE stopped
    BY <1>a, <2>1, <2>2
  <2>3. CASE ~stopped
    <3> DEFINE S == {k \in Tasks : Waits(k) /\ k \notin wanted}
               job == [k \in Tasks |-> Stage(k)]
    <3>1. \A k \in S : job[k] = "queued"
      BY <1>s, <2>3
    <3>2. \A k \in Tasks : Stage(k)' = IF k \in S THEN "idle" ELSE Stage(k)
      BY <1>s, <1>t, <2>1, <2>3
    <3>3. job' = [k \in Tasks |-> IF k \in S THEN "idle" ELSE job[k]]
      BY <3>2
    <3>4. Board!Cancel(S)
      BY <2>1, <2>3, <3>1, <3>3 DEF Board!Cancel
    <3> QED BY <3>4
  <2> QED BY <2>2, <2>3
<1>4. ASSUME TryReady PROVE UNCHANGED Board!boardVars \/ \E j \in Tasks : Board!Hand(j)
  <2>1. stopped' = stopped
    BY <1>0, <1>4, TryReadyKeeps
  <2>2. CASE stopped
    BY <1>a, <2>1, <2>2
  <2>3. CASE ~stopped
    <3>1. PICK j \in Tasks : /\ Done(j)
            /\ \A k \in Tasks : /\ (Handled(k)' <=> Handled(k)) /\ (Waits(k)' <=> Waits(k))
                                /\ (Done(k)' <=> Done(k) /\ k # j)
      BY <1>0, <1>4, <2>3, TryReadyKeeps
    <3>2. Stage(j) = "ready"
      BY <1>s, <2>3, <3>1
    <3>3. Goes(j, "idle")
      BY <1>s, <1>t, <2>1, <2>3, <3>1 DEF Goes
    <3> QED BY <2>1, <2>3, <3>2, <3>3, MoveStep DEF Board!Hand
  <2> QED BY <2>2, <2>3
<1>5. ASSUME Stop \/ Shutdown PROVE Board!Close
  <2>1. stopped'
    BY <1>0, <1>5, StopKeeps
  <2> QED BY <1>t, <2>1, CloseStep
<1>6. ASSUME JoinAll PROVE UNCHANGED Board!boardVars
  <2>1. stopped /\ stopped' /\ stopped' = stopped
    BY <1>0, <1>6, JoinAllKeeps
  <2> QED BY <1>a, <2>1
<1>7. ASSUME NEW w \in Workers, Take(w) PROVE \E j \in Tasks : Board!Begin(j)
  <2>1. ~stopped /\ ~stopped'
    BY <1>0, <1>7, TakeKeeps
  <2>2. PICK j \in Tasks : /\ Waits(j)
          /\ \A k \in Tasks : /\ (Handled(k)' <=> Handled(k) \/ k = j) /\ (Done(k)' <=> Done(k))
                              /\ (Waits(k)' <=> Waits(k) /\ k # j)
    BY <1>0, <1>7, TakeKeeps
  <2>3. Stage(j) = "queued"
    BY <1>s, <2>1, <2>2
  <2>4. Goes(j, "running")
    BY <1>s, <1>t, <2>1, <2>2 DEF Goes
  <2> QED BY <2>1, <2>3, <2>4, MoveStep DEF Board!Begin
<1>8. ASSUME NEW w \in Workers, Sleep(w) \/ SpuriousWake(w) \/ Exit(w) PROVE UNCHANGED Board!boardVars
  BY <1>0, <1>8, <1>a, RestKeeps
<1>9. ASSUME NEW w \in Workers, Publish(w) PROVE UNCHANGED Board!boardVars \/ \E j \in Tasks : Board!Finish(j)
  <2>1. stopped' = stopped
    BY <1>0, <1>9, PublishKeeps
  <2>2. CASE stopped
    BY <1>a, <2>1, <2>2
  <2>3. CASE ~stopped
    <3>1. PICK j \in Tasks : /\ Handled(j)
            /\ \A k \in Tasks : /\ (Handled(k)' <=> Handled(k) /\ k # j) /\ (Waits(k)' <=> Waits(k))
                                /\ (Done(k)' <=> Done(k) \/ k = j)
      BY <1>0, <1>9, <2>3, PublishKeeps
    <3>2. Stage(j) = "running"
      BY <1>s, <2>3, <3>1
    <3>3. Goes(j, "ready")
      BY <1>s, <1>t, <2>1, <2>3, <3>1 DEF Goes
    <3> QED BY <2>1, <2>3, <3>2, <3>3, MoveStep DEF Board!Finish
  <2> QED BY <2>2, <2>3
<1>10. ASSUME NEW w \in Workers, Panic(w) PROVE Board!Close
  <2>1. stopped'
    BY <1>0, <1>10, PanicKeeps
  <2> QED BY <1>t, <2>1, CloseStep
<1>11. ASSUME PoolNext PROVE Board!Next \/ UNCHANGED Board!boardVars
  <2>1. ASSUME NEW j \in Tasks, Request(j) PROVE Board!Next
    BY <1>2, <2>1 DEF Board!Next
  <2>2. ASSUME NEW wanted \in SUBSET Tasks, CancelQueued(wanted) PROVE Board!Next \/ UNCHANGED Board!boardVars
    BY <1>3, <2>2 DEF Board!Next
  <2>3. CASE TryReady
    BY <1>4, <2>3 DEF Board!Next
  <2>4. CASE Stop \/ Shutdown
    BY <1>5, <2>4 DEF Board!Next
  <2>5. CASE JoinAll
    BY <1>6, <2>5
  <2>6. CASE Closed
    BY <1>1, <2>6 DEF Closed
  <2>7. ASSUME NEW w \in Workers, Take(w) PROVE Board!Next
    BY <1>7, <2>7 DEF Board!Next
  <2>8. ASSUME NEW w \in Workers, Sleep(w) \/ SpuriousWake(w) \/ Exit(w) PROVE UNCHANGED Board!boardVars
    BY <1>8, <2>8
  <2>9. ASSUME NEW w \in Workers, Publish(w) PROVE Board!Next \/ UNCHANGED Board!boardVars
    BY <1>9, <2>9 DEF Board!Next
  <2>10. ASSUME NEW w \in Workers, Panic(w) PROVE Board!Next
    BY <1>10, <2>10 DEF Board!Next
  <2> HIDE DEF Board!Next
  <2> QED BY <1>11, <2>1, <2>2, <2>3, <2>4, <2>5, <2>6, <2>7, <2>8, <2>9, <2>10 DEF PoolNext, WorkerStep
<1> QED BY <1>1, <1>11

\* The encoding pool is a job board for any workers, jobs and budget: a job moves through it in
\* order, is handed over once and within the budget, and only what has not begun is cancelled
\* (background/snapshots.rs).
THEOREM EncodersAreABoard == PoolSpec => ImplementsBoard
<1>1. PoolInit => Board!Init
  <2> SUFFICES ASSUME PoolInit PROVE Board!Init
    OBVIOUS
  <2>1. ~stopped /\ requests = <<>> /\ ready = <<>> /\ \A w \in Workers : worker[w].job = NoJob
    BY DEF PoolInit
  <2>2. CrewInv
    BY PoolInitHolds
  <2>3. \A j \in Tasks : Stage(j) = "idle"
    <3>1. \A j \in Tasks : ~Waits(j) /\ ~Done(j) /\ ~Handled(j)
      BY <2>1, EmptyQueue, SnapshotAssumption DEF Waits, Done, Handled
    <3> QED BY <2>1, <2>2, <3>1, Stages
  <2> QED BY <2>1, <2>3 DEF Board!Init, Board!AllIdle
<1>2. CrewInv /\ [PoolNext]_poolVars => [Board!Next]_(Board!boardVars)
  BY BoardStep
<1> QED BY <1>1, <1>2, CrewAlways, PTL DEF PoolSpec, ImplementsBoard, Board!Spec
===============================================================================
