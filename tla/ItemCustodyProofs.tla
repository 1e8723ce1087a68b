---------------------------- MODULE ItemCustodyProofs ----------------------------
(***************************************************************************)
(* Theorems about ItemCustody and the stacks it is built from: items are   *)
(* neither copied nor lost, and the last word a guest hears is true, for   *)
(* any number of guests, any kinds and stack sizes, and packs, grids and   *)
(* chests of any size.                                                     *)
(***************************************************************************)
EXTENDS ItemCustody, FiniteSetTheorems, SequenceTheorems, WellFoundedInduction, TLAPS

(* Recursive functions.  The naturals are well ordered, so that a claim     *)
(* about a range of them that fails has a least counterexample.            *)

LEMMA Least ==
  ASSUME NEW S \in SUBSET Nat, S # {}
  PROVE  \E n \in S : \A m \in S : n <= m
<1>1. PICK n \in S : \A m \in S : <<m, n>> \notin OpToRel(<, Nat)
  BY NatLessThanWellFounded, WFMin
<1>2. \A m \in S : ~(m < n)
  BY <1>1 DEF OpToRel
<1> QED BY <1>2

LEMMA Climb ==
  ASSUME NEW n \in Nat, NEW good, 0 \in good, \A i \in 1..n : i - 1 \in good => i \in good
  PROVE  \A i \in 0..n : i \in good
<1> DEFINE bad == (0..n) \ good
<1> SUFFICES ASSUME bad # {} PROVE FALSE
  OBVIOUS
<1>1. bad \in SUBSET Nat
  OBVIOUS
<1>2. PICK m \in bad : \A k \in bad : m <= k
  <2> HIDE DEF bad
  <2> QED BY <1>1, Least
<1>3. m \in 1..n /\ m - 1 \in 0..n /\ m - 1 \notin bad
  BY <1>2
<1> QED BY <1>2, <1>3

\* A step for each place gives the function that takes them in turn.
Steps(n, X) == [1..n -> [X -> X]]
Runs(f, n, X, x, step) ==
  f \in [0..n -> X] /\ f[0] = x /\ \A i \in 1..n : f[i] = step[i][f[i - 1]]

LEMMA Recursion ==
  ASSUME NEW n \in Nat, NEW X, NEW x \in X, NEW step \in Steps(n, X)
  PROVE  \E f : Runs(f, n, X, x, step)
<1> DEFINE good == {m \in 0..n : \E f : Runs(f, m, X, x, step)}
<1>1. 0 \in good
  <2>1. Runs([i \in 0..0 |-> x], 0, X, x, step)
    BY DEF Runs
  <2> QED BY <2>1
<1>2. ASSUME NEW m \in 1..n, m - 1 \in good PROVE m \in good
  <2>1. PICK f : Runs(f, m - 1, X, x, step)
    BY <1>2
  <2> DEFINE g == [i \in 0..m |-> IF i = m THEN step[m][f[m - 1]] ELSE f[i]]
  <2>2. m - 1 \in 0..(m - 1) /\ f[m - 1] \in X /\ step[m] \in [X -> X]
    BY <2>1 DEF Runs, Steps
  <2>3. g \in [0..m -> X] /\ g[0] = x
    BY <2>1, <2>2 DEF Runs
  <2>4. \A i \in 1..m : g[i] = step[i][g[i - 1]]
    BY <2>1, <2>2 DEF Runs
  <2>5. Runs(g, m, X, x, step)
    BY <2>3, <2>4 DEF Runs
  <2> HIDE DEF g
  <2> QED BY <2>5
<1>3. n \in good
  <2> HIDE DEF good
  <2>1. \A i \in 0..n : i \in good
    BY <1>1, <1>2, Climb
  <2> QED BY <2>1
<1> QED BY <1>3

\* What a row of numbers adds up to is reached place by place.
LEMMA TallyRuns ==
  ASSUME NEW row, Len(row) \in Nat, NEW X, 0 \in X,
         \A n \in 1..Len(row), x \in X : x + row[n] \in X
  PROVE  \E f \in [0..Len(row) -> X] :
           /\ f[0] = 0 /\ Tally(row) = f[Len(row)]
           /\ \A n \in 1..Len(row) : f[n] = f[n - 1] + row[n]
<1> DEFINE N == Len(row)
           Op(n, x) == x + row[n]
           Body(f) == [n \in 0..N |-> IF n = 0 THEN 0 ELSE Op(n, f[n - 1])]
           upTo == CHOOSE f : f = Body(f)
           step == [n \in 1..N |-> [x \in X |-> Op(n, x)]]
<1>1. N \in Nat
  OBVIOUS
<1>2. Tally(row) = upTo[N]
  BY DEF Tally
<1>3. step \in Steps(N, X) /\ \A n \in 1..N, x \in X : step[n][x] = Op(n, x)
  BY DEF Steps
<1>0. \A n \in 1..N, x \in X : Op(n, x) \in X
  OBVIOUS
<1> HIDE DEF N, step, Op
<1>4. PICK f : Runs(f, N, X, 0, step)
  BY <1>1, <1>3, Recursion
<1>5. f = Body(f)
  <2>1. \A n \in 1..N : f[n - 1] \in X
    BY <1>1, <1>4 DEF Runs
  <2>2. \A n \in 0..N : f[n] = IF n = 0 THEN 0 ELSE Op(n, f[n - 1])
    BY <1>1, <1>3, <1>4, <2>1 DEF Runs
  <2> QED BY <1>4, <2>2 DEF Runs
<1>6. upTo = Body(upTo)
  <2> HIDE DEF Body
  <2> QED BY <1>5
<1> HIDE DEF upTo
<1>7. upTo[0] = 0 /\ \A n \in 1..N : upTo[n] = Op(n, upTo[n - 1])
  <2>1. \A n \in 0..N : upTo[n] = IF n = 0 THEN 0 ELSE Op(n, upTo[n - 1])
    BY <1>6
  <2> QED BY <1>1, <2>1
<1>8. \A n \in 0..N : upTo[n] \in X
  <2> DEFINE good == {n \in 0..N : upTo[n] \in X}
  <2>1. 0 \in good
    BY <1>1, <1>7
  <2>2. \A n \in 1..N : n - 1 \in good => n \in good
    BY <1>0, <1>1, <1>7
  <2>3. \A n \in 0..N : n \in good
    <3> HIDE DEF good
    <3> QED BY <1>1, <2>1, <2>2, Climb
  <2> QED BY <2>3
<1>9. upTo \in [0..N -> X]
  <2>1. Body(upTo) = [n \in 0..N |-> Body(upTo)[n]]
    OBVIOUS
  <2> HIDE DEF Body
  <2> QED BY <1>6, <1>8, <2>1
<1> QED BY <1>2, <1>7, <1>8, <1>9 DEF N, Op

\* So is what is kept of a row of slots,
LEMMA FilledRuns ==
  ASSUME NEW row, Len(row) \in Nat, NEW X, <<>> \in X,
         \A n \in 1..Len(row), x \in X : (IF row[n] = None THEN x ELSE Append(x, row[n])) \in X
  PROVE  \E f \in [0..Len(row) -> X] :
           /\ f[0] = <<>> /\ Filled(row) = f[Len(row)]
           /\ \A n \in 1..Len(row) : f[n] = (IF row[n] = None THEN f[n - 1] ELSE Append(f[n - 1], row[n]))
<1> DEFINE N == Len(row)
           Op(n, x) == (IF row[n] = None THEN x ELSE Append(x, row[n]))
           Body(f) == [n \in 0..N |-> IF n = 0 THEN <<>> ELSE Op(n, f[n - 1])]
           upTo == CHOOSE f : f = Body(f)
           step == [n \in 1..N |-> [x \in X |-> Op(n, x)]]
<1>1. N \in Nat
  OBVIOUS
<1>2. Filled(row) = upTo[N]
  BY DEF Filled
<1>3. step \in Steps(N, X) /\ \A n \in 1..N, x \in X : step[n][x] = Op(n, x)
  BY DEF Steps
<1>0. \A n \in 1..N, x \in X : Op(n, x) \in X
  OBVIOUS
<1> HIDE DEF N, step, Op
<1>4. PICK f : Runs(f, N, X, <<>>, step)
  BY <1>1, <1>3, Recursion
<1>5. f = Body(f)
  <2>1. \A n \in 1..N : f[n - 1] \in X
    BY <1>1, <1>4 DEF Runs
  <2>2. \A n \in 0..N : f[n] = IF n = 0 THEN <<>> ELSE Op(n, f[n - 1])
    BY <1>1, <1>3, <1>4, <2>1 DEF Runs
  <2> QED BY <1>4, <2>2 DEF Runs
<1>6. upTo = Body(upTo)
  <2> HIDE DEF Body
  <2> QED BY <1>5
<1> HIDE DEF upTo
<1>7. upTo[0] = <<>> /\ \A n \in 1..N : upTo[n] = Op(n, upTo[n - 1])
  <2>1. \A n \in 0..N : upTo[n] = IF n = 0 THEN <<>> ELSE Op(n, upTo[n - 1])
    BY <1>6
  <2> QED BY <1>1, <2>1
<1>8. \A n \in 0..N : upTo[n] \in X
  <2> DEFINE good == {n \in 0..N : upTo[n] \in X}
  <2>1. 0 \in good
    BY <1>1, <1>7
  <2>2. \A n \in 1..N : n - 1 \in good => n \in good
    BY <1>0, <1>1, <1>7
  <2>3. \A n \in 0..N : n \in good
    <3> HIDE DEF good
    <3> QED BY <1>1, <2>1, <2>2, Climb
  <2> QED BY <2>3
<1>9. upTo \in [0..N -> X]
  <2>1. Body(upTo) = [n \in 0..N |-> Body(upTo)[n]]
    OBVIOUS
  <2> HIDE DEF Body
  <2> QED BY <1>6, <1>8, <2>1
<1> QED BY <1>2, <1>7, <1>8, <1>9 DEF N, Op

\* a pass of a stack over slots,
LEMMA PassRuns ==
  ASSUME NEW s \in Stack, NEW pass \in {"merge", "fill"}, NEW start, Len(start.slots) \in Nat, NEW X, start \in X,
         \A n \in 1..Len(start.slots), x \in X : Poured(s, pass, x, n) \in X
  PROVE  \E f \in [0..Len(start.slots) -> X] :
           /\ f[0] = start /\ Pass(s, pass, start) = f[Len(start.slots)]
           /\ \A n \in 1..Len(start.slots) : f[n] = Poured(s, pass, f[n - 1], n)
<1> DEFINE N == Len(start.slots)
           Op(n, x) == Poured(s, pass, x, n)
           Body(f) == [n \in 0..N |-> IF n = 0 THEN start ELSE Op(n, f[n - 1])]
           upTo == CHOOSE f : f = Body(f)
           step == [n \in 1..N |-> [x \in X |-> Op(n, x)]]
<1>1. N \in Nat
  OBVIOUS
<1>2. Pass(s, pass, start) = upTo[N]
  BY DEF Pass
<1>3. step \in Steps(N, X) /\ \A n \in 1..N, x \in X : step[n][x] = Op(n, x)
  BY DEF Steps
<1>0. \A n \in 1..N, x \in X : Op(n, x) \in X
  OBVIOUS
<1> HIDE DEF N, step, Op
<1>4. PICK f : Runs(f, N, X, start, step)
  BY <1>1, <1>3, Recursion
<1>5. f = Body(f)
  <2>1. \A n \in 1..N : f[n - 1] \in X
    BY <1>1, <1>4 DEF Runs
  <2>2. \A n \in 0..N : f[n] = IF n = 0 THEN start ELSE Op(n, f[n - 1])
    BY <1>1, <1>3, <1>4, <2>1 DEF Runs
  <2> QED BY <1>4, <2>2 DEF Runs
<1>6. upTo = Body(upTo)
  <2> HIDE DEF Body
  <2> QED BY <1>5
<1> HIDE DEF upTo
<1>7. upTo[0] = start /\ \A n \in 1..N : upTo[n] = Op(n, upTo[n - 1])
  <2>1. \A n \in 0..N : upTo[n] = IF n = 0 THEN start ELSE Op(n, upTo[n - 1])
    BY <1>6
  <2> QED BY <1>1, <2>1
<1>8. \A n \in 0..N : upTo[n] \in X
  <2> DEFINE good == {n \in 0..N : upTo[n] \in X}
  <2>1. 0 \in good
    BY <1>1, <1>7
  <2>2. \A n \in 1..N : n - 1 \in good => n \in good
    BY <1>0, <1>1, <1>7
  <2>3. \A n \in 0..N : n \in good
    <3> HIDE DEF good
    <3> QED BY <1>1, <2>1, <2>2, Climb
  <2> QED BY <2>3
<1>9. upTo \in [0..N -> X]
  <2>1. Body(upTo) = [n \in 0..N |-> Body(upTo)[n]]
    OBVIOUS
  <2> HIDE DEF Body
  <2> QED BY <1>6, <1>8, <2>1
<1> QED BY <1>2, <1>7, <1>8, <1>9 DEF N, Op

\* and what is put back into a pack.
LEMMA PutBackRuns ==
  ASSUME NEW pack, NEW slots, Len(slots) \in Nat, NEW X, pack \in X,
         \A n \in 1..Len(slots), x \in X : AddStack(x, slots[n]).slots \in X
  PROVE  \E f \in [0..Len(slots) -> X] :
           /\ f[0] = pack /\ PutBack(pack, slots) = f[Len(slots)]
           /\ \A n \in 1..Len(slots) : f[n] = AddStack(f[n - 1], slots[n]).slots
<1> DEFINE N == Len(slots)
           Op(n, x) == AddStack(x, slots[n]).slots
           Body(f) == [n \in 0..N |-> IF n = 0 THEN pack ELSE Op(n, f[n - 1])]
           upTo == CHOOSE f : f = Body(f)
           step == [n \in 1..N |-> [x \in X |-> Op(n, x)]]
<1>1. N \in Nat
  OBVIOUS
<1>2. PutBack(pack, slots) = upTo[N]
  BY DEF PutBack
<1>3. step \in Steps(N, X) /\ \A n \in 1..N, x \in X : step[n][x] = Op(n, x)
  BY DEF Steps
<1>0. \A n \in 1..N, x \in X : Op(n, x) \in X
  OBVIOUS
<1> HIDE DEF N, step, Op
<1>4. PICK f : Runs(f, N, X, pack, step)
  BY <1>1, <1>3, Recursion
<1>5. f = Body(f)
  <2>1. \A n \in 1..N : f[n - 1] \in X
    BY <1>1, <1>4 DEF Runs
  <2>2. \A n \in 0..N : f[n] = IF n = 0 THEN pack ELSE Op(n, f[n - 1])
    BY <1>1, <1>3, <1>4, <2>1 DEF Runs
  <2> QED BY <1>4, <2>2 DEF Runs
<1>6. upTo = Body(upTo)
  <2> HIDE DEF Body
  <2> QED BY <1>5
<1> HIDE DEF upTo
<1>7. upTo[0] = pack /\ \A n \in 1..N : upTo[n] = Op(n, upTo[n - 1])
  <2>1. \A n \in 0..N : upTo[n] = IF n = 0 THEN pack ELSE Op(n, upTo[n - 1])
    BY <1>6
  <2> QED BY <1>1, <2>1
<1>8. \A n \in 0..N : upTo[n] \in X
  <2> DEFINE good == {n \in 0..N : upTo[n] \in X}
  <2>1. 0 \in good
    BY <1>1, <1>7
  <2>2. \A n \in 1..N : n - 1 \in good => n \in good
    BY <1>0, <1>1, <1>7
  <2>3. \A n \in 0..N : n \in good
    <3> HIDE DEF good
    <3> QED BY <1>1, <2>1, <2>2, Climb
  <2> QED BY <2>3
<1>9. upTo \in [0..N -> X]
  <2>1. Body(upTo) = [n \in 0..N |-> Body(upTo)[n]]
    OBVIOUS
  <2> HIDE DEF Body
  <2> QED BY <1>6, <1>8, <2>1
<1> QED BY <1>2, <1>7, <1>8, <1>9 DEF N, Op
-----------------------------------------------------------------------------
(* Rows of numbers, and of slots. *)

LEMMA TallySteps ==
  ASSUME NEW row \in Seq(Nat)
  PROVE  \E f \in [0..Len(row) -> Nat] :
           /\ f[0] = 0 /\ Tally(row) = f[Len(row)]
           /\ \A n \in 1..Len(row) : f[n] = f[n - 1] + row[n]
<1>1. Len(row) \in Nat /\ \A n \in 1..Len(row) : row[n] \in Nat
  BY LenProperties
<1>2. \A n \in 1..Len(row), x \in Nat : x + row[n] \in Nat
  BY <1>1
<1> QED BY <1>1, <1>2, TallyRuns

LEMMA TallyNat ==
  ASSUME NEW row \in Seq(Nat)
  PROVE  Tally(row) \in Nat
<1>1. Len(row) \in Nat
  BY LenProperties
<1> QED BY <1>1, TallySteps

\* Rows are added up one after another.
LEMMA TallyJoin ==
  ASSUME NEW a \in Seq(Nat), NEW b \in Seq(Nat)
  PROVE  Tally(a \o b) = Tally(a) + Tally(b)
<1> DEFINE c == a \o b
           M == Len(a)
           N == Len(b)
<1>1. c \in Seq(Nat) /\ Len(c) = M + N /\ M \in Nat /\ N \in Nat
  BY ConcatProperties, LenProperties
<1>2. (\A i \in 1..M : c[i] = a[i]) /\ \A i \in 1..N : c[M + i] = b[i]
  BY ConcatProperties, LenProperties
<1>3. PICK f \in [0..M -> Nat] : /\ f[0] = 0 /\ Tally(a) = f[M]
                                 /\ \A n \in 1..M : f[n] = f[n - 1] + a[n]
  BY TallySteps
<1>4. PICK g \in [0..N -> Nat] : /\ g[0] = 0 /\ Tally(b) = g[N]
                                 /\ \A n \in 1..N : g[n] = g[n - 1] + b[n]
  BY TallySteps
<1> HIDE DEF c
<1>5. PICK h \in [0..Len(c) -> Nat] : /\ h[0] = 0 /\ Tally(c) = h[Len(c)]
                                      /\ \A n \in 1..Len(c) : h[n] = h[n - 1] + c[n]
  BY <1>1, TallySteps
<1> HIDE DEF M, N
<1>6. \A n \in 0..M : h[n] = f[n]
  <2> DEFINE good == {n \in 0..M : h[n] = f[n]}
  <2>1. 0 \in good
    BY <1>1, <1>3, <1>5
  <2>2. \A n \in 1..M : n - 1 \in good => n \in good
    BY <1>1, <1>2, <1>3, <1>5
  <2>3. \A n \in 0..M : n \in good
    <3> HIDE DEF good
    <3> QED BY <1>1, <2>1, <2>2, Climb
  <2> QED BY <2>3
<1>7. \A n \in 0..N : h[M + n] = f[M] + g[n]
  <2> DEFINE good == {n \in 0..N : h[M + n] = f[M] + g[n]}
  <2>1. 0 \in good
    BY <1>1, <1>3, <1>4, <1>6
  <2>2. \A n \in 1..N : n - 1 \in good => n \in good
    <3> SUFFICES ASSUME NEW n \in 1..N, n - 1 \in good PROVE n \in good
      OBVIOUS
    <3>0. h[M + (n - 1)] = f[M] + g[n - 1]
      OBVIOUS
    <3>1. M + n \in 1..Len(c) /\ (M + n) - 1 = M + (n - 1)
      BY <1>1
    <3>2. h[M + n] = h[M + (n - 1)] + c[M + n]
      BY <1>5, <3>1
    <3>3. c[M + n] = b[n]
      BY <1>2
    <3>4. g[n] = g[n - 1] + b[n] /\ n - 1 \in 0..N
      BY <1>1, <1>4
    <3>5. b[n] \in Nat
      BY LenProperties DEF N
    <3>6. g[n - 1] \in Nat /\ f[M] \in Nat
      BY <1>1, <1>3, <1>4, <3>4
    <3>7. h[M + n] = f[M] + g[n]
      BY <3>0, <3>2, <3>3, <3>4, <3>5, <3>6
    <3> QED BY <1>1, <3>7
  <2>3. \A n \in 0..N : n \in good
    <3> HIDE DEF good
    <3> QED BY <1>1, <2>1, <2>2, Climb
  <2> QED BY <2>3
<1> QED BY <1>1, <1>3, <1>4, <1>5, <1>7 DEF c

\* Where one number changes, the total changes by as much.
LEMMA TallyPoint ==
  ASSUME NEW a \in Seq(Nat), NEW b \in Seq(Nat), Len(a) = Len(b), NEW i \in 1..Len(a),
         \A j \in 1..Len(a) : j # i => a[j] = b[j]
  PROVE  Tally(b) + a[i] = Tally(a) + b[i]
<1> DEFINE N == Len(a)
<1>1. N \in Nat /\ \A n \in 1..N : a[n] \in Nat /\ b[n] \in Nat
  BY LenProperties
<1>2. PICK f \in [0..N -> Nat] : /\ f[0] = 0 /\ Tally(a) = f[N]
                                 /\ \A n \in 1..N : f[n] = f[n - 1] + a[n]
  BY TallySteps
<1>3. PICK g \in [0..Len(b) -> Nat] : /\ g[0] = 0 /\ Tally(b) = g[Len(b)]
                                      /\ \A n \in 1..Len(b) : g[n] = g[n - 1] + b[n]
  BY TallySteps
<1>a. Len(b) = N /\ i \in 1..N
  OBVIOUS
<1> HIDE DEF N
<1> DEFINE good == {n \in 0..N : IF n < i THEN g[n] = f[n] ELSE g[n] + a[i] = f[n] + b[i]}
<1>4. i \in 1..N /\ g \in [0..N -> Nat] /\ g[0] = 0 /\ Tally(b) = g[N]
  BY <1>3, <1>a
<1>b. \A n \in 1..N : g[n] = g[n - 1] + b[n]
  BY <1>3, <1>a
<1>5. 0 \in good
  BY <1>1, <1>2, <1>4
<1>6. \A n \in 1..N : n - 1 \in good => n \in good
  <2> SUFFICES ASSUME NEW n \in 1..N, n - 1 \in good PROVE n \in good
    OBVIOUS
  <2>1. f[n - 1] \in Nat /\ g[n - 1] \in Nat /\ f[n] = f[n - 1] + a[n] /\ g[n] = g[n - 1] + b[n]
    BY <1>1, <1>2, <1>4, <1>b
  <2>2. n # i => a[n] = b[n]
    BY DEF N
  <2>a. IF n - 1 < i THEN g[n - 1] = f[n - 1] ELSE g[n - 1] + a[i] = f[n - 1] + b[i]
    OBVIOUS
  <2>b. a[n] \in Nat /\ b[n] \in Nat /\ a[i] \in Nat /\ b[i] \in Nat
    BY <1>1, <1>4
  <2>3. CASE n < i
    <3>1. g[n] = f[n]
      BY <1>1, <1>4, <2>1, <2>2, <2>a, <2>b, <2>3
    <3> QED BY <1>1, <2>3, <3>1
  <2>4. CASE n = i
    <3>2. a[n] = a[i] /\ b[n] = b[i] /\ g[n - 1] = f[n - 1]
      BY <1>1, <1>4, <2>a, <2>4
    <3>1. g[n] + a[i] = f[n] + b[i]
      <4> HIDE DEF good
      <4> QED BY <2>1, <2>b, <3>2
    <3> QED BY <1>1, <2>4, <3>1
  <2>5. CASE n > i
    <3>2. a[n] = b[n] /\ g[n - 1] + a[i] = f[n - 1] + b[i]
      BY <1>1, <1>4, <2>2, <2>a, <2>5
    <3>1. g[n] + a[i] = f[n] + b[i]
      <4> DEFINE p == g[n - 1]
                 q == f[n - 1]
                 x == a[i]
                 y == b[i]
                 z == b[n]
      <4> HIDE DEF good
      <4>1. p \in Nat /\ q \in Nat /\ x \in Nat /\ y \in Nat /\ z \in Nat
        BY <2>1, <2>b
      <4>2. g[n] = p + z /\ f[n] = q + z
        BY <2>1, <3>2
      <4>3. p + x = q + y
        BY <3>2
      <4> HIDE DEF p, q, x, y, z
      <4>4. (p + z) + x = (q + z) + y
        BY <4>1, <4>3
      <4> QED BY <4>2, <4>4 DEF x, y
    <3> QED BY <1>1, <2>5, <3>1
  <2> QED BY <1>4, <2>3, <2>4, <2>5
<1>7. \A n \in 0..N : n \in good
  <2> HIDE DEF good
  <2> QED BY <1>1, <1>5, <1>6, Climb
<1>8. N \in good
  BY <1>1, <1>7
<1> QED BY <1>1, <1>2, <1>3, <1>4, <1>8

LEMMA TallyOne ==
  /\ Tally(<<>>) = 0
  /\ \A x \in Nat : Tally(<<x>>) = x
<1>1. Tally(<<>>) = 0
  <2>1. <<>> \in Seq(Nat) /\ Len(<<>>) = 0
    OBVIOUS
  <2> QED BY <2>1, TallySteps
<1>2. ASSUME NEW x \in Nat PROVE Tally(<<x>>) = x
  <2>1. <<x>> \in Seq(Nat) /\ Len(<<x>>) = 1 /\ <<x>>[1] = x
    OBVIOUS
  <2> DEFINE row == <<x>>
  <2>2. row \in Seq(Nat) /\ Len(row) = 1 /\ row[1] = x
    BY <2>1
  <2> HIDE DEF row
  <2>3. PICK f \in [0..Len(row) -> Nat] : /\ f[0] = 0 /\ Tally(row) = f[Len(row)]
                                          /\ \A n \in 1..Len(row) : f[n] = f[n - 1] + row[n]
    BY <2>2, TallySteps
  <2>4. f[1] = f[1 - 1] + x /\ 1 - 1 = 0
    BY <2>2, <2>3
  <2> QED BY <2>2, <2>3, <2>4 DEF row
<1> QED BY <1>1, <1>2

LEMMA TallyZero ==
  ASSUME NEW row \in Seq(Nat), \A i \in 1..Len(row) : row[i] = 0
  PROVE  Tally(row) = 0
<1>1. PICK f \in [0..Len(row) -> Nat] : /\ f[0] = 0 /\ Tally(row) = f[Len(row)]
                                        /\ \A n \in 1..Len(row) : f[n] = f[n - 1] + row[n]
  BY TallySteps
<1> DEFINE N == Len(row)
<1>2. N \in Nat
  BY LenProperties
<1> DEFINE good == {n \in 0..N : f[n] = 0}
<1>3. 0 \in good
  BY <1>1, <1>2
<1>4. \A n \in 1..N : n - 1 \in good => n \in good
  BY <1>1, <1>2
<1>5. \A n \in 0..N : n \in good
  <2> HIDE DEF good, N
  <2> QED BY <1>2, <1>3, <1>4, Climb
<1> QED BY <1>1, <1>2, <1>5

LEMMA HeldNat ==
  ASSUME NEW slot \in Slot, NEW k \in Kinds
  PROVE  Held(slot, k) \in Nat /\ Held(None, k) = 0
BY DEF Slot, Stack, Held

\* What the places of a row hold is a row of numbers.
LEMMA SumRow ==
  ASSUME NEW slots \in Seq(Slot), NEW k \in Kinds
  PROVE  LET row == [i \in DOMAIN slots |-> Held(slots[i], k)] IN
         /\ row \in Seq(Nat) /\ Len(row) = Len(slots) /\ Sum(slots, k) = Tally(row)
         /\ \A i \in 1..Len(slots) : row[i] = Held(slots[i], k)
<1> DEFINE row == [i \in DOMAIN slots |-> Held(slots[i], k)]
<1>1. Len(slots) \in Nat /\ DOMAIN slots = 1..Len(slots) /\ \A i \in 1..Len(slots) : slots[i] \in Slot
  BY LenProperties
<1>2. row \in [1..Len(slots) -> Nat]
  BY <1>1, HeldNat
<1>3. \A z \in Nat : \A f \in [1..z -> Nat] : f \in Seq(Nat) /\ Len(f) = z
  OBVIOUS
<1>4. row \in Seq(Nat) /\ Len(row) = Len(slots)
  <2> HIDE DEF row
  <2> QED BY <1>1, <1>2, <1>3
<1>5. Sum(slots, k) = Tally(row)
  BY DEF Sum
<1>6. \A i \in 1..Len(slots) : row[i] = Held(slots[i], k)
  BY <1>1
<1> HIDE DEF row
<1> QED BY <1>4, <1>5, <1>6 DEF row

LEMMA SumNat ==
  ASSUME NEW slots \in Seq(Slot), NEW k \in Kinds
  PROVE  Sum(slots, k) \in Nat
<1> DEFINE row == [i \in DOMAIN slots |-> Held(slots[i], k)]
<1>1. row \in Seq(Nat) /\ Sum(slots, k) = Tally(row)
  BY SumRow
<1> HIDE DEF row
<1> QED BY <1>1, TallyNat

LEMMA SumJoin ==
  ASSUME NEW a \in Seq(Slot), NEW b \in Seq(Slot), NEW k \in Kinds
  PROVE  Sum(a \o b, k) = Sum(a, k) + Sum(b, k)
<1> DEFINE c == a \o b
           rowA == [i \in DOMAIN a |-> Held(a[i], k)]
           rowB == [i \in DOMAIN b |-> Held(b[i], k)]
           rowC == [i \in DOMAIN c |-> Held(c[i], k)]
<1>1. /\ c \in Seq(Slot) /\ Len(c) = Len(a) + Len(b) /\ Len(a) \in Nat /\ Len(b) \in Nat
      /\ \A i \in 1..Len(a) : c[i] = a[i]
      /\ \A i \in 1..Len(b) : c[Len(a) + i] = b[i]
  BY ConcatProperties, LenProperties
<1> HIDE DEF c
<1>2. /\ rowA \in Seq(Nat) /\ Len(rowA) = Len(a) /\ Sum(a, k) = Tally(rowA)
      /\ \A i \in 1..Len(a) : rowA[i] = Held(a[i], k)
  BY SumRow
<1>3. /\ rowB \in Seq(Nat) /\ Len(rowB) = Len(b) /\ Sum(b, k) = Tally(rowB)
      /\ \A i \in 1..Len(b) : rowB[i] = Held(b[i], k)
  BY SumRow
<1>4. /\ rowC \in Seq(Nat) /\ Len(rowC) = Len(c) /\ Sum(c, k) = Tally(rowC)
      /\ \A i \in 1..Len(c) : rowC[i] = Held(c[i], k)
  BY <1>1, SumRow
<1> HIDE DEF rowA, rowB, rowC
<1>5. rowC = rowA \o rowB
  <2> DEFINE d == rowA \o rowB
  <2>1. d \in Seq(Nat) /\ Len(d) = Len(rowA) + Len(rowB)
    BY <1>2, <1>3, ConcatProperties
  <2>2. /\ \A i \in 1..Len(rowA) : d[i] = rowA[i]
        /\ \A i \in 1..Len(rowB) : d[Len(rowA) + i] = rowB[i]
    BY <1>2, <1>3, ConcatProperties
  <2> HIDE DEF d
  <2>3. \A i \in 1..Len(c) : rowC[i] = d[i]
    <3> SUFFICES ASSUME NEW i \in 1..Len(c) PROVE rowC[i] = d[i]
      OBVIOUS
    <3>1. CASE i <= Len(a)
      BY <1>1, <1>2, <1>4, <2>2, <3>1
    <3>2. CASE i > Len(a)
      <4>1. i - Len(a) \in 1..Len(b) /\ Len(a) + (i - Len(a)) = i
        BY <1>1, <3>2
      <4>2. c[i] = b[i - Len(a)]
        BY <1>1, <4>1
      <4>3. rowC[i] = rowB[i - Len(a)]
        BY <1>3, <1>4, <4>1, <4>2
      <4>4. d[Len(rowA) + (i - Len(a))] = rowB[i - Len(a)]
        BY <1>2, <1>3, <2>2, <4>1
      <4> QED BY <1>2, <4>1, <4>3, <4>4
    <3> QED BY <1>1, <3>1, <3>2
  <2>4. Len(rowC) = Len(d)
    BY <1>1, <1>2, <1>3, <1>4, <2>1
  <2>5. rowC = d
    BY <1>4, <2>1, <2>3, <2>4, SeqEqual
  <2> QED BY <2>5 DEF d
<1> QED BY <1>2, <1>3, <1>4, <1>5, TallyJoin DEF c

\* What one place holds changes.
LEMMA SumPoint ==
  ASSUME NEW a \in Seq(Slot), NEW b \in Seq(Slot), Len(a) = Len(b), NEW i \in 1..Len(a),
         \A j \in 1..Len(a) : j # i => a[j] = b[j], NEW k \in Kinds
  PROVE  Sum(b, k) + Held(a[i], k) = Sum(a, k) + Held(b[i], k)
<1> DEFINE rowA == [j \in DOMAIN a |-> Held(a[j], k)]
           rowB == [j \in DOMAIN b |-> Held(b[j], k)]
<1>1. /\ rowA \in Seq(Nat) /\ Len(rowA) = Len(a) /\ Sum(a, k) = Tally(rowA)
      /\ \A j \in 1..Len(a) : rowA[j] = Held(a[j], k)
  BY SumRow
<1>2. /\ rowB \in Seq(Nat) /\ Len(rowB) = Len(b) /\ Sum(b, k) = Tally(rowB)
      /\ \A j \in 1..Len(b) : rowB[j] = Held(b[j], k)
  BY SumRow
<1> HIDE DEF rowA, rowB
<1>3. \A j \in 1..Len(rowA) : j # i => rowA[j] = rowB[j]
  BY <1>1, <1>2
<1>4. Len(rowA) = Len(rowB) /\ i \in 1..Len(rowA)
  BY <1>1, <1>2
<1>5. Tally(rowB) + rowA[i] = Tally(rowA) + rowB[i]
  BY <1>1, <1>2, <1>3, <1>4, TallyPoint
<1>6. rowA[i] = Held(a[i], k) /\ rowB[i] = Held(b[i], k)
  BY <1>1, <1>2
<1> QED BY <1>1, <1>2, <1>5, <1>6

\* A row of one slot, and rows that hold nothing.
LEMMA SumFew ==
  ASSUME NEW k \in Kinds
  PROVE  /\ Sum(<<>>, k) = 0
         /\ \A s \in Slot : <<s>> \in Seq(Slot) /\ Sum(<<s>>, k) = Held(s, k)
         /\ \A n \in Nat : Sum(Empty(n), k) = 0
<1>1. Sum(<<>>, k) = 0
  <2> DEFINE nil == <<>>
             row == [i \in DOMAIN nil |-> Held(nil[i], k)]
  <2>1. nil \in Seq(Slot) /\ Len(nil) = 0
    OBVIOUS
  <2> HIDE DEF nil
  <2>2. row \in Seq(Nat) /\ Len(row) = 0 /\ Sum(nil, k) = Tally(row)
    BY <2>1, SumRow
  <2> HIDE DEF row
  <2>3. \A i \in 1..Len(row) : row[i] = 0
    BY <2>2
  <2>4. Tally(row) = 0
    BY <2>2, <2>3, TallyZero
  <2> QED BY <2>2, <2>4 DEF nil
<1>2. ASSUME NEW s \in Slot PROVE <<s>> \in Seq(Slot) /\ Sum(<<s>>, k) = Held(s, k)
  <2> DEFINE one == <<s>>
             row == [i \in DOMAIN one |-> Held(one[i], k)]
  <2>1. one \in Seq(Slot) /\ Len(one) = 1 /\ one[1] = s
    OBVIOUS
  <2> HIDE DEF one
  <2>2. /\ row \in Seq(Nat) /\ Len(row) = 1 /\ Sum(one, k) = Tally(row)
        /\ \A i \in 1..Len(one) : row[i] = Held(one[i], k)
    BY <2>1, SumRow
  <2> HIDE DEF row
  <2>3. row[1] = Held(s, k) /\ Held(s, k) \in Nat
    BY <2>1, <2>2, HeldNat
  <2>4. row = <<Held(s, k)>>
    BY <2>2, <2>3
  <2> QED BY <2>1, <2>2, <2>3, <2>4, TallyOne DEF one
<1>3. ASSUME NEW n \in Nat PROVE Sum(Empty(n), k) = 0
  <2> DEFINE bare == Empty(n)
             row == [i \in DOMAIN bare |-> Held(bare[i], k)]
  <2>1. bare \in [1..n -> Slot] /\ \A i \in 1..n : bare[i] = None
    BY DEF Empty, Slot
  <2>2. \A z \in Nat : \A f \in [1..z -> Slot] : f \in Seq(Slot) /\ Len(f) = z
    OBVIOUS
  <2> HIDE DEF bare
  <2>3. bare \in Seq(Slot) /\ Len(bare) = n
    BY <2>1, <2>2
  <2>4. /\ row \in Seq(Nat) /\ Len(row) = n /\ Sum(bare, k) = Tally(row)
        /\ \A i \in 1..n : row[i] = Held(bare[i], k)
    BY <2>3, SumRow
  <2> HIDE DEF row
  <2>5. None \in Slot /\ Held(None, k) = 0
    BY DEF Slot, Held
  <2>6. \A i \in 1..Len(row) : row[i] = 0
    BY <2>1, <2>4, <2>5
  <2> QED BY <2>4, <2>6, TallyZero DEF bare
<1> QED BY <1>1, <1>2, <1>3

-----------------------------------------------------------------------------
(* Stacks: clicks, pouring and packs. *)

\* A click, left or right (click_stack), leaves stacks within their limits and keeps
\* between slot and cursor as many items of every kind as there were.
THEOREM ClickConserves ==
  ASSUME NEW slot \in Slot, NEW carry \in Slot, NEW right \in BOOLEAN, NEW k \in Kinds
  PROVE  LET after == Click(slot, carry, right) IN
         /\ after[1] \in Slot /\ after[2] \in Slot
         /\ Held(after[1], k) + Held(after[2], k) = Held(slot, k) + Held(carry, k)
<1> DEFINE after == Click(slot, carry, right)
<1>a. CASE right
  <2>1. CASE carry # None
    <3>1. carry \in Stack
      BY <2>1 DEF Slot
    <3>2. CASE Takes(slot, carry.kind)
      <4>1. after = <<Some(carry.kind, Held(slot, carry.kind) + 1),
                      Some(carry.kind, carry.count - 1)>>
        BY <1>a, <2>1, <3>2 DEF Click, Right
      <4> QED BY <4>1, <3>1, <3>2, StacksAssumption, NoneIsNoStack DEF Takes, Slot, Stack, Held, Some
    <3>3. CASE ~Takes(slot, carry.kind)
      <4>1. after = <<slot, carry>>
        BY <1>a, <2>1, <3>3 DEF Click, Right
      <4> QED BY <4>1
    <3> QED BY <3>2, <3>3
  <2>2. CASE carry = None /\ slot = None
    <3>1. after = <<None, None>>
      BY <1>a, <2>2 DEF Click, Right
    <3> QED BY <3>1, <2>2 DEF Slot, Held
  <2>3. CASE carry = None /\ slot # None
    <3>1. slot \in Stack
      BY <2>3 DEF Slot
    <3>2. after = <<Some(slot.kind, slot.count \div 2),
                    Some(slot.kind, slot.count - (slot.count \div 2))>>
      BY <1>a, <2>3 DEF Click, Right
    <3>3. slot.count \div 2 \in Nat /\ slot.count \div 2 < slot.count
      BY <3>1 DEF Stack
    <3> QED BY <3>1, <3>2, <3>3, <2>3, StacksAssumption, NoneIsNoStack DEF Slot, Stack, Held, Some
  <2> QED BY <2>1, <2>2, <2>3
<1>b. CASE ~right
  <2>1. CASE slot # None /\ carry # None /\ slot.kind = carry.kind /\ MaxStack[carry.kind] > 1
    <3>1. slot \in Stack /\ carry \in Stack
      BY <2>1 DEF Slot
    <3> DEFINE n == Less(carry.count, MaxStack[slot.kind] - slot.count)
    <3>2. after = <<Some(slot.kind, slot.count + n), Some(carry.kind, carry.count - n)>>
      BY <1>b, <2>1 DEF Click, Left
    <3>3. n \in Nat /\ n <= carry.count /\ slot.count + n <= MaxStack[slot.kind]
      BY <3>1, StacksAssumption DEF Less, Stack
    <3> HIDE DEF n
    <3> QED BY <2>1, <3>1, <3>2, <3>3, StacksAssumption, NoneIsNoStack DEF Slot, Stack, Held, Some
  <2>2. CASE ~(slot # None /\ carry # None /\ slot.kind = carry.kind /\ MaxStack[carry.kind] > 1)
    <3>1. after = <<carry, slot>>
      BY <1>b, <2>2 DEF Click, Left
    <3> QED BY <3>1, StacksAssumption, NoneIsNoStack DEF Slot, Stack, Held
  <2> QED BY <2>1, <2>2
<1> QED BY <1>a, <1>b

\* Pouring one stack over one slot (the loops of Inventory::add_stack) keeps the slot within
\* its limit, and what it takes is what is no longer left.
THEOREM PouringConserves ==
  ASSUME NEW n \in Nat, NEW before \in [slots : Row(n), left : Nat], NEW i \in 1..n,
         NEW s \in Stack, NEW pass \in {"merge", "fill"}, NEW k \in Kinds
  PROVE  LET after == Poured(s, pass, before, i) IN
         /\ after.slots \in [1..n -> Slot] /\ after.left \in 0..before.left
         /\ \A j \in (1..n) \ {i} : after.slots[j] = before.slots[j]
         /\ Held(after.slots[i], s.kind) + after.left = Held(before.slots[i], s.kind) + before.left
         /\ k # s.kind => Held(after.slots[i], k) = Held(before.slots[i], k)
         /\ after.left = before.left => after.slots = before.slots
<1> DEFINE slots == before.slots
           left == before.left
           after  == Poured(s, pass, before, i)
           here   == slots[i]
           room   == IF (here = None) = (pass = "fill") /\ Takes(here, s.kind)
                     THEN MaxStack[s.kind] - Held(here, s.kind) ELSE 0
           m      == Less(left, room)
<1>0. slots \in [1..n -> Slot] /\ left \in Nat
  BY DEF Row
<1>1. here \in Slot /\ MaxStack[s.kind] \in Nat \ {0}
  BY <1>0, StacksAssumption DEF Stack
<1>2. room \in Nat /\ (room > 0 => (here = None \/ (here \in Stack /\ here.kind = s.kind)))
  BY <1>1 DEF Slot, Stack, Takes, Held
<1>3. m \in 0..left /\ m <= room
  BY <1>0, <1>2 DEF Less
<1>4. after = IF m = 0 THEN before
              ELSE [slots |-> [slots EXCEPT ![i] = Some(s.kind, Held(here, s.kind) + m)],
                    left  |-> left - m]
  BY DEF Poured
<1> HIDE DEF slots, left
<1>5. CASE m = 0
  BY <1>0, <1>4, <1>5 DEF slots, left
<1>6. CASE m # 0
  <2>1. room = MaxStack[s.kind] - Held(here, s.kind) /\ room > 0
    BY <1>2, <1>3, <1>6
  <2>2. Held(here, s.kind) \in Nat
    BY <1>1, <1>2, <2>1 DEF Held, Stack
  <2> DEFINE c == Held(here, s.kind) + m
  <2>3. c \in Nat \ {0} /\ c <= MaxStack[s.kind]
    BY <1>1, <1>3, <1>6, <2>1, <2>2
  <2>4. Some(s.kind, c) = [kind |-> s.kind, count |-> c] /\ Some(s.kind, c) \in Stack
    BY <2>3 DEF Some, Stack
  <2>5. after.slots = [slots EXCEPT ![i] = Some(s.kind, c)] /\ after.left = left - m
    <3> HIDE DEF after, m, here
    <3> QED BY <1>4, <1>6 DEF slots, left
  <2>6. after.slots[i] = Some(s.kind, c) /\ \A j \in (1..n) \ {i} : after.slots[j] = slots[j]
    BY <1>0, <2>5
  <2>7. Held(after.slots[i], s.kind) = c /\ (k # s.kind => Held(after.slots[i], k) = 0)
    BY <2>6, <2>4, NoneIsNoStack DEF Held
  <2>8. k # s.kind => Held(here, k) = 0
    BY <1>2, <2>1 DEF Held
  <2> HIDE DEF after, room, here, m, c
  <2>9. Held(here, s.kind) + m = c
    BY DEF c
  <2>10. here = slots[i]
    BY DEF here
  <2>11. after.slots \in [1..n -> Slot] /\ after.left \in 0..left
    BY <1>0, <2>4, <2>5, <1>3 DEF Slot
  <2>12. Held(after.slots[i], s.kind) + after.left = Held(here, s.kind) + left
    BY <1>0, <2>2, <2>5, <2>7, <2>9, <1>3
  <2>13. after.left # left
    BY <1>0, <2>5, <1>3, <1>6
  <2> QED BY <2>6, <2>7, <2>8, <2>10, <2>11, <2>12, <2>13 DEF after, slots, left
<1> HIDE DEF after
<1> QED BY <1>5, <1>6 DEF after

\* A row of slots is a sequence of them.
LEMMA RowSeq ==
  ASSUME NEW n \in Nat, NEW row \in Row(n)
  PROVE  row \in Seq(Slot) /\ Len(row) = n
<1>1. \A z \in Nat : \A f \in [1..z -> Slot] : f \in Seq(Slot) /\ Len(f) = z
  OBVIOUS
<1> QED BY <1>1 DEF Row

LEMMA RowSum ==
  ASSUME NEW n \in Nat, NEW row \in Row(n), NEW k \in Kinds
  PROVE  Sum(row, k) \in Nat
BY RowSeq, SumNat

\* A change of one slot of a row.
LEMMA RowPoint ==
  ASSUME NEW n \in Nat, NEW row \in Row(n), NEW i \in 1..n, NEW s \in Slot, NEW k \in Kinds
  PROVE  LET b == [row EXCEPT ![i] = s] IN
         b \in Row(n) /\ Sum(b, k) + Held(row[i], k) = Sum(row, k) + Held(s, k)
<1> DEFINE b == [row EXCEPT ![i] = s]
<1>1. b \in Row(n) /\ b[i] = s /\ \A j \in 1..n : j # i => row[j] = b[j]
  BY DEF Row
<1> HIDE DEF b
<1>2. row \in Seq(Slot) /\ Len(row) = n /\ b \in Seq(Slot) /\ Len(b) = n
  BY <1>1, RowSeq
<1>3. Sum(b, k) + Held(row[i], k) = Sum(row, k) + Held(b[i], k)
  BY <1>1, <1>2, SumPoint
<1> QED BY <1>1, <1>3 DEF b

\* What of a stack s with n left is of kind k.
Over(s, n, k) == IF k = s.kind THEN n ELSE 0

LEMMA PouredKeeps ==
  ASSUME NEW n \in Nat, NEW left \in Nat, NEW x \in [slots : Row(n), left : 0..left],
         NEW s \in Stack, NEW pass \in {"merge", "fill"}, NEW i \in 1..n
  PROVE  LET y == Poured(s, pass, x, i) IN
         /\ y \in [slots : Row(n), left : 0..left] /\ y.left <= x.left
         /\ y.left = x.left => y.slots = x.slots
         /\ \A k \in Kinds : Sum(y.slots, k) + Over(s, y.left, k) = Sum(x.slots, k) + Over(s, x.left, k)
<1> DEFINE y == Poured(s, pass, x, i)
<1>1. x = [slots |-> x.slots, left |-> x.left] /\ x.slots \in [1..n -> Slot] /\ x.left \in 0..left
  BY DEF Row
<1>2. s.kind \in Kinds
  BY DEF Stack
<1>a. x \in [slots : Row(n), left : Nat]
  BY <1>1
<1>b. \A k \in Kinds : k # s.kind => Held(y.slots[i], k) = Held(x.slots[i], k)
  BY <1>a, PouringConserves
<1>c. y.slots \in [1..n -> Slot] /\ y.left \in 0..x.left
  BY <1>a, <1>2, PouringConserves
<1>e. y.left = x.left => y.slots = x.slots
  BY <1>a, <1>2, PouringConserves
<1>d. /\ \A j \in (1..n) \ {i} : y.slots[j] = x.slots[j]
      /\ Held(y.slots[i], s.kind) + y.left = Held(x.slots[i], s.kind) + x.left
  BY <1>a, <1>2, PouringConserves
<1>4. y.slots \in [1..n -> Slot] /\ y.left \in 0..x.left /\ (y.left = x.left => y.slots = x.slots)
  BY <1>c, <1>e
<1>5. y = [slots |-> y.slots, left |-> y.left]
  BY <1>1 DEF Poured
<1> HIDE DEF y
<1>6. y \in [slots : Row(n), left : 0..left] /\ y.left <= x.left
  BY <1>1, <1>4, <1>5 DEF Row
<1>7. ASSUME NEW k \in Kinds
      PROVE  Sum(y.slots, k) + Over(s, y.left, k) = Sum(x.slots, k) + Over(s, x.left, k)
  <2> DEFINE a == x.slots
             b == y.slots
  <2>1. a \in Seq(Slot) /\ b \in Seq(Slot) /\ Len(a) = n /\ Len(b) = n
    BY <1>1, <1>4, RowSeq DEF Row
  <2>2. \A j \in 1..n : j # i => a[j] = b[j]
    BY <1>d
  <2>3. a[i] \in Slot /\ b[i] \in Slot
    BY <1>1, <1>4
  <2>4. Held(b[i], s.kind) + y.left = Held(a[i], s.kind) + x.left
    BY <1>d
  <2>5. k # s.kind => Held(b[i], k) = Held(a[i], k)
    BY <1>b
  <2> HIDE DEF a, b
  <2>6. Sum(b, k) + Held(a[i], k) = Sum(a, k) + Held(b[i], k)
    BY <2>1, <2>2, SumPoint
  <2>7. Sum(a, k) \in Nat /\ Sum(b, k) \in Nat /\ Held(a[i], k) \in Nat /\ Held(b[i], k) \in Nat
    BY <2>1, <2>3, SumNat, HeldNat
  <2>8. x.left \in Nat /\ y.left \in Nat
    BY <1>1, <1>4
  <2>9. CASE k = s.kind
    <3>1. Held(b[i], k) + y.left = Held(a[i], k) + x.left
      BY <2>4, <2>9
    <3>2. Sum(b, k) + y.left = Sum(a, k) + x.left
      <4> DEFINE p == Sum(a, k)
                 q == Sum(b, k)
                 u == Held(a[i], k)
                 v == Held(b[i], k)
                 before == x.left
                 after == y.left
      <4>1. /\ p \in Nat /\ q \in Nat /\ u \in Nat /\ v \in Nat /\ before \in Nat /\ after \in Nat
            /\ q + u = p + v /\ v + after = u + before
        BY <2>6, <2>7, <2>8, <3>1
      <4> HIDE DEF p, q, u, v, before, after
      <4>2. q + after = p + before
        BY <4>1
      <4> QED BY <4>2 DEF p, q, before, after
    <3> QED BY <2>9, <3>2 DEF Over, a, b
  <2>10. CASE k # s.kind
    BY <2>5, <2>6, <2>7, <2>10 DEF Over, a, b
  <2> QED BY <2>9, <2>10
<1> QED BY <1>4, <1>6, <1>7 DEF y

\* A pass moves items, and leaves the slots alone when it takes nothing.
LEMMA PassKeeps ==
  ASSUME NEW n \in Nat, NEW left \in Nat, NEW start \in [slots : Row(n), left : 0..left],
         NEW s \in Stack, NEW pass \in {"merge", "fill"}
  PROVE  LET y == Pass(s, pass, start) IN
         /\ y \in [slots : Row(n), left : 0..left] /\ y.left <= start.left
         /\ y.left = start.left => y.slots = start.slots
         /\ \A k \in Kinds :
              Sum(y.slots, k) + Over(s, y.left, k) = Sum(start.slots, k) + Over(s, start.left, k)
<1> DEFINE X == [slots : Row(n), left : 0..left]
           N == Len(start.slots)
           Kept(x, y) == /\ y.left <= x.left
                         /\ y.left = x.left => y.slots = x.slots
                         /\ \A k \in Kinds : Sum(y.slots, k) + Over(s, y.left, k)
                                             = Sum(x.slots, k) + Over(s, x.left, k)
<1>1. start \in X /\ start.slots \in Row(n)
  OBVIOUS
<1>2. N = n
  BY <1>1, RowSeq
<1>3. \A i \in 1..N, x \in X : Poured(s, pass, x, i) \in X /\ Kept(x, Poured(s, pass, x, i))
  BY <1>2, PouredKeeps
<1>a. \A i \in 1..N, x \in X : Poured(s, pass, x, i) \in X
  BY <1>3
<1> HIDE DEF X, Kept
<1>4. PICK f \in [0..N -> X] :
        /\ f[0] = start /\ Pass(s, pass, start) = f[N]
        /\ \A i \in 1..N : f[i] = Poured(s, pass, f[i - 1], i)
  <2>1. Len(start.slots) \in Nat
    BY <1>2
  <2> QED BY <1>1, <1>a, <2>1, PassRuns
<1> DEFINE good == {i \in 0..N : Kept(start, f[i])}
<1>5. 0 \in good
  BY <1>1, <1>2, <1>4 DEF Kept, X
<1>6. \A i \in 1..N : i - 1 \in good => i \in good
  <2> SUFFICES ASSUME NEW i \in 1..N, i - 1 \in good PROVE i \in good
    OBVIOUS
  <2>1. i - 1 \in 0..N /\ f[i - 1] \in X /\ f[i] \in X /\ Kept(f[i - 1], f[i])
    BY <1>2, <1>3, <1>4
  <2>2. Kept(start, f[i - 1])
    OBVIOUS
  <2>3. start.left \in Nat /\ f[i].left \in Nat /\ f[i - 1].left \in Nat
    BY <1>1, <2>1 DEF X
  <2>4. Kept(start, f[i])
    BY <2>1, <2>2, <2>3 DEF Kept
  <2> QED BY <1>2, <2>4
<1>b. \A i \in 0..N : i \in good
  <2> HIDE DEF good
  <2> QED BY <1>2, <1>5, <1>6, Climb
<1>7. N \in good /\ f[N] \in X
  BY <1>2, <1>4, <1>b
<1> QED BY <1>2, <1>4, <1>7 DEF Kept, X

\* Adding a stack to a row (Inventory::add_stack) makes and loses nothing: what the row did
\* not take is left, and when all of it is left the row is as it was.
THEOREM AddStackConserves ==
  ASSUME NEW n \in Nat, NEW slots \in Row(n), NEW s \in Stack
  PROVE  LET r == AddStack(slots, s) IN
         /\ r.slots \in Row(n) /\ r.left \in 0..s.count
         /\ r.left = s.count => r.slots = slots
         /\ \A k \in Kinds : Sum(r.slots, k) + Over(s, r.left, k) = Sum(slots, k) + Held(s, k)
<1> DEFINE start == [slots |-> slots, left |-> s.count]
           merged == Pass(s, "merge", start)
           r == Pass(s, "fill", merged)
           X == [slots : Row(n), left : 0..s.count]
<1>1. s.count \in Nat /\ s # None
  BY NoneIsNoStack DEF Stack
<1>2. start \in X /\ start.left = s.count /\ start.slots = slots
  BY <1>1
<1> HIDE DEF start
<1>3. /\ merged \in X /\ merged.left <= start.left
      /\ merged.left = start.left => merged.slots = start.slots
      /\ \A k \in Kinds :
           Sum(merged.slots, k) + Over(s, merged.left, k) = Sum(start.slots, k) + Over(s, start.left, k)
  BY <1>1, <1>2, PassKeeps
<1> HIDE DEF merged
<1>4. /\ r \in X /\ r.left <= merged.left
      /\ r.left = merged.left => r.slots = merged.slots
      /\ \A k \in Kinds :
           Sum(r.slots, k) + Over(s, r.left, k) = Sum(merged.slots, k) + Over(s, merged.left, k)
  BY <1>1, <1>3, PassKeeps
<1> HIDE DEF r
<1>5. \A k \in Kinds : Over(s, s.count, k) = Held(s, k)
  BY <1>1 DEF Over, Held
<1>6. AddStack(slots, s) = r
  BY DEF AddStack, r, merged, start
<1>7. r.slots \in Row(n) /\ r.left \in 0..s.count /\ merged.left \in 0..s.count
  BY <1>3, <1>4
<1>8. r.left = s.count => r.slots = slots
  BY <1>1, <1>2, <1>3, <1>4, <1>7
<1> QED BY <1>2, <1>3, <1>4, <1>5, <1>6, <1>7, <1>8

\* Taking the stacks out of a row (Inventory::drain) takes all it holds.
LEMMA FilledKeeps ==
  ASSUME NEW row \in Seq(Slot)
  PROVE  /\ Filled(row) \in Seq(Stack)
         /\ \A k \in Kinds : Sum(Filled(row), k) = Sum(row, k)
<1> DEFINE N == Len(row)
           X == Seq(Stack)
           nil == <<>>
           Grown(n, x) == IF row[n] = None THEN x ELSE Append(x, row[n])
<1>1. N \in Nat /\ \A n \in 1..N : row[n] \in Slot
  BY LenProperties
<1>2. nil \in X /\ \A n \in 1..N, x \in X : Grown(n, x) \in X
  BY <1>1 DEF Slot
<1>3. PICK f \in [0..N -> X] :
        /\ f[0] = nil /\ Filled(row) = f[N] /\ \A n \in 1..N : f[n] = Grown(n, f[n - 1])
  <2> HIDE DEF X
  <2> QED BY <1>1, <1>2, FilledRuns
<1>4. ASSUME NEW k \in Kinds PROVE Sum(f[N], k) = Sum(row, k)
  <2> DEFINE holds == [i \in DOMAIN row |-> Held(row[i], k)]
  <2>1. /\ holds \in Seq(Nat) /\ Len(holds) = N /\ Sum(row, k) = Tally(holds)
        /\ \A i \in 1..N : holds[i] = Held(row[i], k)
    BY SumRow
  <2> HIDE DEF holds
  <2>2. PICK g \in [0..N -> Nat] : /\ g[0] = 0 /\ Tally(holds) = g[N]
                                   /\ \A n \in 1..N : g[n] = g[n - 1] + holds[n]
    <3>1. \E g \in [0..Len(holds) -> Nat] : /\ g[0] = 0 /\ Tally(holds) = g[Len(holds)]
                                           /\ \A n \in 1..Len(holds) : g[n] = g[n - 1] + holds[n]
      BY <2>1, TallySteps
    <3> HIDE DEF N
    <3> QED BY <2>1, <3>1
  <2> HIDE DEF N, X, nil
  <2> DEFINE good == {n \in 0..N : Sum(f[n], k) = g[n]}
  <2>3. 0 \in good
    BY <1>1, <1>3, <2>2, SumFew DEF nil
  <2>4. \A n \in 1..N : n - 1 \in good => n \in good
    <3> SUFFICES ASSUME NEW n \in 1..N, n - 1 \in good PROVE n \in good
      OBVIOUS
    <3>1. n - 1 \in 0..N /\ f[n - 1] \in X /\ f[n] = Grown(n, f[n - 1]) /\ g[n] = g[n - 1] + holds[n]
      BY <1>1, <1>3, <2>2
    <3>2. Sum(f[n - 1], k) = g[n - 1] /\ g[n - 1] \in Nat /\ holds[n] = Held(row[n], k)
      BY <2>1, <2>2, <3>1
    <3>3. Sum(f[n], k) = g[n]
      <4>1. CASE row[n] = None
        <5>1. holds[n] = 0 /\ f[n] = f[n - 1]
          BY <3>1, <3>2, <4>1 DEF Held
        <5> HIDE DEF good
        <5> QED BY <3>1, <3>2, <5>1
      <4>2. CASE row[n] # None
        <5> DEFINE q == f[n - 1]
        <5>1. q \in Seq(Slot) /\ row[n] \in Slot /\ q \in Seq(Stack) /\ row[n] \in Stack
          BY <1>1, <3>1, <4>2 DEF X, Slot
        <5>2. f[n] = Append(q, row[n])
          BY <3>1, <4>2
        <5> HIDE DEF q, good, Grown
        <5>3. Append(q, row[n]) = q \o <<row[n]>>
          BY <5>1, AppendIsConcat
        <5>4. <<row[n]>> \in Seq(Slot) /\ Sum(<<row[n]>>, k) = Held(row[n], k)
          BY <5>1, SumFew
        <5> DEFINE one == <<row[n]>>
        <5>a. one \in Seq(Slot) /\ Sum(one, k) = Held(row[n], k) /\ f[n] = q \o one
          BY <5>2, <5>3, <5>4
        <5> HIDE DEF one
        <5>5. Sum(f[n], k) = Sum(q, k) + Held(row[n], k)
          BY <5>1, <5>a, SumJoin
        <5> QED BY <3>1, <3>2, <5>5 DEF q
      <4> QED BY <4>1, <4>2
    <3> QED BY <1>1, <3>3
  <2>5. \A n \in 0..N : n \in good
    <3> HIDE DEF good
    <3> QED BY <1>1, <2>3, <2>4, Climb
  <2>6. N \in good
    BY <1>1, <2>5
  <2> QED BY <2>1, <2>2, <2>6
<1> QED BY <1>1, <1>3, <1>4

-----------------------------------------------------------------------------
(* Numbers for guests, and rows of stacks. *)

\* Every guest has one place in the order.
LEMMA EveryoneOnce ==
  LET everyone == SetToSeq(Guests) IN
  /\ everyone \in Seq(Guests)
  /\ \A i, j \in 1..Len(everyone) : everyone[i] = everyone[j] => i = j
  /\ \A g \in Guests : \E i \in 1..Len(everyone) : everyone[i] = g
<1> DEFINE everyone == SetToSeq(Guests)
           N == Cardinality(Guests)
           D == 1..N
<1>1. N \in Nat /\ ExistsBijection(D, Guests) /\ IsFiniteSet(Guests)
  BY CustodyAssumption, FS_CardinalityType
<1>2. \E f \in [D -> Guests] : IsInjective(f)
  BY <1>1 DEF ExistsBijection, Bijection, Injection
<1>3. everyone \in [D -> Guests] /\ IsInjective(everyone)
  <2>1. everyone = CHOOSE f \in [D -> Guests] : IsInjective(f)
    BY DEF SetToSeq
  <2> HIDE DEF everyone, D
  <2> QED BY <1>2, <2>1
<1> HIDE DEF everyone, N
<1>4. \A z \in Nat : \A f \in [1..z -> Guests] : f \in Seq(Guests) /\ Len(f) = z
  OBVIOUS
<1>5. everyone \in Seq(Guests) /\ Len(everyone) = N
  BY <1>1, <1>3, <1>4
<1>6. everyone \in Injection(D, Guests)
  BY <1>3 DEF Injection
<1>7. Cardinality(D) = N
  BY <1>1, FS_Interval
<1> HIDE DEF D
<1>8. everyone \in Surjection(D, Guests)
  BY <1>1, <1>6, <1>7, FS_Injection DEF N
<1>9. \A g \in Guests : \E i \in D : everyone[i] = g
  BY <1>8 DEF Surjection
<1>10. \A i, j \in D : everyone[i] = everyone[j] => i = j
  BY <1>3 DEF IsInjective, D
<1> QED BY <1>5, <1>9, <1>10 DEF D, everyone

LEMMA AmongRow ==
  ASSUME NEW f \in [Guests -> Nat]
  PROVE  LET everyone == SetToSeq(Guests)
             row == [i \in DOMAIN everyone |-> f[everyone[i]]] IN
         /\ row \in Seq(Nat) /\ Len(row) = Len(everyone) /\ AmongGuests(f) = Tally(row)
         /\ \A i \in 1..Len(everyone) : row[i] = f[everyone[i]]
<1> DEFINE everyone == SetToSeq(Guests)
           row == [i \in DOMAIN everyone |-> f[everyone[i]]]
<1>1. everyone \in Seq(Guests)
  BY EveryoneOnce
<1> HIDE DEF everyone
<1>2. /\ Len(everyone) \in Nat /\ DOMAIN everyone = 1..Len(everyone)
      /\ \A i \in 1..Len(everyone) : everyone[i] \in Guests
  BY <1>1, LenProperties
<1>3. row \in [1..Len(everyone) -> Nat]
  BY <1>2
<1>4. \A z \in Nat : \A h \in [1..z -> Nat] : h \in Seq(Nat) /\ Len(h) = z
  OBVIOUS
<1>5. AmongGuests(f) = Tally(row)
  BY DEF AmongGuests, everyone
<1>6. \A i \in 1..Len(everyone) : row[i] = f[everyone[i]]
  BY <1>2
<1> HIDE DEF row
<1>7. row \in Seq(Nat) /\ Len(row) = Len(everyone)
  BY <1>2, <1>3, <1>4
<1> QED BY <1>5, <1>6, <1>7 DEF row, everyone

LEMMA AmongNat ==
  ASSUME NEW f \in [Guests -> Nat]
  PROVE  AmongGuests(f) \in Nat
<1> DEFINE everyone == SetToSeq(Guests)
           row == [i \in DOMAIN everyone |-> f[everyone[i]]]
<1>1. row \in Seq(Nat) /\ AmongGuests(f) = Tally(row)
  BY AmongRow
<1> HIDE DEF row
<1> QED BY <1>1, TallyNat

\* When one guest's number changes, the total changes by as much.
LEMMA AmongPoint ==
  ASSUME NEW f \in [Guests -> Nat], NEW h \in [Guests -> Nat], NEW g \in Guests,
         \A x \in Guests : x # g => f[x] = h[x]
  PROVE  AmongGuests(h) + f[g] = AmongGuests(f) + h[g]
<1> DEFINE everyone == SetToSeq(Guests)
           a == [i \in DOMAIN everyone |-> f[everyone[i]]]
           b == [i \in DOMAIN everyone |-> h[everyone[i]]]
<1>1. /\ a \in Seq(Nat) /\ Len(a) = Len(everyone) /\ AmongGuests(f) = Tally(a)
      /\ \A i \in 1..Len(everyone) : a[i] = f[everyone[i]]
  BY AmongRow
<1>2. /\ b \in Seq(Nat) /\ Len(b) = Len(everyone) /\ AmongGuests(h) = Tally(b)
      /\ \A i \in 1..Len(everyone) : b[i] = h[everyone[i]]
  BY AmongRow
<1>3. /\ everyone \in Seq(Guests)
      /\ \A i, j \in 1..Len(everyone) : everyone[i] = everyone[j] => i = j
  BY EveryoneOnce
<1>4. PICK i \in 1..Len(everyone) : everyone[i] = g
  BY EveryoneOnce
<1> HIDE DEF everyone, a, b
<1>5. \A j \in 1..Len(a) : j # i => a[j] = b[j]
  <2>1. \A j \in 1..Len(everyone) : everyone[j] \in Guests
    BY <1>3
  <2> QED BY <1>1, <1>2, <1>3, <1>4, <2>1
<1>6. Len(a) = Len(b) /\ i \in 1..Len(a)
  BY <1>1, <1>2
<1>7. Tally(b) + a[i] = Tally(a) + b[i]
  BY <1>1, <1>2, <1>5, <1>6, TallyPoint
<1>8. a[i] = f[g] /\ b[i] = h[g]
  BY <1>1, <1>2, <1>4
<1> QED BY <1>1, <1>2, <1>7, <1>8

LEMMA StackSeq ==
  /\ \A s \in Stack : s \in Slot /\ s # None /\ s.kind \in Kinds /\ s.count \in Nat \ {0}
  /\ \A s \in Seq(Stack) : s \in Seq(Slot)
<1>1. \A s \in Stack : s \in Slot /\ s # None /\ s.kind \in Kinds /\ s.count \in Nat \ {0}
  BY NoneIsNoStack DEF Slot, Stack
<1>2. ASSUME NEW s \in Seq(Stack) PROVE s \in Seq(Slot)
  BY <1>1
<1> QED BY <1>1, <1>2

LEMMA StackSum ==
  ASSUME NEW k \in Kinds
  PROVE  /\ \A s \in Seq(Stack) : Sum(s, k) \in Nat
         /\ \A s, t \in Seq(Stack) : s \o t \in Seq(Stack) /\ Sum(s \o t, k) = Sum(s, k) + Sum(t, k)
<1>1. ASSUME NEW s \in Seq(Stack) PROVE Sum(s, k) \in Nat
  BY StackSeq, SumNat
<1>2. ASSUME NEW s \in Seq(Stack), NEW t \in Seq(Stack)
      PROVE  s \o t \in Seq(Stack) /\ Sum(s \o t, k) = Sum(s, k) + Sum(t, k)
  <2>1. s \in Seq(Slot) /\ t \in Seq(Slot)
    BY StackSeq
  <2> QED BY <2>1, SumJoin, ConcatProperties
<1> QED BY <1>1, <1>2

LEMMA StackAppend ==
  ASSUME NEW s \in Seq(Stack), NEW x \in Stack, NEW k \in Kinds
  PROVE  Append(s, x) \in Seq(Stack) /\ Sum(Append(s, x), k) = Sum(s, k) + Held(x, k)
<1> DEFINE one == <<x>>
<1>1. one \in Seq(Slot) /\ Sum(one, k) = Held(x, k)
  BY StackSeq, SumFew
<1>2. s \in Seq(Slot) /\ x \in Slot
  BY StackSeq
<1>3. Append(s, x) = s \o one
  BY <1>2, AppendIsConcat
<1>4. Append(s, x) \in Seq(Stack)
  BY AppendProperties
<1> HIDE DEF one
<1> QED BY <1>1, <1>2, <1>3, <1>4, SumJoin

\* Taking one stack out of a row of them.
LEMMA StackRemoved ==
  ASSUME NEW s \in Seq(Stack), NEW i \in DOMAIN s, NEW k \in Kinds
  PROVE  RemoveAt(s, i) \in Seq(Stack) /\ Sum(s, k) = Sum(RemoveAt(s, i), k) + Held(s[i], k)
<1> DEFINE N == Len(s)
           a == SubSeq(s, 1, i - 1)
           b == SubSeq(s, i + 1, N)
           c == SubSeq(s, i, N)
           one == <<s[i]>>
<1>1. N \in Nat /\ DOMAIN s = 1..N /\ i \in 1..N /\ \A j \in 1..N : s[j] \in Stack
  BY LenProperties
<1>2. a \in Seq(Stack) /\ b \in Seq(Stack)
  BY <1>1, SubSeqProperties
<1>3. RemoveAt(s, i) = a \o b
  BY DEF RemoveAt
<1>4. c = one \o b
  <2>1. i \in 1..Len(s) /\ Len(s) \in i..Len(s) /\ s \in Seq(Stack)
    BY <1>1
  <2>2. SubSeq(s, i, Len(s)) = <<s[i]>> \o SubSeq(s, i + 1, Len(s))
    BY <2>1, SubSeqRecursiveFirst
  <2> QED BY <2>2
<1>5. a \o c = s
  <2>1. 1 \in 1..Len(s)+1 /\ i - 1 \in 1-1..Len(s) /\ Len(s) \in i-1..Len(s) /\ (i - 1) + 1 = i
    BY <1>1
  <2>2. SubSeq(s, 1, i - 1) \o SubSeq(s, (i - 1) + 1, Len(s)) = SubSeq(s, 1, Len(s))
    BY <2>1, ConcatAdjacentSubSeq
  <2> QED BY <2>1, <2>2, SubSeqFull
<1>6. one \in Seq(Stack) /\ Sum(one, k) = Held(s[i], k)
  <2>1. s[i] \in Stack
    BY <1>1
  <2>2. one \in Seq(Stack)
    BY <2>1
  <2> QED BY <2>1, <2>2, StackSeq, SumFew
<1> HIDE DEF a, b, c, one, N
<1>7. Sum(a \o b, k) = Sum(a, k) + Sum(b, k) /\ a \o b \in Seq(Stack)
  BY <1>2, StackSum
<1>8. c \in Seq(Stack) /\ Sum(c, k) = Sum(one, k) + Sum(b, k)
  BY <1>2, <1>4, <1>6, StackSum
<1>9. Sum(s, k) = Sum(a, k) + Sum(c, k)
  BY <1>2, <1>5, <1>8, StackSum
<1>10. Sum(a, k) \in Nat /\ Sum(b, k) \in Nat /\ Sum(one, k) \in Nat
  BY <1>2, <1>6, StackSum
<1> DEFINE p == Sum(a, k)
           q == Sum(b, k)
           h == Held(s[i], k)
<1>11. p \in Nat /\ q \in Nat /\ h \in Nat /\ Sum(s, k) = p + (h + q)
  BY <1>6, <1>8, <1>9, <1>10
<1>12. Sum(RemoveAt(s, i), k) = p + q
  BY <1>3, <1>7
<1> HIDE DEF p, q, h
<1>13. Sum(s, k) = (p + q) + h
  BY <1>11
<1> QED BY <1>3, <1>7, <1>12, <1>13 DEF h

Owe == Seq((Guests \cup {None}) \X Stack)

LEMMA OwingRow ==
  ASSUME NEW o \in Owe
  PROVE  LET row == [i \in DOMAIN o |-> o[i][2]] IN
         /\ row \in Seq(Stack) /\ Len(row) = Len(o) /\ \A i \in 1..Len(o) : row[i] = o[i][2]
<1> DEFINE row == [i \in DOMAIN o |-> o[i][2]]
<1>1. /\ Len(o) \in Nat /\ DOMAIN o = 1..Len(o)
      /\ \A i \in 1..Len(o) : o[i] \in (Guests \cup {None}) \X Stack
  BY LenProperties DEF Owe
<1>2. row \in [1..Len(o) -> Stack]
  BY <1>1
<1>3. \A z \in Nat : \A h \in [1..z -> Stack] : h \in Seq(Stack) /\ Len(h) = z
  OBVIOUS
<1>4. \A i \in 1..Len(o) : row[i] = o[i][2]
  BY <1>1
<1> HIDE DEF row
<1>5. row \in Seq(Stack) /\ Len(row) = Len(o)
  BY <1>1, <1>2, <1>3
<1> QED BY <1>4, <1>5 DEF row

LEMMA OwingAppend ==
  ASSUME NEW o \in Owe, NEW g \in Guests \cup {None}, NEW s \in Stack, NEW k \in Kinds
  PROVE  /\ Append(o, <<g, s>>) \in Owe /\ Owing(o, k) \in Nat
         /\ Owing(Append(o, <<g, s>>), k) = Owing(o, k) + Held(s, k)
<1> DEFINE e == <<g, s>>
           p == Append(o, e)
           rowO == [i \in DOMAIN o |-> o[i][2]]
           rowP == [i \in DOMAIN p |-> p[i][2]]
<1>1. e \in (Guests \cup {None}) \X Stack /\ e[2] = s
  OBVIOUS
<1> HIDE DEF e
<1>2. p \in Owe /\ Len(p) = Len(o) + 1 /\ p[Len(o) + 1] = e /\ \A i \in 1..Len(o) : p[i] = o[i]
  BY <1>1, AppendProperties DEF Owe
<1> HIDE DEF p
<1>3. /\ rowO \in Seq(Stack) /\ Len(rowO) = Len(o) /\ \A i \in 1..Len(o) : rowO[i] = o[i][2]
  BY OwingRow
<1>4. /\ rowP \in Seq(Stack) /\ Len(rowP) = Len(p) /\ \A i \in 1..Len(p) : rowP[i] = p[i][2]
  BY <1>2, OwingRow
<1>5. Owing(o, k) = Sum(rowO, k) /\ Owing(p, k) = Sum(rowP, k)
  BY DEF Owing
<1> HIDE DEF rowO, rowP
<1>6. Len(o) \in Nat
  BY LenProperties DEF Owe
<1>7. rowP = Append(rowO, s)
  <2> DEFINE q == Append(rowO, s)
  <2>1. q \in Seq(Stack) /\ Len(q) = Len(o) + 1 /\ q[Len(o) + 1] = s /\ \A i \in 1..Len(o) : q[i] = rowO[i]
    BY <1>3, AppendProperties
  <2> HIDE DEF q
  <2>2. \A i \in 1..Len(rowP) : rowP[i] = q[i]
    <3> SUFFICES ASSUME NEW i \in 1..Len(p) PROVE rowP[i] = q[i]
      BY <1>4
    <3>1. CASE i = Len(o) + 1
      BY <1>1, <1>2, <1>4, <2>1, <3>1
    <3>2. CASE i \in 1..Len(o)
      BY <1>2, <1>3, <1>4, <2>1, <3>2
    <3> QED BY <1>2, <1>6, <3>1, <3>2
  <2>3. Len(rowP) = Len(q)
    BY <1>2, <1>4, <2>1
  <2>4. rowP = q
    BY <1>4, <2>1, <2>2, <2>3, SeqEqual
  <2> QED BY <2>4 DEF q
<1>8. Sum(rowP, k) = Sum(rowO, k) + Held(s, k) /\ Sum(rowO, k) \in Nat
  BY <1>3, <1>7, StackAppend, StackSum
<1> QED BY <1>2, <1>5, <1>8 DEF p, e


-----------------------------------------------------------------------------
(* Guests: what they carry, and what they are told. *)

LEMMA Sizes ==
  /\ PackSize \in Nat \ {0} /\ GridSize \in Nat \ {0} /\ ChestSize \in Nat \ {0}
  /\ \A b \in Bodies : b # None
  /\ \A c \in Row(ChestSize) : c # None
  /\ \A g \in Guests : g # None
BY CustodyAssumption, NoneIsNothing

LEMMA EmptyRow ==
  ASSUME NEW n \in Nat
  PROVE  Empty(n) \in Row(n) /\ None \in Slot /\ \A k \in Kinds : Sum(Empty(n), k) = 0
<1>1. Empty(n) \in Row(n)
  BY DEF Empty, Row, Slot
<1>2. \A k \in Kinds : Sum(Empty(n), k) = 0
  BY SumFew
<1> QED BY <1>1, <1>2 DEF Slot

LEMMA OnBodyNat ==
  ASSUME NEW b \in Bodies, NEW k \in Kinds
  PROVE  /\ OnBody(b, k) \in Nat
         /\ Sum(b.pack, k) \in Nat /\ Held(b.cursor, k) \in Nat /\ Sum(b.grid, k) \in Nat
<1>1. b.pack \in Row(PackSize) /\ b.cursor \in Slot /\ b.grid \in Row(GridSize)
  BY DEF Bodies
<1>2. Sum(b.pack, k) \in Nat
  BY <1>1, Sizes, RowSum
<1>3. Sum(b.grid, k) \in Nat
  BY <1>1, Sizes, RowSum
<1>4. Held(b.cursor, k) \in Nat
  BY <1>1, HeldNat
<1> QED BY <1>2, <1>3, <1>4 DEF OnBody

LEMMA OnGuestNat ==
  ASSUME NEW b \in Bodies \cup {None}, NEW p \in Profiles, NEW k \in Kinds
  PROVE  OnGuest(b, p, k) \in Nat
<1>1. CASE b = None
  <2>1. p.pack \in Row(PackSize) /\ p.cursor \in Slot
    BY DEF Profiles
  <2>2. Sum(p.pack, k) \in Nat
    BY <2>1, Sizes, RowSum
  <2>3. Held(p.cursor, k) \in Nat
    BY <2>1, HeldNat
  <2> QED BY <1>1, <2>2, <2>3 DEF OnGuest
<1>2. CASE b \in Bodies
  BY <1>2, Sizes, OnBodyNat DEF OnGuest
<1> QED BY <1>1, <1>2

\* What the guests have between them, for the bodies and the profiles given.
Bearing(bod, prof, k) == AmongGuests([g \in Guests |-> OnGuest(bod[g], prof[g], k)])

LEMMA BearingNat ==
  ASSUME NEW bod \in [Guests -> Bodies \cup {None}], NEW prof \in [Guests -> Profiles],
         NEW k \in Kinds
  PROVE  Bearing(bod, prof, k) \in Nat
<1> DEFINE f == [g \in Guests |-> OnGuest(bod[g], prof[g], k)]
<1>1. f \in [Guests -> Nat]
  BY OnGuestNat
<1> HIDE DEF f
<1>2. AmongGuests(f) \in Nat
  BY <1>1, AmongNat
<1> QED BY <1>2 DEF f, Bearing

\* It changes with what one guest has.
LEMMA BearingPoint ==
  ASSUME NEW bod \in [Guests -> Bodies \cup {None}], NEW prof \in [Guests -> Profiles],
         NEW new \in [Guests -> Bodies \cup {None}], NEW stored \in [Guests -> Profiles],
         NEW g \in Guests, NEW k \in Kinds,
         \A x \in Guests : x # g => new[x] = bod[x] /\ stored[x] = prof[x]
  PROVE  Bearing(new, stored, k) + OnGuest(bod[g], prof[g], k)
           = Bearing(bod, prof, k) + OnGuest(new[g], stored[g], k)
<1> DEFINE f == [x \in Guests |-> OnGuest(bod[x], prof[x], k)]
           h == [x \in Guests |-> OnGuest(new[x], stored[x], k)]
<1>1. f \in [Guests -> Nat] /\ h \in [Guests -> Nat]
  BY OnGuestNat
<1>2. \A x \in Guests : x # g => f[x] = h[x]
  OBVIOUS
<1>3. f[g] = OnGuest(bod[g], prof[g], k) /\ h[g] = OnGuest(new[g], stored[g], k)
  OBVIOUS
<1> HIDE DEF f, h
<1>4. AmongGuests(h) + f[g] = AmongGuests(f) + h[g]
  BY <1>1, <1>2, AmongPoint
<1> QED BY <1>3, <1>4 DEF f, h, Bearing

\* What a click asked for may name.
LEMMA ClickAsked ==
  ASSUME NEW m \in Sent
  PROVE  /\ m.do = "inventory" => /\ m.right \in BOOLEAN
                                  /\ \/ m.area = "pack" /\ m.slot \in 1..PackSize
                                     \/ m.area = "grid" /\ m.slot \in 1..GridSize
         /\ m.do = "click" => m.right \in BOOLEAN /\ m.slot \in 1..ChestSize
BY DEF Sent

\* A click in a row keeps its shape, and what it and the cursor hold between them.
LEMMA RowClicked ==
  ASSUME NEW n \in Nat, NEW row \in Row(n), NEW carry \in Slot, NEW i \in 1..n,
         NEW right \in BOOLEAN
  PROVE  LET after == Click(row[i], carry, right) IN
         /\ [row EXCEPT ![i] = after[1]] \in Row(n) /\ after[2] \in Slot
         /\ \A k \in Kinds : Sum([row EXCEPT ![i] = after[1]], k) + Held(after[2], k)
                               = Sum(row, k) + Held(carry, k)
<1> DEFINE after == Click(row[i], carry, right)
           b == [row EXCEPT ![i] = after[1]]
<1>1. row[i] \in Slot
  BY DEF Row
<1>2. after[1] \in Slot /\ after[2] \in Slot
  <2>1. CASE Kinds = {}
    <3>1. row[i] = None /\ carry = None
      BY <1>1, <2>1 DEF Slot, Stack
    <3> QED BY <3>1 DEF Click, Left, Right, Slot
  <2>2. CASE Kinds # {}
    <3>1. PICK k \in Kinds : TRUE
      BY <2>2
    <3> QED BY <1>1, <3>1, ClickConserves
  <2> QED BY <2>1, <2>2
<1>3. ASSUME NEW k \in Kinds
      PROVE  Held(after[1], k) + Held(after[2], k) = Held(row[i], k) + Held(carry, k)
  BY <1>1, ClickConserves
<1> HIDE DEF after
<1>4. ASSUME NEW k \in Kinds PROVE Sum(b, k) + Held(row[i], k) = Sum(row, k) + Held(after[1], k)
  BY <1>2, RowPoint
<1>5. b \in Row(n)
  BY <1>2 DEF Row
<1> HIDE DEF b
<1>6. ASSUME NEW k \in Kinds PROVE Sum(b, k) + Held(after[2], k) = Sum(row, k) + Held(carry, k)
  <2> DEFINE p == Sum(b, k)
             q == Sum(row, k)
             u == Held(after[1], k)
             w == Held(after[2], k)
             x == Held(row[i], k)
             y == Held(carry, k)
  <2>1. p \in Nat /\ q \in Nat
    BY <1>5, RowSum
  <2>2. u \in Nat /\ w \in Nat /\ x \in Nat /\ y \in Nat
    BY <1>1, <1>2, HeldNat
  <2>3. u + w = x + y /\ p + x = q + u
    BY <1>3, <1>4
  <2> HIDE DEF p, q, u, w, x, y
  <2>4. p + w = q + y
    BY <2>1, <2>2, <2>3
  <2> QED BY <2>4 DEF p, q, w, y
<1> QED BY <1>2, <1>5, <1>6 DEF after, b

\* A click on what a guest carries moves items about on it.
LEMMA ClickedKeeps ==
  ASSUME NEW b \in Bodies, NEW m \in Sent, m.do = "inventory"
  PROVE  Clicked(b, m) \in Bodies /\ \A k \in Kinds : OnBody(Clicked(b, m), k) = OnBody(b, k)
<1>0. b.pack \in Row(PackSize) /\ b.cursor \in Slot /\ b.grid \in Row(GridSize)
  BY DEF Bodies
<1>1. CASE m.area = "pack"
  <2> DEFINE after == Click(b.pack[m.slot], b.cursor, m.right)
             row == [b.pack EXCEPT ![m.slot] = after[1]]
             now == [b EXCEPT !.pack[m.slot] = after[1], !.cursor = after[2]]
  <2>1. m.right \in BOOLEAN /\ m.slot \in 1..PackSize
    BY <1>1, ClickAsked
  <2>2. row \in Row(PackSize) /\ after[2] \in Slot
    BY <1>0, <2>1, Sizes, RowClicked
  <2>3. ASSUME NEW k \in Kinds PROVE Sum(row, k) + Held(after[2], k) = Sum(b.pack, k) + Held(b.cursor, k)
    BY <1>0, <2>1, Sizes, RowClicked
  <2>4. now = [b EXCEPT !.pack = row, !.cursor = after[2]]
    BY DEF Bodies
  <2>5. Clicked(b, m) = now
    BY <1>1 DEF Clicked
  <2> HIDE DEF row, after, now
  <2>6. now \in Bodies /\ now.pack = row /\ now.cursor = after[2] /\ now.grid = b.grid
    BY <2>2, <2>4 DEF Bodies
  <2>7. \A k \in Kinds : OnBody(now, k) = OnBody(b, k)
    BY <2>3, <2>6 DEF OnBody
  <2> QED BY <2>5, <2>6, <2>7
<1>2. CASE m.area = "grid"
  <2> DEFINE after == Click(b.grid[m.slot], b.cursor, m.right)
             row == [b.grid EXCEPT ![m.slot] = after[1]]
             now == [b EXCEPT !.grid[m.slot] = after[1], !.cursor = after[2]]
  <2>1. m.right \in BOOLEAN /\ m.slot \in 1..GridSize
    BY <1>2, ClickAsked
  <2>2. row \in Row(GridSize) /\ after[2] \in Slot
    BY <1>0, <2>1, Sizes, RowClicked
  <2>3. ASSUME NEW k \in Kinds PROVE Sum(row, k) + Held(after[2], k) = Sum(b.grid, k) + Held(b.cursor, k)
    BY <1>0, <2>1, Sizes, RowClicked
  <2>4. now = [b EXCEPT !.grid = row, !.cursor = after[2]]
    BY DEF Bodies
  <2>5. Clicked(b, m) = now
    BY <1>2 DEF Clicked
  <2> HIDE DEF row, after, now
  <2>6. now \in Bodies /\ now.grid = row /\ now.cursor = after[2] /\ now.pack = b.pack
    BY <2>2, <2>4 DEF Bodies
  <2>7. ASSUME NEW k \in Kinds PROVE OnBody(now, k) = OnBody(b, k)
    <3> DEFINE p == Sum(b.pack, k)
               q == Sum(b.grid, k)
               u == Sum(row, k)
               x == Held(after[2], k)
               y == Held(b.cursor, k)
    <3>1. p \in Nat /\ q \in Nat /\ y \in Nat
      BY OnBodyNat
    <3>2. u \in Nat /\ x \in Nat
      <4>1. u \in Nat
        BY <2>2, Sizes, RowSum
      <4>2. x \in Nat
        BY <2>2, HeldNat
      <4> QED BY <4>1, <4>2
    <3>3. u + x = q + y
      BY <2>3
    <3>4. OnBody(now, k) = (p + x) + u /\ OnBody(b, k) = (p + y) + q
      BY <2>6 DEF OnBody
    <3> HIDE DEF p, q, u, x, y
    <3> QED BY <3>1, <3>2, <3>3, <3>4
  <2> QED BY <2>5, <2>6, <2>7
<1> QED BY <1>1, <1>2, ClickAsked

\* A view has a pack, a cursor and a grid as well.
LEMMA ViewClicked ==
  ASSUME NEW v \in Views, NEW m \in Sent, m.do = "inventory"
  PROVE  Clicked(v, m) \in Views
<1>0. v.pack \in Row(PackSize) /\ v.cursor \in Slot /\ v.grid \in Row(GridSize)
  BY DEF Views
<1>1. CASE m.area = "pack"
  <2> DEFINE after == Click(v.pack[m.slot], v.cursor, m.right)
             row == [v.pack EXCEPT ![m.slot] = after[1]]
  <2>1. m.right \in BOOLEAN /\ m.slot \in 1..PackSize
    BY <1>1, ClickAsked
  <2>2. row \in Row(PackSize) /\ after[2] \in Slot
    BY <1>0, <2>1, Sizes, RowClicked
  <2>3. Clicked(v, m) = [v EXCEPT !.pack = row, !.cursor = after[2]]
    BY <1>1 DEF Clicked, Views
  <2> HIDE DEF row, after
  <2> QED BY <2>2, <2>3 DEF Views
<1>2. CASE m.area = "grid"
  <2> DEFINE after == Click(v.grid[m.slot], v.cursor, m.right)
             row == [v.grid EXCEPT ![m.slot] = after[1]]
  <2>1. m.right \in BOOLEAN /\ m.slot \in 1..GridSize
    BY <1>2, ClickAsked
  <2>2. row \in Row(GridSize) /\ after[2] \in Slot
    BY <1>0, <2>1, Sizes, RowClicked
  <2>3. Clicked(v, m) = [v EXCEPT !.grid = row, !.cursor = after[2]]
    BY <1>2 DEF Clicked, Views
  <2> HIDE DEF row, after
  <2> QED BY <2>2, <2>3 DEF Views
<1> QED BY <1>1, <1>2, ClickAsked

\* The last state said, if any, is what a guest carries.
Truthful(said, b) == \A i \in DOMAIN said : IsLast(said, i) => said[i].kit = KitOf(b)

LEMMA SaidKinds ==
  /\ \A b \in Bodies : PlayerState(b) \in Said /\ PlayerState(b).is = "state"
                       /\ PlayerState(b).kit = KitOf(b)
  /\ \A c \in Row(ChestSize) : Container(c) \in Said /\ Container(c).is # "state"
  /\ BlockSet \in Said /\ BlockSet.is # "state"
  /\ Hit \in Said /\ Hit.is # "state"
BY DEF PlayerState, KitOf, Kit, Bodies, Container, BlockSet, Hit, Said

\* Nothing said, or something said with a true last state, after something true or anything
\* if the new part has a state.
LEMMA TruthfulJoin ==
  ASSUME NEW said \in Seq(Said), NEW some \in Seq(Said), NEW b, Truthful(some, b),
         Truthful(said, b) \/ \E j \in 1..Len(some) : some[j].is = "state"
  PROVE  said \o some \in Seq(Said) /\ Truthful(said \o some, b)
<1> DEFINE all == said \o some
           M == Len(said)
           N == Len(some)
<1>1. M \in Nat /\ N \in Nat /\ DOMAIN said = 1..M /\ DOMAIN some = 1..N
  BY LenProperties
<1>2. /\ all \in Seq(Said) /\ Len(all) = M + N /\ DOMAIN all = 1..(M + N)
      /\ \A i \in 1..(M + N) : all[i] = (IF i <= M THEN said[i] ELSE some[i - M])
  BY ConcatProperties, LenProperties
<1> HIDE DEF all, M, N
<1>3. ASSUME NEW i \in 1..(M + N), IsLast(all, i) PROVE all[i].kit = KitOf(b)
  <2>1. all[i].is = "state" /\ \A j \in i + 1..(M + N) : all[j].is # "state"
    BY <1>2, <1>3 DEF IsLast
  <2>2. CASE i > M
    <3>1. i - M \in 1..N /\ all[i] = some[i - M]
      BY <1>1, <1>2, <2>2
    <3>2. \A j \in (i - M) + 1..N : some[j].is # "state"
      <4> SUFFICES ASSUME NEW j \in (i - M) + 1..N PROVE some[j].is # "state"
        OBVIOUS
      <4>1. j + M \in i + 1..(M + N) /\ j + M \in 1..(M + N) /\ ~(j + M <= M) /\ (j + M) - M = j
        BY <1>1, <2>2
      <4>2. all[j + M] = some[j]
        BY <1>2, <4>1
      <4> QED BY <2>1, <4>1, <4>2
    <3>3. IsLast(some, i - M)
      BY <2>1, <3>1, <3>2 DEF IsLast, N
    <3> QED BY <1>1, <3>1, <3>3 DEF Truthful
  <2>3. CASE i <= M
    <3>1. i \in 1..M /\ all[i] = said[i]
      BY <1>1, <1>2, <2>3
    <3>2. \A j \in 1..N : some[j].is # "state"
      <4> SUFFICES ASSUME NEW j \in 1..N PROVE some[j].is # "state"
        OBVIOUS
      <4>1. j + M \in i + 1..(M + N) /\ j + M \in 1..(M + N) /\ ~(j + M <= M) /\ (j + M) - M = j
        BY <1>1, <2>3
      <4>2. all[j + M] = some[j]
        BY <1>2, <4>1
      <4> QED BY <2>1, <4>1, <4>2
    <3>3. \A j \in i + 1..M : said[j].is # "state"
      <4> SUFFICES ASSUME NEW j \in i + 1..M PROVE said[j].is # "state"
        OBVIOUS
      <4>1. j \in i + 1..(M + N) /\ j \in 1..(M + N) /\ j <= M
        BY <1>1, <2>3
      <4>2. all[j] = said[j]
        BY <1>2, <4>1
      <4> QED BY <2>1, <4>1, <4>2
    <3>4. IsLast(said, i)
      BY <2>1, <3>1, <3>3 DEF IsLast, M
    <3>5. Truthful(said, b)
      BY <3>2 DEF N
    <3> QED BY <1>1, <3>1, <3>4, <3>5 DEF Truthful
  <2> QED BY <1>1, <2>2, <2>3
<1> QED BY <1>2, <1>3 DEF Truthful, all

\* A message that is no state, and nothing at all, says nothing false.
LEMMA TruthfulQuiet ==
  ASSUME NEW b, NEW some \in Seq(Said), \A i \in 1..Len(some) : some[i].is # "state"
  PROVE  Truthful(some, b)
<1>1. DOMAIN some = 1..Len(some)
  BY LenProperties
<1> QED BY <1>1 DEF Truthful, IsLast

LEMMA TruthfulFew ==
  ASSUME NEW b
  PROVE  /\ <<>> \in Seq(Said) /\ Truthful(<<>>, b)
         /\ \A m \in Said : <<m>> \in Seq(Said) /\ (m.is # "state" => Truthful(<<m>>, b))
<1>1. <<>> \in Seq(Said) /\ Truthful(<<>>, b)
  BY DEF Truthful
<1>2. ASSUME NEW m \in Said PROVE <<m>> \in Seq(Said) /\ (m.is # "state" => Truthful(<<m>>, b))
  <2> DEFINE one == <<m>>
  <2>1. one \in Seq(Said) /\ DOMAIN one = {1} /\ one[1] = m
    OBVIOUS
  <2> HIDE DEF one
  <2>2. m.is # "state" => Truthful(one, b)
    BY <2>1 DEF Truthful, IsLast
  <2> QED BY <2>1, <2>2 DEF one
<1> QED BY <1>1, <1>2

\* A state of what a guest carries may follow anything.
LEMMA TruthfulState ==
  ASSUME NEW said \in Seq(Said), NEW b \in Bodies
  PROVE  /\ said \o <<PlayerState(b)>> \in Seq(Said) /\ Truthful(said \o <<PlayerState(b)>>, b)
         /\ Append(said, PlayerState(b)) = said \o <<PlayerState(b)>>
         /\ <<PlayerState(b)>> \in Seq(Said) /\ Truthful(<<PlayerState(b)>>, b)
         /\ \E j \in 1..Len(<<PlayerState(b)>>) : <<PlayerState(b)>>[j].is = "state"
<1> DEFINE m == PlayerState(b)
           one == <<m>>
<1>1. m \in Said /\ m.is = "state" /\ m.kit = KitOf(b)
  BY SaidKinds
<1> HIDE DEF m
<1>2. one \in Seq(Said) /\ DOMAIN one = {1} /\ one[1] = m /\ Len(one) = 1
  BY <1>1
<1>3. Append(said, m) = said \o one
  BY <1>1, AppendIsConcat
<1> HIDE DEF one
<1>4. Truthful(one, b)
  BY <1>1, <1>2 DEF Truthful
<1>5. \E j \in 1..Len(one) : one[j].is = "state"
  BY <1>1, <1>2
<1>6. said \o one \in Seq(Said) /\ Truthful(said \o one, b)
  BY <1>2, <1>4, <1>5, TruthfulJoin
<1> QED BY <1>2, <1>3, <1>4, <1>5, <1>6 DEF one, m

\* What is left of it when the first messages have been heard.
LEMMA TruthfulRest ==
  ASSUME NEW said \in Seq(Said), NEW b, Truthful(said, b), NEW n \in 0..Len(said)
  PROVE  SubSeq(said, n + 1, Len(said)) \in Seq(Said) /\ Truthful(SubSeq(said, n + 1, Len(said)), b)
<1> DEFINE N == Len(said)
           rest == SubSeq(said, n + 1, N)
<1>1. N \in Nat /\ n \in 0..N /\ DOMAIN said = 1..N
  BY LenProperties
<1>2. /\ rest \in Seq(Said) /\ Len(rest) = N - n
      /\ \A i \in 1..(N - n) : rest[i] = said[n + i]
  <2> DEFINE m == n + 1
  <2>1. \A i \in m..N : said[i] \in Said
    BY <1>1, ElementOfSeq
  <2>2. m \in 1..(N + 1) /\ N \in (m - 1)..N
    BY <1>1
  <2>3. /\ rest \in Seq(Said)
        /\ Len(rest) = IF m <= N THEN N - m + 1 ELSE 0
        /\ \A i \in 1..(N - m + 1) : rest[i] = said[m + i - 1]
    <3>1. m \in Int /\ N \in Int
      BY <1>1
    <3> HIDE DEF m, N
    <3>2. /\ SubSeq(said, m, N) \in Seq(Said)
          /\ Len(SubSeq(said, m, N)) = IF m <= N THEN N - m + 1 ELSE 0
          /\ \A i \in 1..N - m + 1 : SubSeq(said, m, N)[i] = said[m + i - 1]
      BY <2>1, <3>1, SubSeqProperties
    <3> QED BY <3>2 DEF m
  <2> HIDE DEF rest
  <2>4. N - m + 1 = N - n /\ \A i \in 1..(N - n) : m + i - 1 = n + i
    BY <1>1
  <2>5. Len(rest) = N - n
    <3>1. Len(rest) = IF n + 1 <= N THEN N - n ELSE 0
      BY <2>3, <2>4
    <3>2. n \in Nat /\ N \in Nat /\ n <= N
      BY <1>1
    <3>3. CASE n + 1 <= N
      BY <3>1, <3>3
    <3>4. CASE ~(n + 1 <= N)
      <4>1. N - n = 0
        BY <3>2, <3>4
      <4> QED BY <3>1, <3>4, <4>1
    <3> QED BY <3>3, <3>4
  <2>6. \A i \in 1..(N - n) : rest[i] = said[n + i]
    BY <2>3, <2>4
  <2> QED BY <2>3, <2>5, <2>6
<1> HIDE DEF rest, N
<1>3. DOMAIN rest = 1..(N - n)
  BY <1>2, LenProperties
<1>4. ASSUME NEW i \in 1..(N - n), IsLast(rest, i) PROVE rest[i].kit = KitOf(b)
  <2>1. n + i \in 1..N /\ rest[i] = said[n + i] /\ rest[i].is = "state"
    BY <1>1, <1>2, <1>4 DEF IsLast
  <2>2. \A j \in (n + i) + 1..N : said[j].is # "state"
    <3> SUFFICES ASSUME NEW j \in (n + i) + 1..N PROVE said[j].is # "state"
      OBVIOUS
    <3>1. j - n \in i + 1..(N - n) /\ j - n \in 1..(N - n) /\ n + (j - n) = j
      BY <1>1
    <3>2. rest[j - n] = said[j]
      BY <1>2, <3>1
    <3>3. rest[j - n].is # "state"
      BY <1>2, <1>4, <3>1 DEF IsLast
    <3> QED BY <3>2, <3>3
  <2>3. IsLast(said, n + i)
    BY <2>1, <2>2 DEF IsLast, N
  <2> QED BY <1>1, <2>1, <2>3 DEF Truthful
<1> QED BY <1>2, <1>3, <1>4 DEF Truthful, rest, N

-----------------------------------------------------------------------------
(* One step of the host for one guest. *)

IInv == CustodyInv /\ ItemsConserved

\* What a guest, the chest, its block, what is owed and what has fallen hold between them.
Handled(b, c, stands, o, f, k) ==
  OnBody(b, k) + InChest(c, k) + InBlock(stands, k) + Owing(o, k) + Sum(f, k)

LEMMA PlacesNat ==
  ASSUME NEW k \in Kinds
  PROVE  /\ \A c \in Row(ChestSize) \cup {None} : InChest(c, k) \in Nat
         /\ \A b \in BOOLEAN : InBlock(b, k) \in Nat
         /\ \A o \in Owe : Owing(o, k) \in Nat
         /\ \A f \in Seq(Stack) : Sum(f, k) \in Nat
<1>1. ASSUME NEW c \in Row(ChestSize) \cup {None} PROVE InChest(c, k) \in Nat
  <2>1. CASE c = None
    BY <2>1 DEF InChest
  <2>2. CASE c # None
    <3>1. Sum(c, k) \in Nat
      BY <2>2, Sizes, RowSum
    <3> QED BY <2>2, <3>1 DEF InChest
  <2> QED BY <2>1, <2>2
<1>2. ASSUME NEW b \in BOOLEAN PROVE InBlock(b, k) \in Nat
  BY DEF InBlock
<1>3. ASSUME NEW o \in Owe PROVE Owing(o, k) \in Nat
  <2> DEFINE row == [i \in DOMAIN o |-> o[i][2]]
  <2>1. row \in Seq(Stack) /\ Owing(o, k) = Sum(row, k)
    BY OwingRow DEF Owing
  <2> HIDE DEF row
  <2> QED BY <2>1, StackSum
<1> QED BY <1>1, <1>2, <1>3, StackSum

LEMMA Served ==
  ASSUME IInv, NEW g \in Guests, Seated(g), NEW b \in Bodies, NEW some \in Seq(Said),
         body' = [body EXCEPT ![g] = b], down' = [down EXCEPT ![g] = @ \o some],
         Truthful(some, b),
         KitOf(b) = KitOf(body[g]) \/ \E j \in 1..Len(some) : some[j].is = "state",
         up' \in [Guests -> Seq(Sent)], \A x \in Guests : x # g => up'[x] = up[x],
         profile' = profile, lost' = lost, buried' = buried, loose' = loose, view' = view,
         acts' \in 0..MaxActs, chest' \in Row(ChestSize) \cup {None}, block' \in BOOLEAN,
         ~block' => chest' = None, edited' \in BOOLEAN, fallen' \in Seq(Stack), owed' \in Owe,
         \A i \in DOMAIN owed' : owed'[i][1] = g \/ \E j \in DOMAIN owed : owed[j][1] = owed'[i][1],
         \A k \in Kinds : Handled(b, chest', block', owed', fallen', k)
                            = Handled(body[g], chest, block, owed, fallen, k)
  PROVE  IInv'
<1>0. /\ TypeOK /\ LastWordIsTrue /\ GoneIsEmpty /\ AwayIsQuiet /\ ItemsConserved
      /\ body[g] \in Bodies /\ down[g] \in Seq(Said) /\ owed \in Owe
  BY DEF IInv, CustodyInv, TypeOK, Seated, Owe
<1>1. body' \in [Guests -> Bodies \cup {None}] /\ body'[g] = b /\ b # None
      /\ \A x \in Guests : x # g => body'[x] = body[x]
  BY <1>0, Sizes DEF TypeOK
<1>2. down[g] \o some \in Seq(Said) /\ Truthful(down[g] \o some, b)
  <2>1. Truthful(down[g], body[g])
    BY <1>0 DEF LastWordIsTrue, Truthful
  <2>2. KitOf(b) = KitOf(body[g]) => Truthful(down[g], b)
    BY <2>1 DEF Truthful
  <2> QED BY <1>0, <2>2, TruthfulJoin
<1>3. /\ down' \in [Guests -> Seq(Said)] /\ down'[g] = down[g] \o some
      /\ \A x \in Guests : x # g => down'[x] = down[x]
  BY <1>0, <1>2 DEF TypeOK
<1>4. TypeOK'
  BY <1>0, <1>1, <1>3 DEF TypeOK, Owe
<1>5. LastWordIsTrue'
  <2> SUFFICES ASSUME NEW x \in Guests, body'[x] # None PROVE Truthful(down'[x], body'[x])
    BY DEF LastWordIsTrue, Seated, Truthful
  <2>1. CASE x = g
    BY <1>1, <1>2, <1>3, <2>1
  <2>2. CASE x # g
    BY <1>0, <1>1, <1>3, <2>2 DEF LastWordIsTrue, Seated, Truthful
  <2> QED BY <2>1, <2>2
<1>6. GoneIsEmpty'
  BY DEF GoneIsEmpty
<1>7. AwayIsQuiet'
  <2>1. \A x \in Guests : body'[x] = None => down'[x] = <<>> /\ up'[x] = <<>>
    BY <1>0, <1>1, <1>3 DEF AwayIsQuiet, Seated
  <2>2. ASSUME NEW i \in DOMAIN owed', owed'[i][1] # None PROVE body'[owed'[i][1]] # None
    <3>1. CASE owed'[i][1] = g
      BY <1>1, <3>1
    <3>2. CASE owed'[i][1] # g
      <4>1. PICK j \in DOMAIN owed : owed[j][1] = owed'[i][1]
        BY <3>2
      <4>2. owed[j][1] \in Guests
        BY <1>0, <2>2, <4>1 DEF Owe
      <4> QED BY <1>0, <1>1, <2>2, <3>2, <4>1, <4>2 DEF AwayIsQuiet, Seated
    <3> QED BY <3>1, <3>2
  <2> QED BY <2>1, <2>2 DEF AwayIsQuiet, Seated
<1>8. ItemsConserved'
  <2> SUFFICES ASSUME NEW k \in Kinds PROVE (Total(k) + lost[k] = Supply(k))'
    BY DEF ItemsConserved
  <2> DEFINE B == Bearing(body, profile, k)
             B2 == Bearing(body', profile', k)
             p == OnBody(body[g], k)
             p2 == OnBody(b, k)
             c == InChest(chest, k)
             c2 == InChest(chest', k)
             s == InBlock(block, k)
             s2 == InBlock(block', k)
             o == Owing(owed, k)
             o2 == Owing(owed', k)
             f == Sum(fallen, k)
             f2 == Sum(fallen', k)
             l == Sum(loose, k)
  <2>1. p \in Nat /\ p2 \in Nat
    BY <1>0, OnBodyNat
  <2>2. /\ c \in Nat /\ c2 \in Nat /\ s \in Nat /\ s2 \in Nat /\ o \in Nat /\ o2 \in Nat
        /\ f \in Nat /\ f2 \in Nat /\ l \in Nat
    BY <1>0, PlacesNat DEF TypeOK
  <2>3. profile \in [Guests -> Profiles]
    BY <1>0 DEF TypeOK
  <2>4. B \in Nat /\ B2 \in Nat
    BY <1>0, <1>1, <2>3, BearingNat DEF TypeOK
  <2>5. B2 + OnGuest(body[g], profile[g], k) = B + OnGuest(body'[g], profile[g], k)
    <3>1. body \in [Guests -> Bodies \cup {None}] /\ B2 = Bearing(body', profile, k)
      BY <1>0 DEF TypeOK
    <3> DEFINE new == body'
    <3>2. new \in [Guests -> Bodies \cup {None}] /\ \A x \in Guests : x # g => new[x] = body[x]
      BY <1>1
    <3> HIDE DEF new
    <3>3. Bearing(new, profile, k) + OnGuest(body[g], profile[g], k)
            = Bearing(body, profile, k) + OnGuest(new[g], profile[g], k)
      BY <2>3, <3>1, <3>2, BearingPoint
    <3> QED BY <3>1, <3>3 DEF new
  <2>6. OnGuest(body[g], profile[g], k) = p /\ OnGuest(body'[g], profile[g], k) = p2
    BY <1>1 DEF OnGuest, Seated
  <2>7. p2 + c2 + s2 + o2 + f2 = p + c + s + o + f
    BY DEF Handled
  <2>8. /\ Total(k) = B + c + s + o + f + l + buried[k]
        /\ Total(k)' = B2 + c2 + s2 + o2 + f2 + l + buried[k]
    BY DEF Total, Bearing
  <2>9. buried[k] \in Nat /\ lost[k] \in Nat /\ Total(k) + lost[k] = Supply(k)
    BY <1>0 DEF ItemsConserved, TypeOK
  <2>10. Supply(k)' = Supply(k)
    BY DEF Supply
  <2> HIDE DEF B, B2, p, p2, c, c2, s, s2, o, o2, f, f2, l
  <2>11. Total(k)' = Total(k)
    BY <2>1, <2>2, <2>4, <2>5, <2>6, <2>7, <2>8, <2>9
  <2> QED BY <2>9, <2>10, <2>11
<1> QED BY <1>4, <1>5, <1>6, <1>7, <1>8 DEF IInv, CustodyInv

\* The request is off its way, and another's requests are as they were.
LEMMA AskedFacts ==
  ASSUME IInv, NEW g \in Guests, NEW what, Asked(g, what)
  PROVE  /\ Seated(g) /\ body[g] \in Bodies /\ Head(up[g]) \in Sent /\ Head(up[g]).do = what
         /\ up' \in [Guests -> Seq(Sent)] /\ \A x \in Guests : x # g => up'[x] = up[x]
         /\ view' = view /\ acts' \in 0..MaxActs
<1>1. /\ up \in [Guests -> Seq(Sent)] /\ body \in [Guests -> Bodies \cup {None}] /\ acts \in 0..MaxActs
  BY DEF IInv, CustodyInv, TypeOK
<1>2. /\ body[g] # None /\ up[g] # <<>> /\ Head(up[g]).do = what
      /\ up' = [up EXCEPT ![g] = Tail(@)] /\ view' = view /\ acts' = acts
  BY DEF Asked, Seated
<1>3. up[g] \in Seq(Sent) /\ Head(up[g]) \in Sent /\ Tail(up[g]) \in Seq(Sent)
  BY <1>1, <1>2, HeadTailProperties
<1> QED BY <1>1, <1>2, <1>3 DEF Seated

LEMMA Facts ==
  ASSUME IInv
  PROVE  /\ body \in [Guests -> Bodies \cup {None}] /\ chest \in Row(ChestSize) \cup {None}
         /\ profile \in [Guests -> Profiles]
         /\ block \in BOOLEAN /\ edited \in BOOLEAN /\ owed \in Owe
         /\ fallen \in Seq(Stack) /\ loose \in Seq(Stack) /\ acts \in 0..MaxActs
         /\ up \in [Guests -> Seq(Sent)] /\ down \in [Guests -> Seq(Said)]
         /\ view \in [Guests -> Views] /\ buried \in [Kinds -> Nat] /\ lost \in [Kinds -> Nat]
         /\ LastWordIsTrue /\ AwayIsQuiet /\ (~block => chest = None)
BY DEF IInv, CustodyInv, TypeOK, GoneIsEmpty, Owe

\* Nothing moves: a request changes at most whether a guest lives or looks into the chest.
LEMMA Idle ==
  ASSUME IInv, NEW g \in Guests, Seated(g), NEW b \in Bodies,
         b.pack = body[g].pack, b.cursor = body[g].cursor, b.grid = body[g].grid,
         body' = [body EXCEPT ![g] = b], down' = down,
         up' \in [Guests -> Seq(Sent)], \A x \in Guests : x # g => up'[x] = up[x],
         UNCHANGED <<profile, block, chest, edited, owed, fallen, loose, buried, lost, view>>,
         acts' \in 0..MaxActs
  PROVE  IInv'
<1> DEFINE some == <<>>
<1>1. some \in Seq(Said) /\ Truthful(some, b)
  BY TruthfulFew
<1>2. down' = [down EXCEPT ![g] = @ \o some]
  BY Facts
<1>3. KitOf(b) = KitOf(body[g])
  BY DEF KitOf
<1>4. \A k \in Kinds : Handled(b, chest', block', owed', fallen', k)
                         = Handled(body[g], chest, block, owed, fallen, k)
  BY DEF Handled, OnBody
<1>5. \A i \in DOMAIN owed' : \E j \in DOMAIN owed : owed[j][1] = owed'[i][1]
  OBVIOUS
<1>6. /\ chest' \in Row(ChestSize) \cup {None} /\ block' \in BOOLEAN /\ (~block' => chest' = None)
      /\ edited' \in BOOLEAN /\ fallen' \in Seq(Stack) /\ owed' \in Owe
  BY Facts
<1>7. profile' = profile /\ lost' = lost /\ buried' = buried /\ loose' = loose /\ view' = view
  OBVIOUS
<1> HIDE DEF some
<1> QED BY <1>1, <1>2, <1>3, <1>4, <1>5, <1>6, <1>7, Served

LEMMA RefuseKeeps ==
  ASSUME IInv, NEW g \in Guests, Refuse(g)
  PROVE  IInv'
<1>1. PICK what \in {"open", "break", "place"} : Asked(g, what)
  BY DEF Refuse
<1>2. UNCHANGED <<profile, body, block, chest, edited, owed, fallen, loose, buried, lost, down>>
  BY DEF Refuse, held
<1>3. body' = [body EXCEPT ![g] = body[g]]
  BY <1>2, Facts
<1> QED BY <1>1, <1>2, <1>3, AskedFacts, Idle

LEMMA CloseContainerKeeps ==
  ASSUME IInv, NEW g \in Guests, CloseContainer(g)
  PROVE  IInv'
<1> DEFINE b == [body[g] EXCEPT !.open = FALSE]
<1>1. Asked(g, "close") /\ body' = [body EXCEPT ![g] = b]
  BY Facts DEF CloseContainer
<1>2. body[g] \in Bodies
  BY <1>1, AskedFacts
<1>3. b \in Bodies /\ b.pack = body[g].pack /\ b.cursor = body[g].cursor /\ b.grid = body[g].grid
  BY <1>2 DEF Bodies
<1>4. UNCHANGED <<profile, block, chest, edited, owed, fallen, loose, buried, lost, down>>
  BY DEF CloseContainer
<1> HIDE DEF b
<1> QED BY <1>1, <1>3, <1>4, AskedFacts, Idle

LEMMA MendKeeps ==
  ASSUME IInv, NEW g \in Guests, Mend(g)
  PROVE  IInv'
<1> DEFINE b == [body[g] EXCEPT !.alive = TRUE]
<1>1. Seated(g) /\ body[g] \in Bodies /\ body' = [body EXCEPT ![g] = b]
  BY Facts DEF Mend, Seated
<1>2. b \in Bodies /\ b.pack = body[g].pack /\ b.cursor = body[g].cursor /\ b.grid = body[g].grid
  BY <1>1 DEF Bodies
<1>3. acts' \in 0..MaxActs
  BY Facts, CustodyAssumption DEF Mend
<1>4. UNCHANGED <<profile, block, chest, edited, owed, fallen, loose, buried, lost, up, down, view>>
  BY DEF Mend
<1> HIDE DEF b
<1> QED BY <1>1, <1>2, <1>3, <1>4, Facts, Idle

\* A guest is told its state, of nothing that moved.
LEMMA Restated ==
  ASSUME IInv, NEW g \in Guests, Seated(g), NEW b \in Bodies, Becomes(g, b),
         up' \in [Guests -> Seq(Sent)], \A x \in Guests : x # g => up'[x] = up[x],
         UNCHANGED <<profile, lost, buried, loose, view>>, acts' \in 0..MaxActs,
         chest' \in Row(ChestSize) \cup {None}, block' \in BOOLEAN,
         ~block' => chest' = None, edited' \in BOOLEAN, fallen' \in Seq(Stack), owed' \in Owe,
         \A i \in DOMAIN owed' : owed'[i][1] = g \/ \E j \in DOMAIN owed : owed[j][1] = owed'[i][1],
         \A k \in Kinds : Handled(b, chest', block', owed', fallen', k)
                            = Handled(body[g], chest, block, owed, fallen, k)
  PROVE  IInv'
<1> DEFINE some == <<PlayerState(b)>>
<1>1. /\ some \in Seq(Said) /\ Truthful(some, b)
      /\ \E j \in 1..Len(some) : some[j].is = "state"
  BY TruthfulFew, TruthfulState
<1>2. body' = [body EXCEPT ![g] = b] /\ down' = [down EXCEPT ![g] = @ \o some]
  BY DEF Becomes, Told
<1> HIDE DEF some
<1> QED BY <1>1, <1>2, Served

LEMMA RespawnKeeps ==
  ASSUME IInv, NEW g \in Guests, Respawn(g)
  PROVE  IInv'
<1>1. Asked(g, "respawn") /\ UNCHANGED <<profile, block, chest, edited, owed, fallen, loose, buried, lost>>
  BY DEF Respawn
<1>2. body[g] \in Bodies
  BY <1>1, AskedFacts
<1>3. CASE body[g].alive
  <2>1. body' = [body EXCEPT ![g] = body[g]] /\ down' = down
    BY <1>3, Facts DEF Respawn
  <2> QED BY <1>1, <1>2, <2>1, AskedFacts, Idle
<1>4. CASE ~body[g].alive
  <2> DEFINE b == [body[g] EXCEPT !.alive = TRUE]
  <2>1. Becomes(g, b)
    BY <1>4 DEF Respawn
  <2>2. b \in Bodies /\ b.pack = body[g].pack /\ b.cursor = body[g].cursor /\ b.grid = body[g].grid
    BY <1>2 DEF Bodies
  <2> HIDE DEF b
  <2>3. \A k \in Kinds : Handled(b, chest', block', owed', fallen', k)
                           = Handled(body[g], chest, block, owed, fallen, k)
    BY <1>1, <2>2 DEF Handled, OnBody
  <2> QED BY <1>1, <2>1, <2>2, <2>3, AskedFacts, Facts, Restated
<1> QED BY <1>3, <1>4

LEMMA InventoryClickKeeps ==
  ASSUME IInv, NEW g \in Guests, InventoryClick(g)
  PROVE  IInv'
<1> DEFINE b == Clicked(body[g], Head(up[g]))
<1>1. /\ Asked(g, "inventory") /\ Becomes(g, b)
      /\ UNCHANGED <<profile, block, chest, edited, owed, fallen, loose, buried, lost>>
  BY DEF InventoryClick
<1>2. body[g] \in Bodies /\ Head(up[g]) \in Sent /\ Head(up[g]).do = "inventory"
  BY <1>1, AskedFacts
<1>3. b \in Bodies /\ \A k \in Kinds : OnBody(b, k) = OnBody(body[g], k)
  BY <1>2, ClickedKeeps
<1> HIDE DEF b
<1>4. \A k \in Kinds : Handled(b, chest', block', owed', fallen', k)
                         = Handled(body[g], chest, block, owed, fallen, k)
  BY <1>1, <1>3 DEF Handled
<1> QED BY <1>1, <1>3, <1>4, AskedFacts, Facts, Restated

LEMMA OpenContainerKeeps ==
  ASSUME IInv, NEW g \in Guests, OpenContainer(g)
  PROVE  IInv'
<1> DEFINE b == [body[g] EXCEPT !.open = TRUE]
           some == <<Container(chest')>>
<1>1. /\ Asked(g, "open") /\ block /\ body' = [body EXCEPT ![g] = b]
      /\ down' = [down EXCEPT ![g] = @ \o some]
      /\ chest' = (IF chest = None THEN Empty(ChestSize) ELSE chest)
      /\ UNCHANGED <<profile, block, edited, owed, fallen, loose, buried, lost>>
  BY Facts DEF OpenContainer, Told
<1>2. body[g] \in Bodies /\ Seated(g)
  BY <1>1, AskedFacts
<1>3. b \in Bodies /\ b.pack = body[g].pack /\ b.cursor = body[g].cursor /\ b.grid = body[g].grid
  BY <1>2 DEF Bodies
<1>4. /\ chest' \in Row(ChestSize) /\ chest' # None
      /\ \A k \in Kinds : InChest(chest', k) = InChest(chest, k)
  <2>1. Empty(ChestSize) \in Row(ChestSize) /\ \A k \in Kinds : Sum(Empty(ChestSize), k) = 0
    BY Sizes, EmptyRow
  <2>2. Empty(ChestSize) # None
    BY <2>1, Sizes
  <2> HIDE DEF b, some
  <2>3. CASE chest = None
    BY <1>1, <2>1, <2>2, <2>3 DEF InChest
  <2>4. CASE chest # None
    BY <1>1, <2>4, Facts
  <2> QED BY <2>3, <2>4
<1>5. some \in Seq(Said) /\ Truthful(some, b)
  BY <1>4, SaidKinds, TruthfulFew
<1> HIDE DEF b, some
<1>6. \A k \in Kinds : Handled(b, chest', block', owed', fallen', k)
                         = Handled(body[g], chest, block, owed, fallen, k)
  BY <1>1, <1>3, <1>4 DEF Handled, OnBody
<1>7. KitOf(b) = KitOf(body[g])
  BY <1>3 DEF KitOf
<1>8. \A i \in DOMAIN owed' : \E j \in DOMAIN owed : owed[j][1] = owed'[i][1]
  BY <1>1
<1> QED BY <1>1, <1>2, <1>3, <1>4, <1>5, <1>6, <1>7, <1>8, AskedFacts, Facts, Served

\* Two messages, one of them the state of what a guest carries.
LEMMA TruthfulPair ==
  ASSUME NEW b \in Bodies, NEW m \in Said, m.is # "state"
  PROVE  /\ <<m, PlayerState(b)>> \in Seq(Said) /\ Truthful(<<m, PlayerState(b)>>, b)
         /\ \E j \in 1..Len(<<m, PlayerState(b)>>) : <<m, PlayerState(b)>>[j].is = "state"
         /\ <<PlayerState(b), m>> \in Seq(Said) /\ Truthful(<<PlayerState(b), m>>, b)
         /\ \E j \in 1..Len(<<PlayerState(b), m>>) : <<PlayerState(b), m>>[j].is = "state"
<1> DEFINE s == PlayerState(b)
           x == <<m, s>>
           y == <<s, m>>
<1>1. s \in Said /\ s.is = "state" /\ s.kit = KitOf(b)
  BY SaidKinds
<1> HIDE DEF s
<1>2. x \in Seq(Said) /\ DOMAIN x = 1..2 /\ Len(x) = 2 /\ x[1] = m /\ x[2] = s
  BY <1>1
<1>3. y \in Seq(Said) /\ DOMAIN y = 1..2 /\ Len(y) = 2 /\ y[1] = s /\ y[2] = m
  BY <1>1
<1> HIDE DEF x, y
<1>4. \A i \in 1..2 : i = 1 \/ i = 2
  OBVIOUS
<1>5. Truthful(x, b) /\ Truthful(y, b)
  BY <1>1, <1>2, <1>3, <1>4 DEF Truthful, IsLast
<1>6. /\ \E j \in 1..Len(x) : x[j].is = "state"
      /\ \E j \in 1..Len(y) : y[j].is = "state"
  BY <1>1, <1>2, <1>3
<1> QED BY <1>2, <1>3, <1>5, <1>6 DEF x, y, s

LEMMA ContainerClickKeeps ==
  ASSUME IInv, NEW g \in Guests, ContainerClick(g)
  PROVE  IInv'
<1>1. /\ Asked(g, "click")
      /\ UNCHANGED <<profile, block, edited, owed, fallen, loose, buried, lost>>
  BY DEF ContainerClick
<1>2. /\ Seated(g) /\ body[g] \in Bodies /\ Head(up[g]) \in Sent /\ Head(up[g]).do = "click"
  BY <1>1, AskedFacts
<1>3. CASE ~(body[g].open /\ chest # None)
  <2>1. UNCHANGED <<chest, body, down>>
    BY <1>3 DEF ContainerClick
  <2>2. body' = [body EXCEPT ![g] = body[g]]
    BY <2>1, Facts
  <2> QED BY <1>1, <1>2, <2>1, <2>2, AskedFacts, Idle
<1>4. CASE body[g].open /\ chest # None
  <2> DEFINE m == Head(up[g])
             after == Click(chest[m.slot], body[g].cursor, m.right)
             now == [body[g] EXCEPT !.cursor = after[2]]
             row == [chest EXCEPT ![m.slot] = after[1]]
             some == <<PlayerState(now), Container(chest')>>
  <2>1. /\ chest' = row /\ body' = [body EXCEPT ![g] = now]
        /\ down' = [down EXCEPT ![g] = @ \o some]
    BY <1>4, <1>1 DEF ContainerClick, Told
  <2>2. m.right \in BOOLEAN /\ m.slot \in 1..ChestSize
    BY <1>2, ClickAsked
  <2>3. chest \in Row(ChestSize) /\ body[g].cursor \in Slot
    BY <1>2, <1>4, Facts DEF Bodies
  <2>4. row \in Row(ChestSize) /\ after[2] \in Slot
    BY <2>2, <2>3, Sizes, RowClicked
  <2>5. ASSUME NEW k \in Kinds PROVE Sum(row, k) + Held(after[2], k) = Sum(chest, k) + Held(body[g].cursor, k)
    BY <2>2, <2>3, Sizes, RowClicked
  <2> HIDE DEF row, after, m
  <2>6. now \in Bodies /\ now.pack = body[g].pack /\ now.cursor = after[2] /\ now.grid = body[g].grid
    BY <1>2, <2>4 DEF Bodies
  <2>7. chest' \in Row(ChestSize) /\ chest' # None
    BY <2>1, <2>4, Sizes
  <2>8. Container(chest') \in Said /\ Container(chest').is # "state"
    BY <2>7, SaidKinds
  <2> HIDE DEF now
  <2>9. /\ some \in Seq(Said) /\ Truthful(some, now)
        /\ \E j \in 1..Len(some) : some[j].is = "state"
    BY <2>6, <2>8, TruthfulPair
  <2> HIDE DEF some
  <2>10. ASSUME NEW k \in Kinds
         PROVE  Handled(now, chest', block', owed', fallen', k)
                  = Handled(body[g], chest, block, owed, fallen, k)
    <3> DEFINE p == Sum(body[g].pack, k)
               q == Sum(body[g].grid, k)
               u == Held(body[g].cursor, k)
               w == Held(after[2], k)
               c == Sum(chest, k)
               d == Sum(row, k)
               s == InBlock(block, k)
               o == Owing(owed, k)
               f == Sum(fallen, k)
    <3>1. p \in Nat /\ q \in Nat /\ u \in Nat
      BY <1>2, OnBodyNat
    <3>2. w \in Nat
      BY <2>4, HeldNat
    <3>3. c \in Nat /\ d \in Nat
      BY <2>3, <2>4, Sizes, RowSum
    <3>4. s \in Nat /\ o \in Nat /\ f \in Nat
      BY Facts, PlacesNat
    <3>5. Handled(body[g], chest, block, owed, fallen, k) = (((((p + u) + q) + c) + s) + o) + f
      BY <1>4 DEF Handled, OnBody, InChest
    <3>6. Handled(now, chest', block', owed', fallen', k) = (((((p + w) + q) + d) + s) + o) + f
      BY <1>1, <2>1, <2>6, <2>7 DEF Handled, OnBody, InChest
    <3>7. d + w = c + u
      BY <2>5
    <3> HIDE DEF p, q, u, w, c, d, s, o, f
    <3>8. (((((p + u) + q) + c) + s) + o) + f = (((((p + w) + q) + d) + s) + o) + f
      BY <3>1, <3>2, <3>3, <3>4, <3>7
    <3> QED BY <3>5, <3>6, <3>8
  <2>11. \A i \in DOMAIN owed' : \E j \in DOMAIN owed : owed[j][1] = owed'[i][1]
    BY <1>1
  <2>12. /\ block' \in BOOLEAN /\ edited' \in BOOLEAN /\ fallen' \in Seq(Stack) /\ owed' \in Owe
         /\ (~block' => chest' = None)
    BY <1>1, <1>4, Facts
  <2>13. profile' = profile /\ lost' = lost /\ buried' = buried /\ loose' = loose
    BY <1>1
  <2> QED BY <1>1, <1>2, <2>1, <2>6, <2>7, <2>9, <2>10, <2>11, <2>12, <2>13, AskedFacts, Served
<1> QED BY <1>3, <1>4

\* A guest's new entry at the end of what is owed.
LEMMA OwedMore ==
  ASSUME NEW o \in Owe, NEW g \in Guests, NEW s \in Stack
  PROVE  \A i \in DOMAIN Append(o, <<g, s>>) :
           Append(o, <<g, s>>)[i][1] = g
             \/ \E j \in DOMAIN o : o[j][1] = Append(o, <<g, s>>)[i][1]
<1> DEFINE e == <<g, s>>
           p == Append(o, e)
<1>1. e \in (Guests \cup {None}) \X Stack /\ e[1] = g
  OBVIOUS
<1> HIDE DEF e
<1>2. Len(o) \in Nat /\ DOMAIN o = 1..Len(o)
  BY LenProperties DEF Owe
<1>3. /\ DOMAIN p = 1..Len(o) + 1 /\ p[Len(o) + 1] = e /\ \A i \in 1..Len(o) : p[i] = o[i]
  <2>1. p \in Owe /\ Len(p) = Len(o) + 1 /\ p[Len(o) + 1] = e /\ \A i \in 1..Len(o) : p[i] = o[i]
    BY <1>1, AppendProperties DEF Owe
  <2> QED BY <2>1, LenProperties DEF Owe
<1> HIDE DEF p
<1>4. \A i \in DOMAIN p : p[i][1] = g \/ \E j \in DOMAIN o : o[j][1] = p[i][1]
  <2> SUFFICES ASSUME NEW i \in 1..Len(o) + 1
               PROVE  p[i][1] = g \/ \E j \in DOMAIN o : o[j][1] = p[i][1]
    BY <1>3
  <2>1. CASE i = Len(o) + 1
    BY <1>1, <1>3, <2>1
  <2>2. CASE i \in 1..Len(o)
    BY <1>2, <1>3, <2>2
  <2> QED BY <1>2, <2>1, <2>2
<1> QED BY <1>4 DEF p, e

LEMMA ChestItem ==
  /\ Some(Chest, 1) \in Stack
  /\ \A k \in Kinds : Held(Some(Chest, 1), k) = InBlock(TRUE, k) /\ InBlock(FALSE, k) = 0
<1>1. Chest \in Kinds /\ MaxStack[Chest] \in Nat \ {0}
  BY CustodyAssumption, StacksAssumption
<1>2. Some(Chest, 1) = [kind |-> Chest, count |-> 1]
  BY DEF Some
<1>3. Some(Chest, 1) \in Stack
  BY <1>1, <1>2 DEF Stack
<1> QED BY <1>2, <1>3, StackSeq DEF Held, InBlock

LEMMA BreakKeeps ==
  ASSUME IInv, NEW g \in Guests, Break(g)
  PROVE  IInv'
<1> DEFINE s == Some(Chest, 1)
           spilt == Filled(chest)
<1>1. /\ Asked(g, "break") /\ block = TRUE /\ block' = FALSE /\ chest' = None /\ edited' = TRUE
      /\ fallen' = (IF chest = None THEN fallen ELSE fallen \o spilt)
      /\ owed' = Append(owed, <<g, s>>) /\ Becomes(g, body[g])
      /\ UNCHANGED <<profile, loose, buried, lost>>
  BY Facts DEF Break
<1>2. Seated(g) /\ body[g] \in Bodies
  BY <1>1, AskedFacts
<1>3. s \in Stack /\ \A k \in Kinds : Held(s, k) = InBlock(TRUE, k) /\ InBlock(FALSE, k) = 0
  BY ChestItem
<1> HIDE DEF s
<1>4. owed' \in Owe /\ \A k \in Kinds : Owing(owed', k) = Owing(owed, k) + InBlock(TRUE, k)
  <2>1. owed \in Owe /\ g \in Guests \cup {None} /\ owed' = Append(owed, <<g, s>>) /\ Chest \in Kinds
    BY <1>1, Facts, CustodyAssumption
  <2>2. ASSUME NEW k \in Kinds
        PROVE  owed' \in Owe /\ Owing(owed', k) = Owing(owed, k) + Held(s, k)
    BY <1>3, <2>1, OwingAppend
  <2> QED BY <1>3, <2>1, <2>2
<1>5. \A i \in DOMAIN owed' : owed'[i][1] = g \/ \E j \in DOMAIN owed : owed[j][1] = owed'[i][1]
  BY <1>1, <1>3, Facts, OwedMore
<1>6. fallen' \in Seq(Stack) /\ \A k \in Kinds : Sum(fallen', k) = Sum(fallen, k) + InChest(chest, k)
  <2>1. CASE chest = None
    BY <1>1, <2>1, Facts, PlacesNat DEF InChest
  <2>2. CASE chest # None
    <3>1. chest \in Seq(Slot)
      BY <2>2, Facts, Sizes, RowSeq
    <3>2. spilt \in Seq(Stack) /\ \A k \in Kinds : Sum(spilt, k) = InChest(chest, k)
      BY <2>2, <3>1, FilledKeeps DEF InChest
    <3> HIDE DEF spilt
    <3>3. fallen' = fallen \o spilt
      BY <1>1, <2>2
    <3>4. fallen' \in Seq(Stack) /\ \A k \in Kinds : Sum(fallen', k) = Sum(fallen, k) + Sum(spilt, k)
      BY <3>2, <3>3, Facts, StackSum, ConcatProperties
    <3> QED BY <3>2, <3>4
  <2> QED BY <2>1, <2>2
<1> HIDE DEF spilt
<1>7. ASSUME NEW k \in Kinds
      PROVE  Handled(body[g], chest', block', owed', fallen', k)
               = Handled(body[g], chest, block, owed, fallen, k)
  <2> DEFINE b == OnBody(body[g], k)
             c == InChest(chest, k)
             w == InBlock(TRUE, k)
             o == Owing(owed, k)
             f == Sum(fallen, k)
  <2>1. b \in Nat /\ c \in Nat /\ w \in Nat /\ o \in Nat /\ f \in Nat
    BY <1>2, Facts, PlacesNat, OnBodyNat
  <2>2. Handled(body[g], chest, block, owed, fallen, k) = (((b + c) + w) + o) + f
    BY <1>1 DEF Handled
  <2>3. Owing(owed', k) = o + w /\ Sum(fallen', k) = f + c
    BY <1>4, <1>6
  <2>4. InChest(chest', k) = 0 /\ InBlock(block', k) = 0
    BY <1>1, <1>3 DEF InChest
  <2>5. Handled(body[g], chest', block', owed', fallen', k) = (((b + 0) + 0) + (o + w)) + (f + c)
    BY <2>3, <2>4 DEF Handled
  <2> HIDE DEF b, c, w, o, f
  <2>6. (((b + 0) + 0) + (o + w)) + (f + c) = (((b + c) + w) + o) + f
    BY <2>1
  <2> QED BY <2>2, <2>5, <2>6
<1>8. chest' \in Row(ChestSize) \cup {None} /\ block' \in BOOLEAN /\ edited' \in BOOLEAN
  BY <1>1
<1> QED BY <1>1, <1>2, <1>4, <1>5, <1>6, <1>7, <1>8, AskedFacts, Restated

LEMMA PlaceKeeps ==
  ASSUME IInv, NEW g \in Guests, Place(g)
  PROVE  IInv'
<1> DEFINE hand == body[g].pack[1]
           less == Some(Chest, hand.count - 1)
           row == [body[g].pack EXCEPT ![1] = less]
           b == [body[g] EXCEPT !.pack[1] = less]
<1>1. /\ Asked(g, "place") /\ block = FALSE /\ Held(hand, Chest) > 0
      /\ block' = TRUE /\ edited' = TRUE /\ Becomes(g, b)
      /\ UNCHANGED <<profile, chest, owed, fallen, loose, buried, lost>>
  BY Facts DEF Place
<1>2. Seated(g) /\ body[g] \in Bodies
  BY <1>1, AskedFacts
<1>3. body[g].pack \in Row(PackSize) /\ 1 \in 1..PackSize
  BY <1>2, Sizes DEF Bodies
<1>4. hand \in Stack /\ hand.kind = Chest
  <2>1. hand \in Slot
    BY <1>3 DEF Row
  <2> QED BY <1>1, <2>1 DEF Held, Slot
<1>5. b = [body[g] EXCEPT !.pack = row]
  BY <1>2 DEF Bodies
<1> HIDE DEF hand
<1>6. less \in Slot /\ \A k \in Kinds : Held(less, k) + InBlock(TRUE, k) = Held(hand, k)
  <2>1. hand.count \in Nat \ {0} /\ hand.count <= MaxStack[Chest] /\ Chest \in Kinds /\ hand # None
    BY <1>4, StackSeq DEF Stack
  <2>2. CASE hand.count = 1
    <3>1. less = None
      BY <2>2 DEF Some
    <3> QED BY <1>4, <2>1, <2>2, <3>1 DEF Slot, Held, InBlock
  <2>3. CASE hand.count # 1
    <3> DEFINE n == hand.count - 1
    <3>1. n \in Nat \ {0} /\ n <= MaxStack[Chest] /\ n + 1 = hand.count
      <4>1. MaxStack[Chest] \in Nat
        BY <2>1, StacksAssumption
      <4> QED BY <2>1, <2>3, <4>1
    <3> HIDE DEF n
    <3>2. less = [kind |-> Chest, count |-> n]
      BY <3>1 DEF Some, n
    <3> HIDE DEF less
    <3>3. less \in Stack /\ less # None
      BY <2>1, <3>1, <3>2, StackSeq DEF Stack
    <3> QED BY <1>4, <2>1, <3>1, <3>2, <3>3 DEF Slot, Held, InBlock
  <2> QED BY <2>2, <2>3
<1> HIDE DEF less
<1>7. row \in Row(PackSize) /\ \A k \in Kinds : Sum(row, k) + Held(hand, k) = Sum(body[g].pack, k) + Held(less, k)
  BY <1>3, <1>6, Sizes, RowPoint DEF hand, Row
<1> HIDE DEF row, b
<1>8. b \in Bodies /\ b.pack = row /\ b.cursor = body[g].cursor /\ b.grid = body[g].grid
  BY <1>2, <1>5, <1>7 DEF Bodies
<1>9. ASSUME NEW k \in Kinds
      PROVE  Handled(b, chest', block', owed', fallen', k)
               = Handled(body[g], chest, block, owed, fallen, k)
  <2> DEFINE p == Sum(body[g].pack, k)
             r == Sum(row, k)
             u == Held(body[g].cursor, k)
             q == Sum(body[g].grid, k)
             c == InChest(chest, k)
             w == InBlock(TRUE, k)
             o == Owing(owed, k)
             f == Sum(fallen, k)
             h == Held(hand, k)
             l == Held(less, k)
  <2>1. p \in Nat /\ u \in Nat /\ q \in Nat
    BY <1>2, OnBodyNat
  <2>2. c \in Nat /\ w \in Nat /\ o \in Nat /\ f \in Nat
    BY Facts, PlacesNat
  <2>3. r \in Nat
    BY <1>7, Sizes, RowSum
  <2>4. l \in Nat /\ h \in Nat
    BY <1>4, <1>6, StackSeq, HeldNat
  <2>5. l + w = h /\ r + h = p + l
    BY <1>6, <1>7
  <2>6. Handled(body[g], chest, block, owed, fallen, k) = (((((p + u) + q) + c) + 0) + o) + f
    BY <1>1, ChestItem DEF Handled, OnBody
  <2>7. Handled(b, chest', block', owed', fallen', k) = (((((r + u) + q) + c) + w) + o) + f
    BY <1>1, <1>8 DEF Handled, OnBody
  <2> HIDE DEF p, r, u, q, c, w, o, f, h, l
  <2>8. r + w = p
    BY <2>1, <2>2, <2>3, <2>4, <2>5
  <2>9. (((((r + u) + q) + c) + w) + o) + f = (((((p + u) + q) + c) + 0) + o) + f
    BY <2>1, <2>2, <2>3, <2>8
  <2> QED BY <2>6, <2>7, <2>9
<1>10. chest' \in Row(ChestSize) \cup {None} /\ block' \in BOOLEAN /\ edited' \in BOOLEAN
       /\ (~block' => chest' = None) /\ fallen' \in Seq(Stack) /\ owed' \in Owe
  BY <1>1, Facts
<1>11. \A i \in DOMAIN owed' : \E j \in DOMAIN owed : owed[j][1] = owed'[i][1]
  BY <1>1
<1> QED BY <1>1, <1>2, <1>8, <1>9, <1>10, <1>11, AskedFacts, Restated

\* A body without its items.
LEMMA BareBody ==
  ASSUME NEW b \in Bodies
  PROVE  LET dead == [Bare(b) EXCEPT !.alive = FALSE] IN
         dead \in Bodies /\ \A k \in Kinds : OnBody(dead, k) = 0
<1> DEFINE dead == [Bare(b) EXCEPT !.alive = FALSE]
<1>1. /\ Empty(PackSize) \in Row(PackSize) /\ Empty(GridSize) \in Row(GridSize) /\ None \in Slot
      /\ \A k \in Kinds : Sum(Empty(PackSize), k) = 0 /\ Sum(Empty(GridSize), k) = 0
  BY Sizes, EmptyRow
<1>2. /\ dead \in Bodies /\ dead.pack = Empty(PackSize) /\ dead.grid = Empty(GridSize)
      /\ dead.cursor = None
  BY <1>1 DEF Bare, Bodies
<1> HIDE DEF dead
<1>3. \A k \in Kinds : OnBody(dead, k) = 0
  BY <1>1, <1>2 DEF OnBody, Held
<1> QED BY <1>2, <1>3 DEF dead

LEMMA DieKeeps ==
  ASSUME IInv, NEW g \in Guests, Die(g)
  PROVE  IInv'
<1> DEFINE b == body[g]
           dead == [Bare(b) EXCEPT !.alive = FALSE]
           all == b.pack \o <<b.cursor>> \o b.grid
           spilt == Filled(all)
           some == <<Hit, PlayerState(dead)>>
<1>1. /\ Seated(g) /\ acts > 0 /\ acts' = acts - 1 /\ fallen' = fallen \o spilt
      /\ body' = [body EXCEPT ![g] = dead] /\ down' = [down EXCEPT ![g] = @ \o some]
      /\ UNCHANGED <<profile, block, chest, edited, owed, loose, buried, lost, up, view>>
  BY DEF Die, Told
<1>2. b \in Bodies
  BY <1>1, Facts DEF Seated
<1>3. dead \in Bodies /\ \A k \in Kinds : OnBody(dead, k) = 0
  BY <1>2, BareBody
<1>4. all \in Seq(Slot) /\ \A k \in Kinds : Sum(all, k) = OnBody(b, k)
  <2> DEFINE one == <<b.cursor>>
             two == b.pack \o one
  <2>1. b.pack \in Row(PackSize) /\ b.cursor \in Slot /\ b.grid \in Row(GridSize)
    BY <1>2 DEF Bodies
  <2>2. b.pack \in Seq(Slot) /\ b.grid \in Seq(Slot)
    BY <2>1, Sizes, RowSeq
  <2>3. one \in Seq(Slot) /\ \A k \in Kinds : Sum(one, k) = Held(b.cursor, k)
    BY <2>1, SumFew
  <2> HIDE DEF one, b
  <2>4. two \in Seq(Slot) /\ \A k \in Kinds : Sum(two, k) = Sum(b.pack, k) + Sum(one, k)
    BY <2>2, <2>3, SumJoin, ConcatProperties
  <2>5. all = two \o b.grid
    BY DEF one
  <2> HIDE DEF two, all
  <2>6. all \in Seq(Slot) /\ \A k \in Kinds : Sum(all, k) = Sum(two, k) + Sum(b.grid, k)
    BY <2>2, <2>4, <2>5, SumJoin, ConcatProperties
  <2> QED BY <2>3, <2>4, <2>6 DEF OnBody
<1> HIDE DEF all
<1>5. spilt \in Seq(Stack) /\ \A k \in Kinds : Sum(spilt, k) = OnBody(b, k)
  BY <1>4, FilledKeeps
<1> HIDE DEF spilt
<1>6. fallen' \in Seq(Stack) /\ \A k \in Kinds : Sum(fallen', k) = Sum(fallen, k) + OnBody(b, k)
  BY <1>1, <1>5, Facts, StackSum, ConcatProperties
<1> HIDE DEF dead
<1>7. some \in Seq(Said) /\ Truthful(some, dead) /\ \E j \in 1..Len(some) : some[j].is = "state"
  BY <1>3, SaidKinds, TruthfulPair
<1> HIDE DEF some
<1>8. ASSUME NEW k \in Kinds
      PROVE  Handled(dead, chest', block', owed', fallen', k)
               = Handled(body[g], chest, block, owed, fallen, k)
  <2> DEFINE p == OnBody(b, k)
             c == InChest(chest, k)
             w == InBlock(block, k)
             o == Owing(owed, k)
             f == Sum(fallen, k)
  <2>1. p \in Nat /\ c \in Nat /\ w \in Nat /\ o \in Nat /\ f \in Nat
    BY <1>2, Facts, PlacesNat, OnBodyNat
  <2>2. Handled(body[g], chest, block, owed, fallen, k) = (((p + c) + w) + o) + f
    BY DEF Handled
  <2>3. Handled(dead, chest', block', owed', fallen', k) = (((0 + c) + w) + o) + (f + p)
    BY <1>1, <1>3, <1>6 DEF Handled
  <2> HIDE DEF p, c, w, o, f
  <2>4. (((0 + c) + w) + o) + (f + p) = (((p + c) + w) + o) + f
    BY <2>1
  <2> QED BY <2>2, <2>3, <2>4
<1>9. \A i \in DOMAIN owed' : \E j \in DOMAIN owed : owed[j][1] = owed'[i][1]
  BY <1>1
<1>10. chest' \in Row(ChestSize) \cup {None} /\ block' \in BOOLEAN /\ edited' \in BOOLEAN
       /\ (~block' => chest' = None) /\ owed' \in Owe /\ up' \in [Guests -> Seq(Sent)] /\ up' = up
  BY <1>1, Facts
<1>11. acts' \in 0..MaxActs
  BY <1>1, Facts, CustodyAssumption
<1>12. profile' = profile /\ lost' = lost /\ buried' = buried /\ loose' = loose /\ view' = view
  BY <1>1
<1> QED BY <1>1, <1>3, <1>6, <1>7, <1>8, <1>9, <1>10, <1>11, <1>12, Served

LEMMA HandleKeeps ==
  ASSUME IInv, NEW g \in Guests, Handle(g)
  PROVE  IInv'
BY RefuseKeeps, OpenContainerKeeps, ContainerClickKeeps, CloseContainerKeeps, InventoryClickKeeps,
   BreakKeeps, PlaceKeeps, RespawnKeeps DEF Handle

-----------------------------------------------------------------------------
(* The guest's side: it moves nothing that the host holds. *)

LEMMA Elsewhere ==
  ASSUME IInv, UNCHANGED held, up' \in [Guests -> Seq(Sent)], down' \in [Guests -> Seq(Said)],
         view' \in [Guests -> Views], acts' \in 0..MaxActs,
         \A x \in Guests : Seated(x) => Truthful(down'[x], body[x]),
         \A x \in Guests : ~Seated(x) => down'[x] = <<>> /\ up'[x] = <<>>
  PROVE  IInv'
<1>1. UNCHANGED <<profile, body, block, chest, edited, owed, fallen, loose, buried, lost>>
  BY DEF held
<1>2. TypeOK /\ GoneIsEmpty /\ AwayIsQuiet /\ ItemsConserved
  BY DEF IInv, CustodyInv
<1>3. TypeOK'
  BY <1>1, <1>2 DEF TypeOK
<1>4. LastWordIsTrue'
  BY <1>1 DEF LastWordIsTrue, Truthful, Seated
<1>5. GoneIsEmpty'
  BY <1>1, <1>2 DEF GoneIsEmpty
<1>6. AwayIsQuiet'
  BY <1>1, <1>2 DEF AwayIsQuiet, Seated
<1>7. ItemsConserved'
  <2> SUFFICES ASSUME NEW k \in Kinds PROVE (Total(k) + lost[k] = Supply(k))'
    BY DEF ItemsConserved
  <2>1. Total(k)' = Total(k) /\ Supply(k)' = Supply(k) /\ lost' = lost
    BY <1>1 DEF Total, Supply
  <2> QED BY <1>2, <2>1 DEF ItemsConserved
<1> QED BY <1>3, <1>4, <1>5, <1>6, <1>7 DEF IInv, CustodyInv

LEMMA ActKeeps ==
  ASSUME IInv, NEW g \in Guests, NEW sent \in Seq(Sent), NEW v \in Views, Act(g, sent, v)
  PROVE  IInv'
<1>1. /\ Seated(g) /\ acts > 0 /\ acts' = acts - 1 /\ UNCHANGED <<held, down>>
      /\ up' = [up EXCEPT ![g] = @ \o sent] /\ view' = [view EXCEPT ![g] = v]
  BY DEF Act
<1>2. up[g] \o sent \in Seq(Sent)
  BY Facts, ConcatProperties
<1>3. up' \in [Guests -> Seq(Sent)] /\ view' \in [Guests -> Views] /\ down' \in [Guests -> Seq(Said)]
  BY <1>1, <1>2, Facts
<1>4. \A x \in Guests : Seated(x) => Truthful(down'[x], body[x])
  BY <1>1, Facts DEF LastWordIsTrue, Truthful
<1>5. \A x \in Guests : ~Seated(x) => down'[x] = <<>> /\ up'[x] = <<>>
  BY <1>1, Facts DEF AwayIsQuiet
<1>6. acts' \in 0..MaxActs
  BY <1>1, Facts, CustodyAssumption
<1> QED BY <1>1, <1>3, <1>4, <1>5, <1>6, Elsewhere

LEMMA ViewFacts ==
  ASSUME IInv, NEW g \in Guests
  PROVE  /\ view[g] \in Views /\ view[g].pack \in Row(PackSize) /\ view[g].cursor \in Slot
         /\ view[g].grid \in Row(GridSize) /\ view[g].chest \in Row(ChestSize) \cup {None}
BY Facts DEF Views

LEMMA UseKeeps ==
  ASSUME IInv, NEW g \in Guests, Use(g)
  PROVE  IInv'
<1>1. PICK what \in {"open", "break"} : Act(g, <<[do |-> what]>>, view[g])
  BY DEF Use
<1>2. <<[do |-> what]>> \in Seq(Sent)
  BY DEF Sent
<1> QED BY <1>1, <1>2, ViewFacts, ActKeeps

\* A slot with one thing less in it.
LEMMA OneLess ==
  ASSUME NEW s \in Slot, NEW k \in Kinds, Held(s, k) > 0
  PROVE  Some(k, s.count - 1) \in Slot
<1>1. s \in Stack /\ s.kind = k
  BY DEF Slot, Held
<1>2. s.count \in Nat \ {0} /\ s.count <= MaxStack[k] /\ MaxStack[k] \in Nat
  BY <1>1, StacksAssumption DEF Stack
<1>3. CASE s.count = 1
  BY <1>3 DEF Some, Slot
<1>4. CASE s.count # 1
  <2> DEFINE n == s.count - 1
  <2>1. n \in Nat \ {0} /\ n <= MaxStack[k]
    BY <1>2, <1>4
  <2> HIDE DEF n
  <2>2. Some(k, n) \in Slot
    BY <2>1 DEF Some, Slot, Stack
  <2> QED BY <2>2 DEF n
<1> QED BY <1>3, <1>4

LEMMA UsePlaceKeeps ==
  ASSUME IInv, NEW g \in Guests, UsePlace(g)
  PROVE  IInv'
<1> DEFINE v == view[g]
           less == Some(Chest, v.pack[1].count - 1)
           row == [v.pack EXCEPT ![1] = less]
           now == [v EXCEPT !.pack[1] = less]
           sent == <<[do |-> "place"]>>
<1>1. Held(v.pack[1], Chest) > 0 /\ Act(g, sent, now)
  BY DEF UsePlace
<1>2. sent \in Seq(Sent)
  BY DEF Sent
<1>3. v.pack \in Row(PackSize) /\ v.pack[1] \in Slot /\ Chest \in Kinds
  BY ViewFacts, Sizes, CustodyAssumption DEF Row
<1>4. less \in Slot
  BY <1>1, <1>3, OneLess
<1>5. now = [v EXCEPT !.pack = row]
  BY ViewFacts DEF Views
<1> HIDE DEF less, now, sent
<1>6. row \in Row(PackSize)
  BY <1>3, <1>4 DEF Row
<1> HIDE DEF row
<1>7. now \in Views
  BY <1>5, <1>6, ViewFacts DEF Views
<1> QED BY <1>1, <1>2, <1>7, ActKeeps

LEMMA OpenInventoryKeeps ==
  ASSUME IInv, NEW g \in Guests, OpenInventory(g)
  PROVE  IInv'
<1> DEFINE now == [view[g] EXCEPT !.screen = "inventory"]
           sent == <<>>
<1>1. Act(g, sent, now)
  BY DEF OpenInventory
<1>2. sent \in Seq(Sent)
  OBVIOUS
<1>3. now \in Views
  BY ViewFacts DEF Views
<1> HIDE DEF now, sent
<1> QED BY <1>1, <1>2, <1>3, ActKeeps

LEMMA ClickChestKeeps ==
  ASSUME IInv, NEW g \in Guests, ClickChest(g)
  PROVE  IInv'
<1> DEFINE v == view[g]
           after(slot, right) == Click(v.chest[slot], v.cursor, right)
           now(slot, right) == [v EXCEPT !.chest[slot] = after(slot, right)[1],
                                         !.cursor = after(slot, right)[2]]
           sent(slot, right) == <<[do |-> "click", slot |-> slot, right |-> right]>>
<1>1. PICK slot \in 1..ChestSize : \E right \in BOOLEAN :
        Act(g, sent(slot, right), IF v.chest = None THEN v ELSE now(slot, right))
  BY DEF ClickChest
<1>2. PICK right \in BOOLEAN :
        Act(g, sent(slot, right), IF v.chest = None THEN v ELSE now(slot, right))
  BY <1>1
<1>3. sent(slot, right) \in Seq(Sent)
  BY DEF Sent
<1>4. v.chest # None => now(slot, right) \in Views
  <2> SUFFICES ASSUME v.chest # None PROVE now(slot, right) \in Views
    OBVIOUS
  <2> DEFINE a == after(slot, right)
             row == [v.chest EXCEPT ![slot] = a[1]]
  <2>1. v.chest \in Row(ChestSize) /\ v.cursor \in Slot
    BY ViewFacts
  <2>2. row \in Row(ChestSize) /\ a[2] \in Slot
    BY <2>1, Sizes, RowClicked
  <2>3. now(slot, right) = [v EXCEPT !.chest = row, !.cursor = a[2]]
    BY ViewFacts DEF Views
  <2> HIDE DEF row, a, now
  <2> QED BY <2>2, <2>3, ViewFacts DEF Views
<1> HIDE DEF sent, now
<1> QED BY <1>2, <1>3, <1>4, ViewFacts, ActKeeps

LEMMA ClickPackKeeps ==
  ASSUME IInv, NEW g \in Guests, ClickPack(g)
  PROVE  IInv'
<1> DEFINE m(area, slot, right) == [do |-> "inventory", area |-> area, slot |-> slot, right |-> right]
<1>1. \E area \in {"pack", "grid"}, slot \in 1..(PackSize + GridSize), right \in BOOLEAN :
        /\ (area = "pack" => slot <= PackSize) /\ (area = "grid" => slot <= GridSize)
        /\ Act(g, <<m(area, slot, right)>>, Clicked(view[g], m(area, slot, right)))
  BY DEF ClickPack
<1>2. PICK area \in {"pack", "grid"} : \E slot \in 1..(PackSize + GridSize), right \in BOOLEAN :
        /\ (area = "pack" => slot <= PackSize) /\ (area = "grid" => slot <= GridSize)
        /\ Act(g, <<m(area, slot, right)>>, Clicked(view[g], m(area, slot, right)))
  BY <1>1
<1>3. PICK slot \in 1..(PackSize + GridSize) : \E right \in BOOLEAN :
        /\ (area = "pack" => slot <= PackSize) /\ (area = "grid" => slot <= GridSize)
        /\ Act(g, <<m(area, slot, right)>>, Clicked(view[g], m(area, slot, right)))
  BY <1>2
<1>4. PICK right \in BOOLEAN :
        /\ (area = "pack" => slot <= PackSize) /\ (area = "grid" => slot <= GridSize)
        /\ Act(g, <<m(area, slot, right)>>, Clicked(view[g], m(area, slot, right)))
  BY <1>3
<1> DEFINE asked == m(area, slot, right)
<1>5. asked \in Sent /\ asked.do = "inventory"
  <2>1. (area = "pack" /\ slot \in 1..PackSize) \/ (area = "grid" /\ slot \in 1..GridSize)
    BY <1>4, Sizes
  <2> QED BY <2>1 DEF Sent
<1> HIDE DEF m
<1>6. Act(g, <<asked>>, Clicked(view[g], asked))
  BY <1>4
<1> HIDE DEF asked
<1>7. <<asked>> \in Seq(Sent)
  BY <1>5
<1>8. Clicked(view[g], asked) \in Views
  BY <1>5, ViewFacts, ViewClicked
<1> QED BY <1>6, <1>7, <1>8, ActKeeps

\* Putting stacks back keeps the shape of a pack.
LEMMA PutBackKeeps ==
  ASSUME NEW pack \in Row(PackSize), NEW slots \in Seq(Stack)
  PROVE  PutBack(pack, slots) \in Row(PackSize)
<1> DEFINE X == Row(PackSize)
<1>1. Len(slots) \in Nat /\ \A n \in 1..Len(slots) : slots[n] \in Stack
  BY LenProperties, ElementOfSeq
<1>2. \A n \in 1..Len(slots), x \in X : AddStack(x, slots[n]).slots \in X
  <2> SUFFICES ASSUME NEW n \in 1..Len(slots), NEW x \in X PROVE AddStack(x, slots[n]).slots \in X
    OBVIOUS
  <2>1. slots[n] \in Stack
    BY <1>1
  <2> QED BY <2>1, Sizes, AddStackConserves
<1>3. pack \in X
  OBVIOUS
<1> HIDE DEF X
<1>4. \E f \in [0..Len(slots) -> X] : PutBack(pack, slots) = f[Len(slots)]
  BY <1>1, <1>2, <1>3, PutBackRuns
<1>5. PutBack(pack, slots) \in X
  BY <1>1, <1>4
<1> QED BY <1>5 DEF X

LEMMA ClosingSent ==
  ASSUME NEW v
  PROVE  Closing(v) \in Seq(Sent)
<1>1. [do |-> "close"] \in Sent
  BY DEF Sent
<1>2. <<[do |-> "close"]>> \in Seq(Sent) /\ <<>> \in Seq(Sent)
  BY <1>1
<1> QED BY <1>2 DEF Closing

LEMMA PutAwayKeeps ==
  ASSUME NEW v \in Views
  PROVE  PutAway(v) \in Views
<1> DEFINE all == <<v.cursor>> \o v.grid
           slots == Filled(all)
           back == PutBack(v.pack, slots)
<1>1. v.cursor \in Slot /\ v.grid \in Row(GridSize) /\ v.pack \in Row(PackSize)
  BY DEF Views
<1>2. all \in Seq(Slot)
  <2>1. <<v.cursor>> \in Seq(Slot)
    BY <1>1
  <2>2. v.grid \in Seq(Slot)
    BY <1>1, Sizes, RowSeq
  <2> QED BY <2>1, <2>2, ConcatProperties
<1>3. PutAway(v) = IF v.screen \in {"chest", "inventory"}
                   THEN [v EXCEPT !.pack = back, !.cursor = None, !.grid = Empty(GridSize)]
                   ELSE v
  BY DEF PutAway
<1> HIDE DEF all
<1>4. slots \in Seq(Stack)
  BY <1>2, FilledKeeps
<1> HIDE DEF slots
<1>5. back \in Row(PackSize)
  BY <1>1, <1>4, PutBackKeeps
<1> HIDE DEF back
<1>6. Empty(GridSize) \in Row(GridSize) /\ None \in Slot
  BY Sizes, EmptyRow
<1> QED BY <1>3, <1>5, <1>6 DEF Views

LEMMA CloseKeeps ==
  ASSUME IInv, NEW g \in Guests, Close(g)
  PROVE  IInv'
<1> DEFINE v == view[g]
           away == PutAway(v)
           now == [away EXCEPT !.screen = "playing"]
<1>1. Act(g, Closing(v), now)
  BY DEF Close
<1>2. away \in Views
  BY ViewFacts, PutAwayKeeps
<1> HIDE DEF away
<1>3. now \in Views
  BY <1>2 DEF Views
<1> HIDE DEF now
<1> QED BY <1>1, <1>3, ClosingSent, ActKeeps

LEMMA AskRespawnKeeps ==
  ASSUME IInv, NEW g \in Guests, AskRespawn(g)
  PROVE  IInv'
<1> DEFINE m == [do |-> "respawn"]
           now == [view[g] EXCEPT !.screen = "playing"]
<1>1. /\ Seated(g) /\ up' = [up EXCEPT ![g] = Append(@, m)] /\ view' = [view EXCEPT ![g] = now]
      /\ UNCHANGED <<held, down, acts>>
  BY Facts DEF AskRespawn
<1>2. m \in Sent /\ now \in Views
  BY ViewFacts DEF Sent, Views
<1> HIDE DEF m, now
<1>3. Append(up[g], m) \in Seq(Sent)
  BY <1>2, Facts, AppendProperties
<1>4. up' \in [Guests -> Seq(Sent)] /\ view' \in [Guests -> Views] /\ down' \in [Guests -> Seq(Said)]
  BY <1>1, <1>2, <1>3, Facts
<1>5. \A x \in Guests : Seated(x) => Truthful(down'[x], body[x])
  BY <1>1, Facts DEF LastWordIsTrue, Truthful
<1>6. \A x \in Guests : ~Seated(x) => down'[x] = <<>> /\ up'[x] = <<>>
  BY <1>1, Facts DEF AwayIsQuiet
<1> QED BY <1>1, <1>4, <1>5, <1>6, Facts, Elsewhere

\* What a message does to a view leaves it a view, and the answer is a request.
LEMMA SeenKeeps ==
  ASSUME NEW g \in Guests, NEW mortal \in BOOLEAN, NEW now \in [view : Views, out : Seq(Sent)],
         NEW m \in Said
  PROVE  Seen(g, mortal, now, m) \in [view : Views, out : Seq(Sent)]
<1> DEFINE v == now.view
<1>1. v \in Views /\ now.out \in Seq(Sent)
  OBVIOUS
<1>2. CASE m.is = "state"
  <2>1. m.kit.pack \in Row(PackSize) /\ m.kit.cursor \in Slot
    BY <1>2 DEF Said, Kit, BlockSet, Hit
  <2>2. Seen(g, mortal, now, m) = [now EXCEPT !.view.pack = m.kit.pack, !.view.cursor = m.kit.cursor]
    BY <1>2 DEF Seen
  <2> DEFINE new == [v EXCEPT !.pack = m.kit.pack, !.cursor = m.kit.cursor]
  <2>3. new \in Views
    BY <1>1, <2>1 DEF Views
  <2>4. Seen(g, mortal, now, m) = [now EXCEPT !.view = new]
    BY <2>2
  <2> HIDE DEF new
  <2> QED BY <2>3, <2>4
<1>3. CASE m.is = "chest"
  <2>1. m.slots \in Row(ChestSize)
    BY <1>3 DEF Said, BlockSet, Hit
  <2>2. Seen(g, mortal, now, m)
          = [now EXCEPT !.view.chest = m.slots,
                        !.view.screen = IF @ = "playing" THEN "chest" ELSE @]
    BY <1>3 DEF Seen
  <2> DEFINE new == [v EXCEPT !.chest = m.slots,
                              !.screen = IF v.screen = "playing" THEN "chest" ELSE v.screen]
  <2>3. new \in Views
    BY <1>1, <2>1 DEF Views
  <2>4. Seen(g, mortal, now, m) = [now EXCEPT !.view = new]
    BY <2>2
  <2> HIDE DEF new
  <2> QED BY <2>3, <2>4
<1>4. CASE m.is \notin {"state", "chest"} /\ m.is = "hit" /\ mortal /\ v.screen # "dead"
  <2> DEFINE old == IF g \in Deep THEN PutAway(v) ELSE Bare(v)
             out == now.out \o Closing(v)
  <2>1. Seen(g, mortal, now, m) = [view |-> [old EXCEPT !.screen = "dead"], out |-> out]
    BY <1>4 DEF Seen
  <2>2. old \in Views
    <3>1. Empty(PackSize) \in Row(PackSize) /\ Empty(GridSize) \in Row(GridSize) /\ None \in Slot
      BY Sizes, EmptyRow
    <3>2. Bare(v) \in Views
      BY <1>1, <3>1 DEF Bare, Views
    <3> QED BY <1>1, <3>2, PutAwayKeeps
  <2>3. out \in Seq(Sent)
    BY <1>1, ClosingSent, ConcatProperties
  <2> HIDE DEF old, out
  <2>4. [old EXCEPT !.screen = "dead"] \in Views
    BY <2>2 DEF Views
  <2> QED BY <2>1, <2>3, <2>4
<1>5. CASE m.is \notin {"state", "chest"} /\ ~(m.is = "hit" /\ mortal /\ v.screen # "dead")
  <2>1. Seen(g, mortal, now, m) = now
    BY <1>5 DEF Seen
  <2> QED BY <2>1
<1> QED BY <1>2, <1>3, <1>4, <1>5

LEMMA WatchedKeeps ==
  ASSUME NEW g \in Guests, NEW mortal \in BOOLEAN, NEW start \in [view : Views, out : Seq(Sent)],
         NEW got \in Seq(Said)
  PROVE  /\ Watched(g, mortal, start, got) \in [view : Views, out : Seq(Sent)]
         /\ Len(got) = 0 => Watched(g, mortal, start, got) = start
<1> DEFINE X == [view : Views, out : Seq(Sent)]
           N == Len(got)
           Op(n, x) == Seen(g, mortal, x, got[n])
           Body(f) == [n \in 0..N |-> IF n = 0 THEN start ELSE Op(n, f[n - 1])]
           upTo == CHOOSE f : f = Body(f)
           step == [n \in 1..N |-> [x \in X |-> Op(n, x)]]
<1>1. N \in Nat /\ \A n \in 1..N : got[n] \in Said
  BY LenProperties, ElementOfSeq
<1>2. Watched(g, mortal, start, got) = upTo[N]
  BY DEF Watched
<1>0. start \in X /\ \A n \in 1..N, x \in X : Op(n, x) \in X
  BY <1>1, SeenKeeps
<1> HIDE DEF N, X, Op
<1>3. step \in Steps(N, X) /\ \A n \in 1..N, x \in X : step[n][x] = Op(n, x)
  BY <1>0 DEF Steps
<1> HIDE DEF step
<1>4. PICK f : Runs(f, N, X, start, step)
  BY <1>1, <1>3, <1>0, Recursion
<1>5. f = Body(f)
  <2>1. \A n \in 1..N : f[n - 1] \in X
    BY <1>1, <1>4 DEF Runs
  <2>2. \A n \in 0..N : f[n] = IF n = 0 THEN start ELSE Op(n, f[n - 1])
    BY <1>1, <1>3, <1>4, <2>1 DEF Runs
  <2> QED BY <1>4, <2>2 DEF Runs
<1>6. upTo = Body(upTo)
  <2> HIDE DEF Body
  <2> QED BY <1>5
<1> HIDE DEF upTo
<1>7. upTo[0] = start /\ \A n \in 1..N : upTo[n] = Op(n, upTo[n - 1])
  <2>1. \A n \in 0..N : upTo[n] = IF n = 0 THEN start ELSE Op(n, upTo[n - 1])
    BY <1>6
  <2> QED BY <1>1, <2>1
<1>8. \A n \in 0..N : upTo[n] \in X
  <2> DEFINE good == {n \in 0..N : upTo[n] \in X}
  <2>1. 0 \in good
    BY <1>1, <1>7, <1>0
  <2>2. \A n \in 1..N : n - 1 \in good => n \in good
    BY <1>0, <1>1, <1>7
  <2>3. \A n \in 0..N : n \in good
    <3> HIDE DEF good
    <3> QED BY <1>1, <2>1, <2>2, Climb
  <2> QED BY <2>3
<1> QED BY <1>1, <1>2, <1>7, <1>8 DEF N, X

LEMMA FrameKeeps ==
  ASSUME IInv, NEW g \in Guests, Frame(g)
  PROVE  IInv'
<1> DEFINE start == [view |-> view[g], out |-> <<>>]
           got(n) == SubSeq(down[g], 1, n)
           now(n, mortal) == Watched(g, mortal, start, got(n))
           edit(n) == view[g].edit \/ BlockSet \in ToSet(got(n))
           shown(n, mortal, applied) ==
             IF applied THEN [now(n, mortal).view EXCEPT !.chest = None, !.edit = FALSE]
             ELSE [now(n, mortal).view EXCEPT !.edit = edit(n)]
           Step(n, mortal, applied) ==
             /\ down' = [down EXCEPT ![g] = SubSeq(@, n + 1, Len(@))]
             /\ view' = [view EXCEPT ![g] = shown(n, mortal, applied)]
             /\ up' = [up EXCEPT ![g] = @ \o now(n, mortal).out]
             /\ UNCHANGED <<held, acts>>
<1>1. \E n \in 0..Len(down[g]), mortal \in BOOLEAN, applied \in BOOLEAN : Step(n, mortal, applied)
  BY DEF Frame
<1> HIDE DEF Step
<1>2. PICK n \in 0..Len(down[g]) : \E mortal \in BOOLEAN, applied \in BOOLEAN : Step(n, mortal, applied)
  BY <1>1
<1>3. PICK mortal \in BOOLEAN : \E applied \in BOOLEAN : Step(n, mortal, applied)
  BY <1>2
<1>4. PICK applied \in BOOLEAN : Step(n, mortal, applied)
  BY <1>3
<1> DEFINE end == now(n, mortal)
<1>5. down[g] \in Seq(Said) /\ n \in Nat /\ n <= Len(down[g]) /\ Len(down[g]) \in Nat
  BY Facts, LenProperties
<1>6. got(n) \in Seq(Said) /\ Len(got(n)) = n
  <2>1. \A i \in 1..n : down[g][i] \in Said
    BY <1>5, ElementOfSeq
  <2>2. SubSeq(down[g], 1, n) \in Seq(Said) /\ Len(SubSeq(down[g], 1, n)) = IF 1 <= n THEN n - 1 + 1 ELSE 0
    BY <1>5, <2>1, SubSeqProperties
  <2> QED BY <1>5, <2>2
<1>7. end \in [view : Views, out : Seq(Sent)] /\ (n = 0 => end = start)
  <2>1. start \in [view : Views, out : Seq(Sent)]
    BY ViewFacts
  <2> HIDE DEF start, got
  <2> QED BY <1>6, <2>1, WatchedKeeps
<1>8. shown(n, mortal, applied) \in Views
  <2>1. edit(n) \in BOOLEAN
    BY ViewFacts DEF Views
  <2> HIDE DEF edit, now
  <2> QED BY <1>7, <2>1 DEF Views
<1>9. /\ down' = [down EXCEPT ![g] = SubSeq(down[g], n + 1, Len(down[g]))]
      /\ view' = [view EXCEPT ![g] = shown(n, mortal, applied)]
      /\ up' = [up EXCEPT ![g] = up[g] \o end.out]
      /\ UNCHANGED <<held, acts>>
  BY <1>4, Facts DEF Step
<1> HIDE DEF shown, end
<1>10. up[g] \o end.out \in Seq(Sent)
  BY <1>7, Facts, ConcatProperties
<1> DEFINE rest == SubSeq(down[g], n + 1, Len(down[g]))
<1>11. rest \in Seq(Said) /\ (Seated(g) => Truthful(rest, body[g]))
  <2>1. Seated(g) => Truthful(down[g], body[g])
    BY Facts DEF LastWordIsTrue, Truthful
  <2>2. rest \in Seq(Said)
    <3>1. \A i \in n + 1..Len(down[g]) : down[g][i] \in Said
      BY <1>5, ElementOfSeq
    <3>2. n + 1 \in Int /\ Len(down[g]) \in Int
      BY <1>5
    <3> QED BY <3>1, <3>2, SubSeqProperties
  <2> QED BY <1>5, <2>1, <2>2, TruthfulRest
<1> HIDE DEF rest
<1>12. up' \in [Guests -> Seq(Sent)] /\ view' \in [Guests -> Views] /\ down' \in [Guests -> Seq(Said)]
  BY <1>8, <1>9, <1>10, <1>11, Facts DEF rest
<1>13. \A x \in Guests : Seated(x) => Truthful(down'[x], body[x])
  BY <1>9, <1>11, Facts DEF LastWordIsTrue, Truthful, rest
<1>14. \A x \in Guests : ~Seated(x) => down'[x] = <<>> /\ up'[x] = <<>>
  <2> SUFFICES ASSUME NEW x \in Guests, ~Seated(x) PROVE down'[x] = <<>> /\ up'[x] = <<>>
    OBVIOUS
  <2>1. down[x] = <<>> /\ up[x] = <<>>
    BY Facts DEF AwayIsQuiet
  <2>2. CASE x = g
    <3>1. n = 0 /\ end.out = <<>>
      <4>1. n = 0
        BY <1>5, <2>1, <2>2
      <4> QED BY <1>7, <4>1
    <3>2. rest = <<>>
      BY <2>1, <2>2, <3>1, SubSeqEmpty DEF rest
    <3>3. up[g] \o end.out = <<>>
      BY <2>1, <2>2, <3>1
    <3> QED BY <1>9, <2>2, <3>2, <3>3, Facts DEF rest
  <2>3. CASE x # g
    BY <1>9, <2>1, <2>3, Facts
  <2> QED BY <2>2, <2>3
<1> QED BY <1>9, <1>12, <1>13, <1>14, Facts, Elsewhere

LEMMA RefreshKeeps ==
  ASSUME IInv, Refresh
  PROVE  IInv'
<1> DEFINE new(x) == IF Seated(x) /\ body[x].open THEN down[x] \o Contents(chest) ELSE down[x]
<1>1. down' = [x \in Guests |-> new(x)] /\ UNCHANGED <<held, up, view, acts>>
  BY DEF Refresh
<1>2. ASSUME NEW x \in Guests
      PROVE  new(x) \in Seq(Said) /\ (Seated(x) => Truthful(new(x), body[x]))
  <2>1. down[x] \in Seq(Said) /\ (Seated(x) => Truthful(down[x], body[x]))
    BY Facts DEF LastWordIsTrue, Truthful
  <2>2. Contents(chest) \in Seq(Said) /\ Truthful(Contents(chest), body[x])
    <3>1. CASE chest = None
      BY <3>1, TruthfulFew DEF Contents
    <3>2. CASE chest # None
      <4>1. Container(chest) \in Said /\ Container(chest).is # "state"
        BY <3>2, Facts, SaidKinds
      <4> QED BY <3>2, <4>1, TruthfulFew DEF Contents
    <3> QED BY <3>1, <3>2
  <2>3. Seated(x) => /\ down[x] \o Contents(chest) \in Seq(Said)
                     /\ Truthful(down[x] \o Contents(chest), body[x])
    BY <2>1, <2>2, TruthfulJoin
  <2> QED BY <2>1, <2>3
<1>3. \A x \in Guests : ~Seated(x) => new(x) = <<>> /\ up[x] = <<>>
  BY Facts DEF AwayIsQuiet
<1> HIDE DEF new
<1>4. down' \in [Guests -> Seq(Said)] /\ \A x \in Guests : down'[x] = new(x)
  BY <1>1, <1>2
<1> QED BY <1>1, <1>2, <1>3, <1>4, Facts, Elsewhere

LEMMA TickKeeps ==
  ASSUME IInv, Tick
  PROVE  IInv'
<1> DEFINE new(x) == IF Seated(x) THEN Append(down[x], PlayerState(body[x])) ELSE down[x]
<1>1. down' = [x \in Guests |-> new(x)] /\ UNCHANGED <<held, up, view, acts>>
  BY DEF Tick
<1>2. ASSUME NEW x \in Guests
      PROVE  new(x) \in Seq(Said) /\ (Seated(x) => Truthful(new(x), body[x]))
  <2>1. down[x] \in Seq(Said) /\ (Seated(x) => body[x] \in Bodies)
    BY Facts DEF Seated
  <2>2. Seated(x) => /\ Append(down[x], PlayerState(body[x])) \in Seq(Said)
                     /\ Truthful(Append(down[x], PlayerState(body[x])), body[x])
    BY <2>1, TruthfulState
  <2> QED BY <2>1, <2>2
<1>3. \A x \in Guests : ~Seated(x) => new(x) = <<>> /\ up[x] = <<>>
  BY Facts DEF AwayIsQuiet
<1> HIDE DEF new
<1>4. down' \in [Guests -> Seq(Said)] /\ \A x \in Guests : down'[x] = new(x)
  BY <1>1, <1>2
<1> QED BY <1>1, <1>2, <1>3, <1>4, Facts, Elsewhere

-----------------------------------------------------------------------------
(* What lies about, and guests that come and go. *)

LEMMA LyingKeeps ==
  ASSUME IInv, UNCHANGED <<profile, body, block, chest, edited, owed, lost, up, down, view, acts>>,
         fallen' \in Seq(Stack), loose' \in Seq(Stack), buried' \in [Kinds -> Nat],
         \A k \in Kinds : Sum(fallen', k) + Sum(loose', k) + buried'[k]
                            = Sum(fallen, k) + Sum(loose, k) + buried[k]
  PROVE  IInv'
<1>1. TypeOK /\ LastWordIsTrue /\ GoneIsEmpty /\ AwayIsQuiet /\ ItemsConserved
  BY DEF IInv, CustodyInv
<1>2. TypeOK'
  BY <1>1 DEF TypeOK
<1>3. LastWordIsTrue' /\ GoneIsEmpty' /\ AwayIsQuiet'
  BY <1>1 DEF LastWordIsTrue, IsLast, GoneIsEmpty, AwayIsQuiet, Seated
<1>4. ItemsConserved'
  <2> SUFFICES ASSUME NEW k \in Kinds PROVE (Total(k) + lost[k] = Supply(k))'
    BY DEF ItemsConserved
  <2> DEFINE r == Bearing(body, profile, k) + InChest(chest, k) + InBlock(block, k) + Owing(owed, k)
             f == Sum(fallen, k)
             f2 == Sum(fallen', k)
             l == Sum(loose, k)
             l2 == Sum(loose', k)
             n == buried[k]
             n2 == buried'[k]
  <2>1. f \in Nat /\ f2 \in Nat /\ l \in Nat /\ l2 \in Nat
    BY Facts, PlacesNat
  <2>2. n \in Nat /\ n2 \in Nat
    BY Facts
  <2>3. r \in Nat
    <3> DEFINE p == Bearing(body, profile, k)
               q == InChest(chest, k)
               s == InBlock(block, k)
               t == Owing(owed, k)
    <3>1. p \in Nat /\ q \in Nat /\ s \in Nat /\ t \in Nat
      BY Facts, PlacesNat, BearingNat
    <3> HIDE DEF p, q, s, t
    <3>2. p + q + s + t \in Nat
      BY <3>1
    <3> QED BY <3>2 DEF p, q, s, t
  <2>4. Total(k) = r + f + l + n /\ Total(k)' = r + f2 + l2 + n2
    BY DEF Total, Bearing
  <2>5. f2 + l2 + n2 = f + l + n
    OBVIOUS
  <2> HIDE DEF r, f, f2, l, l2, n, n2
  <2>6. Total(k)' = Total(k)
    BY <2>1, <2>2, <2>3, <2>4, <2>5
  <2>7. Supply(k)' = Supply(k) /\ lost' = lost /\ Total(k) + lost[k] = Supply(k)
    BY <1>1 DEF Supply, ItemsConserved
  <2> QED BY <2>6, <2>7
<1> QED BY <1>2, <1>3, <1>4 DEF IInv, CustodyInv

LEMMA SettleKeeps ==
  ASSUME IInv, Settle
  PROVE  IInv'
<1>1. /\ loose' = loose \o fallen /\ fallen' = <<>>
      /\ UNCHANGED <<profile, body, block, chest, edited, owed, buried, lost, up, down, view, acts>>
  BY DEF Settle
<1>2. fallen' \in Seq(Stack) /\ \A k \in Kinds : Sum(fallen', k) = 0
  BY <1>1, SumFew
<1>3. loose' \in Seq(Stack) /\ \A k \in Kinds : Sum(loose', k) = Sum(loose, k) + Sum(fallen, k)
  BY <1>1, Facts, StackSum, ConcatProperties
<1>4. ASSUME NEW k \in Kinds
      PROVE  Sum(fallen', k) + Sum(loose', k) + buried'[k] = Sum(fallen, k) + Sum(loose, k) + buried[k]
  <2> DEFINE f == Sum(fallen, k)
             l == Sum(loose, k)
             n == buried[k]
  <2>1. f \in Nat /\ l \in Nat /\ n \in Nat
    BY Facts, PlacesNat
  <2>2. Sum(fallen', k) = 0 /\ Sum(loose', k) = l + f /\ buried'[k] = n
    BY <1>1, <1>2, <1>3
  <2> HIDE DEF f, l, n
  <2>3. 0 + (l + f) + n = f + l + n
    BY <2>1
  <2> QED BY <2>2, <2>3 DEF f, l, n
<1> QED BY <1>1, <1>2, <1>3, <1>4, Facts, LyingKeeps

\* A stack that joins what is buried.
LEMMA BuryOne ==
  ASSUME NEW f \in [Kinds -> Nat], NEW s \in Stack, NEW n \in Nat
  PROVE  LET h == [f EXCEPT ![s.kind] = @ + n] IN
         h \in [Kinds -> Nat] /\ \A k \in Kinds : h[k] = f[k] + (IF k = s.kind THEN n ELSE 0)
BY StackSeq

LEMMA LoseKeeps ==
  ASSUME IInv, Lose
  PROVE  IInv'
<1>1. PICK i \in DOMAIN loose :
        /\ buried' = [buried EXCEPT ![loose[i].kind] = @ + loose[i].count]
        /\ loose' = RemoveAt(loose, i)
  BY DEF Lose
<1>2. UNCHANGED <<profile, body, block, chest, edited, owed, fallen, lost, up, down, view, acts>>
  BY DEF Lose
<1> DEFINE s == loose[i]
<1>3. loose \in Seq(Stack) /\ buried \in [Kinds -> Nat] /\ s \in Stack
  BY Facts, LenProperties
<1> HIDE DEF s
<1>4. s.kind \in Kinds /\ s.count \in Nat /\ s # None
  BY <1>3, StackSeq
<1>5. buried' \in [Kinds -> Nat] /\ \A k \in Kinds : buried'[k] = buried[k] + Held(s, k)
  <2>1. buried' = [buried EXCEPT ![s.kind] = @ + s.count]
    BY <1>1 DEF s
  <2> QED BY <1>3, <1>4, <2>1 DEF Held
<1>6. ASSUME NEW k \in Kinds
      PROVE  loose' \in Seq(Stack) /\ Sum(loose, k) = Sum(loose', k) + Held(s, k)
  BY <1>1, <1>3, StackRemoved DEF s
<1>7. loose' \in Seq(Stack)
  BY <1>4, <1>6
<1>8. ASSUME NEW k \in Kinds
      PROVE  Sum(fallen', k) + Sum(loose', k) + buried'[k] = Sum(fallen, k) + Sum(loose, k) + buried[k]
  <2> DEFINE f == Sum(fallen, k)
             l == Sum(loose, k)
             l2 == Sum(loose', k)
             n == buried[k]
             h == Held(s, k)
  <2>1. f \in Nat /\ l \in Nat /\ n \in Nat /\ l2 \in Nat
    BY <1>7, Facts, PlacesNat
  <2>2. h \in Nat
    BY <1>3, StackSeq, HeldNat
  <2>3. l = l2 + h /\ buried'[k] = n + h /\ Sum(fallen', k) = f
    BY <1>2, <1>5, <1>6
  <2> HIDE DEF f, l, l2, n, h
  <2>4. f + l2 + (n + h) = f + l + n
    BY <2>1, <2>2, <2>3
  <2> QED BY <2>3, <2>4 DEF f, l, l2, n
<1> QED BY <1>2, <1>5, <1>7, <1>8, Facts, LyingKeeps

\* What a profile keeps of a body, and what a body takes of a profile.
LEMMA StoredBody ==
  ASSUME NEW b \in Bodies
  PROVE  /\ Stored(b) \in Profiles
         /\ \A k \in Kinds : OnGuest(None, Stored(b), k) + Sum(b.grid, k) = OnBody(b, k)
<1>1. Stored(b) \in Profiles /\ Stored(b).pack = b.pack /\ Stored(b).cursor = b.cursor
  BY DEF Stored, Profiles, Bodies
<1>2. \A k \in Kinds : OnGuest(None, Stored(b), k) + Sum(b.grid, k) = OnBody(b, k)
  BY <1>1 DEF OnGuest, OnBody
<1> QED BY <1>1, <1>2

LEMMA CarriesProfile ==
  ASSUME NEW p \in Profiles
  PROVE  LET b == Carries(p, Empty(GridSize), FALSE, p.alive) IN
         b \in Bodies /\ \A k \in Kinds : OnBody(b, k) = OnGuest(None, p, k)
<1> DEFINE b == Carries(p, Empty(GridSize), FALSE, p.alive)
<1>1. Empty(GridSize) \in Row(GridSize) /\ \A k \in Kinds : Sum(Empty(GridSize), k) = 0
  BY Sizes, EmptyRow
<1>2. b \in Bodies /\ b.pack = p.pack /\ b.cursor = p.cursor /\ b.grid = Empty(GridSize)
  BY <1>1 DEF Carries, Bodies, Profiles
<1> HIDE DEF b
<1>3. ASSUME NEW k \in Kinds PROVE OnBody(b, k) = OnGuest(None, p, k)
  <2>1. Sum(p.pack, k) \in Nat /\ Held(p.cursor, k) \in Nat
    BY <1>2, OnBodyNat
  <2>2. OnBody(b, k) = Sum(p.pack, k) + Held(p.cursor, k) + 0
    BY <1>1, <1>2 DEF OnBody
  <2>3. OnGuest(None, p, k) = Sum(p.pack, k) + Held(p.cursor, k)
    BY DEF OnGuest
  <2> QED BY <2>1, <2>2, <2>3
<1> QED BY <1>2, <1>3 DEF b

LEMMA ShowsView ==
  ASSUME NEW kit, kit.pack \in Row(PackSize), kit.cursor \in Slot
  PROVE  Shows(kit) \in Views
<1>1. Empty(GridSize) \in Row(GridSize)
  BY Sizes, EmptyRow
<1> QED BY <1>1 DEF Shows, Views

LEMMA JoinKeeps ==
  ASSUME IInv, NEW g \in Guests, Join(g)
  PROVE  IInv'
<1> DEFINE b == Carries(profile[g], Empty(GridSize), FALSE, profile[g].alive)
           v == Shows(profile[g])
<1>1. /\ body[g] = None /\ body' = [body EXCEPT ![g] = b] /\ view' = [view EXCEPT ![g] = v]
      /\ UNCHANGED <<profile, block, chest, edited, owed, fallen, loose, buried, lost, up, down, acts>>
  BY DEF Join, Seated
<1>2. profile[g] \in Profiles
  BY Facts
<1>3. b \in Bodies /\ \A k \in Kinds : OnBody(b, k) = OnGuest(None, profile[g], k)
  BY <1>2, CarriesProfile
<1>4. v \in Views
  BY <1>2, ShowsView DEF Profiles
<1> HIDE DEF b, v
<1>5. TypeOK /\ LastWordIsTrue /\ GoneIsEmpty /\ AwayIsQuiet /\ ItemsConserved
  BY DEF IInv, CustodyInv
<1>6. /\ body' \in [Guests -> Bodies \cup {None}] /\ body'[g] = b /\ b # None
      /\ \A x \in Guests : x # g => body'[x] = body[x]
  BY <1>1, <1>3, Facts, Sizes
<1>7. view' \in [Guests -> Views]
  BY <1>1, <1>4, Facts
<1>8. TypeOK'
  BY <1>1, <1>5, <1>6, <1>7 DEF TypeOK
<1>9. down[g] = <<>>
  BY <1>1, <1>5 DEF AwayIsQuiet, Seated
<1>10. LastWordIsTrue'
  <2> SUFFICES ASSUME NEW x \in Guests, body'[x] # None PROVE Truthful(down[x], body'[x])
    BY <1>1 DEF LastWordIsTrue, Seated, Truthful
  <2>1. CASE x = g
    BY <1>9, <2>1, TruthfulFew
  <2>2. CASE x # g
    BY <1>5, <1>6, <2>2 DEF LastWordIsTrue, Seated, Truthful
  <2> QED BY <2>1, <2>2
<1>11. GoneIsEmpty'
  BY <1>1, <1>5 DEF GoneIsEmpty
<1>12. AwayIsQuiet'
  <2>1. \A x \in Guests : body'[x] = None => down[x] = <<>> /\ up[x] = <<>>
    BY <1>5, <1>6 DEF AwayIsQuiet, Seated
  <2>2. \A i \in DOMAIN owed : owed[i][1] # None => body'[owed[i][1]] # None
    <3> SUFFICES ASSUME NEW i \in DOMAIN owed, owed[i][1] # None PROVE body'[owed[i][1]] # None
      OBVIOUS
    <3>1. owed[i][1] \in Guests /\ body[owed[i][1]] # None
      BY <1>5, Facts DEF AwayIsQuiet, Seated, Owe
    <3> QED BY <1>6, <3>1
  <2> QED BY <1>1, <2>1, <2>2 DEF AwayIsQuiet, Seated
<1>13. ItemsConserved'
  <2> SUFFICES ASSUME NEW k \in Kinds PROVE (Total(k) + lost[k] = Supply(k))'
    BY DEF ItemsConserved
  <2> DEFINE B == Bearing(body, profile, k)
             B2 == Bearing(body', profile, k)
             r == OnGuest(None, profile[g], k)
  <2>1. B2 = B
    <3> DEFINE new == body'
    <3>1. new \in [Guests -> Bodies \cup {None}] /\ \A x \in Guests : x # g => new[x] = body[x]
      BY <1>6
    <3> HIDE DEF new
    <3>2. Bearing(new, profile, k) + OnGuest(body[g], profile[g], k)
            = Bearing(body, profile, k) + OnGuest(new[g], profile[g], k)
      BY <3>1, Facts, BearingPoint
    <3>3. OnGuest(body[g], profile[g], k) = r /\ OnGuest(new[g], profile[g], k) = r
      BY <1>1, <1>3, <1>6 DEF OnGuest, new
    <3>4. B \in Nat /\ Bearing(new, profile, k) \in Nat /\ r \in Nat
      BY <1>2, <3>1, Facts, BearingNat, OnGuestNat
    <3> HIDE DEF B, r
    <3>5. Bearing(new, profile, k) = B
      BY <3>2, <3>3, <3>4 DEF B
    <3> QED BY <3>5 DEF new
  <2>2. Total(k)' = Total(k)
    BY <1>1, <2>1 DEF Total, Bearing
  <2>3. Supply(k)' = Supply(k) /\ lost' = lost /\ Total(k) + lost[k] = Supply(k)
    BY <1>1, <1>5 DEF Supply, ItemsConserved
  <2> QED BY <2>2, <2>3
<1> QED BY <1>8, <1>10, <1>11, <1>12, <1>13 DEF IInv, CustodyInv

\* What was owed to a guest that leaves is owed to nobody, and is as much.
LEMMA OwedToNobody ==
  ASSUME NEW o \in Owe, NEW g \in Guests
  PROVE  LET p == [i \in DOMAIN o |-> IF o[i][1] = g THEN <<None, o[i][2]>> ELSE o[i]] IN
         /\ p \in Owe /\ DOMAIN p = DOMAIN o
         /\ \A i \in DOMAIN o : p[i][1] # g /\ (p[i][1] # None => p[i][1] = o[i][1])
         /\ \A k \in Kinds : Owing(p, k) = Owing(o, k)
<1> DEFINE p == [i \in DOMAIN o |-> IF o[i][1] = g THEN <<None, o[i][2]>> ELSE o[i]]
           E == (Guests \cup {None}) \X Stack
<1>1. Len(o) \in Nat /\ DOMAIN o = 1..Len(o) /\ \A i \in 1..Len(o) : o[i] \in E
  BY LenProperties DEF Owe
<1>2. g # None
  BY Sizes
<1>3. \A i \in 1..Len(o) : /\ p[i] \in E /\ p[i][2] = o[i][2] /\ p[i][1] # g
                           /\ (p[i][1] # None => p[i][1] = o[i][1])
  BY <1>1, <1>2
<1>4. p \in [1..Len(o) -> E]
  BY <1>1, <1>3
<1>5. \A z \in Nat : \A h \in [1..z -> E] : h \in Seq(E) /\ Len(h) = z
  OBVIOUS
<1> HIDE DEF p
<1>6. p \in Owe
  BY <1>1, <1>4, <1>5 DEF Owe
<1>7. ASSUME NEW k \in Kinds PROVE Owing(p, k) = Owing(o, k)
  <2> DEFINE rowO == [i \in DOMAIN o |-> o[i][2]]
             rowP == [i \in DOMAIN p |-> p[i][2]]
  <2>1. rowP = rowO
    BY <1>1, <1>3, <1>4
  <2>2. Owing(o, k) = Sum(rowO, k) /\ Owing(p, k) = Sum(rowP, k)
    BY DEF Owing
  <2> HIDE DEF rowO, rowP
  <2> QED BY <2>1, <2>2
<1> QED BY <1>1, <1>3, <1>4, <1>6, <1>7 DEF p

LEMMA LeaveKeeps ==
  ASSUME IInv, NEW g \in Guests, Leave(g)
  PROVE  IInv'
<1> DEFINE b == body[g]
           p == Stored(b)
           v == Shows(b)
           o == [i \in DOMAIN owed |-> IF owed[i][1] = g THEN <<None, owed[i][2]>> ELSE owed[i]]
<1>1. /\ b # None /\ acts > 0 /\ acts' = acts - 1
      /\ profile' = [profile EXCEPT ![g] = p] /\ body' = [body EXCEPT ![g] = None]
      /\ view' = [view EXCEPT ![g] = v]
      /\ lost' = [k \in Kinds |-> lost[k] + Sum(b.grid, k)]
      /\ owed' = o
      /\ up' = [up EXCEPT ![g] = <<>>] /\ down' = [down EXCEPT ![g] = <<>>]
      /\ UNCHANGED <<block, chest, edited, fallen, loose, buried>>
  BY DEF Leave, Seated
<1>2. b \in Bodies
  BY <1>1, Facts
<1>3. p \in Profiles /\ \A k \in Kinds : OnGuest(None, p, k) + Sum(b.grid, k) = OnBody(b, k)
  BY <1>2, StoredBody
<1>4. v \in Views
  BY <1>2, ShowsView DEF Bodies
<1>5. /\ o \in Owe /\ DOMAIN o = DOMAIN owed
      /\ \A i \in DOMAIN owed : o[i][1] # g /\ (o[i][1] # None => o[i][1] = owed[i][1])
      /\ \A k \in Kinds : Owing(o, k) = Owing(owed, k)
  BY Facts, OwedToNobody
<1> HIDE DEF b, p, v, o
<1>6. TypeOK /\ LastWordIsTrue /\ GoneIsEmpty /\ AwayIsQuiet /\ ItemsConserved
  BY DEF IInv, CustodyInv
<1>7. /\ body' \in [Guests -> Bodies \cup {None}] /\ body'[g] = None
      /\ \A x \in Guests : x # g => body'[x] = body[x]
  BY <1>1, Facts
<1>8. /\ profile' \in [Guests -> Profiles] /\ profile'[g] = p
      /\ \A x \in Guests : x # g => profile'[x] = profile[x]
  BY <1>1, <1>3, Facts
<1>9. lost' \in [Kinds -> Nat] /\ \A k \in Kinds : lost'[k] = lost[k] + Sum(b.grid, k)
  <2>1. \A k \in Kinds : lost[k] \in Nat /\ Sum(b.grid, k) \in Nat
    BY <1>2, Facts, OnBodyNat
  <2> QED BY <1>1, <2>1
<1>10. /\ up' \in [Guests -> Seq(Sent)] /\ down' \in [Guests -> Seq(Said)]
       /\ up'[g] = <<>> /\ down'[g] = <<>>
       /\ \A x \in Guests : x # g => up'[x] = up[x] /\ down'[x] = down[x]
  BY <1>1, Facts
<1>11. acts' \in 0..MaxActs /\ view' \in [Guests -> Views]
  BY <1>1, <1>4, Facts, CustodyAssumption
<1>12. TypeOK'
  BY <1>1, <1>5, <1>6, <1>7, <1>8, <1>9, <1>10, <1>11 DEF TypeOK, Owe
<1>13. LastWordIsTrue' /\ GoneIsEmpty'
  BY <1>1, <1>6, <1>7, <1>10 DEF LastWordIsTrue, GoneIsEmpty, Seated, IsLast
<1>14. AwayIsQuiet'
  <2>1. \A x \in Guests : body'[x] = None => down'[x] = <<>> /\ up'[x] = <<>>
    BY <1>6, <1>7, <1>10 DEF AwayIsQuiet, Seated
  <2>2. \A i \in DOMAIN o : o[i][1] # None => body'[o[i][1]] # None
    <3> SUFFICES ASSUME NEW i \in DOMAIN owed, o[i][1] # None PROVE body'[o[i][1]] # None
      BY <1>5
    <3>1. o[i][1] = owed[i][1] /\ o[i][1] # g
      BY <1>5
    <3>2. owed[i][1] \in Guests /\ body[owed[i][1]] # None
      BY <1>6, <3>1, Facts DEF AwayIsQuiet, Seated, Owe
    <3> QED BY <1>7, <3>1, <3>2
  <2> QED BY <1>1, <2>1, <2>2 DEF AwayIsQuiet, Seated
<1>15. ItemsConserved'
  <2> SUFFICES ASSUME NEW k \in Kinds PROVE (Total(k) + lost[k] = Supply(k))'
    BY DEF ItemsConserved
  <2> DEFINE new == body'
             stored == profile'
             B == Bearing(body, profile, k)
             B2 == Bearing(new, stored, k)
             d == Sum(b.grid, k)
             c == InChest(chest, k)
             s == InBlock(block, k)
             w == Owing(owed, k)
             f == Sum(fallen, k)
             l == Sum(loose, k)
             n == buried[k]
  <2>1. /\ new \in [Guests -> Bodies \cup {None}] /\ stored \in [Guests -> Profiles]
        /\ \A x \in Guests : x # g => new[x] = body[x] /\ stored[x] = profile[x]
        /\ new[g] = None /\ stored[g] = p
    BY <1>7, <1>8
  <2>2. Total(k)' = B2 + c + s + w + f + l + n /\ Total(k) = B + c + s + w + f + l + n
    BY <1>1, <1>5 DEF Total, Bearing
  <2> HIDE DEF new, stored
  <2>3. B2 + OnGuest(body[g], profile[g], k) = B + OnGuest(new[g], stored[g], k)
    <3>1. body \in [Guests -> Bodies \cup {None}] /\ profile \in [Guests -> Profiles]
      BY Facts
    <3>2. Bearing(new, stored, k) + OnGuest(body[g], profile[g], k)
            = Bearing(body, profile, k) + OnGuest(new[g], stored[g], k)
      BY <2>1, <3>1, BearingPoint
    <3> QED BY <3>2
  <2>4. OnGuest(body[g], profile[g], k) = OnBody(b, k) /\ OnGuest(new[g], stored[g], k) = OnGuest(None, p, k)
    BY <1>1, <2>1 DEF OnGuest, b
  <2>5. OnGuest(None, p, k) \in Nat /\ OnBody(b, k) \in Nat /\ d \in Nat
        /\ OnGuest(None, p, k) + d = OnBody(b, k)
    BY <1>2, <1>3, OnGuestNat, OnBodyNat
  <2>6. B \in Nat /\ B2 \in Nat
    BY <2>1, Facts, BearingNat
  <2>7. c \in Nat /\ s \in Nat /\ w \in Nat /\ f \in Nat /\ l \in Nat /\ n \in Nat
    BY Facts, PlacesNat
  <2>8. lost'[k] = lost[k] + d /\ lost[k] \in Nat /\ Supply(k)' = Supply(k) /\ Total(k) + lost[k] = Supply(k)
    BY <1>6, <1>9, Facts DEF Supply, ItemsConserved
  <2> DEFINE x == OnGuest(None, p, k)
             y == OnBody(b, k)
             z == lost[k]
  <2>9. B2 + y = B + x /\ x \in Nat /\ y \in Nat /\ x + d = y
    BY <2>3, <2>4, <2>5
  <2>10. z \in Nat /\ d \in Nat
    BY <2>5, <2>8
  <2> HIDE DEF B, B2, d, c, s, w, f, l, n, x, y, z
  <2>11. B2 + d = B
    BY <2>6, <2>9, <2>10
  <2>12. (B2 + c + s + w + f + l + n) + (z + d) = (B + c + s + w + f + l + n) + z
    BY <2>6, <2>7, <2>10, <2>11
  <2> QED BY <2>2, <2>8, <2>12 DEF z
<1> QED BY <1>12, <1>13, <1>14, <1>15 DEF IInv, CustodyInv

-----------------------------------------------------------------------------
(* Deliveries. *)

LEMMA SumSteps ==
  ASSUME NEW row \in Seq(Slot), NEW k \in Kinds
  PROVE  \E t \in [0..Len(row) -> Nat] :
           /\ t[0] = 0 /\ Sum(row, k) = t[Len(row)]
           /\ \A n \in 1..Len(row) : t[n] = t[n - 1] + Held(row[n], k)
<1> DEFINE numbers == [i \in DOMAIN row |-> Held(row[i], k)]
<1>1. /\ numbers \in Seq(Nat) /\ Len(numbers) = Len(row) /\ Sum(row, k) = Tally(numbers)
      /\ \A i \in 1..Len(row) : numbers[i] = Held(row[i], k)
  BY SumRow
<1> HIDE DEF numbers
<1>2. PICK t \in [0..Len(numbers) -> Nat] :
        /\ t[0] = 0 /\ Tally(numbers) = t[Len(numbers)]
        /\ \A n \in 1..Len(numbers) : t[n] = t[n - 1] + numbers[n]
  BY <1>1, TallySteps
<1>3. /\ t \in [0..Len(row) -> Nat] /\ t[0] = 0 /\ Sum(row, k) = t[Len(row)]
      /\ \A n \in 1..Len(row) : t[n] = t[n - 1] + Held(row[n], k)
  BY <1>1, <1>2
<1> QED BY <1>3

\* What is left of a stack is a slot.
LEMMA SomeSlot ==
  ASSUME NEW s \in Stack, NEW n \in 0..s.count
  PROVE  Some(s.kind, n) \in Slot /\ \A k \in Kinds : Held(Some(s.kind, n), k) = Over(s, n, k)
<1>1. s.kind \in Kinds /\ s.count \in Nat /\ s.count <= MaxStack[s.kind] /\ MaxStack[s.kind] \in Nat
  BY StacksAssumption DEF Stack
<1>2. CASE n = 0
  BY <1>2 DEF Some, Slot, Held, Over
<1>3. CASE n # 0
  <2> DEFINE x == [kind |-> s.kind, count |-> n]
  <2>1. n \in Nat \ {0} /\ n <= MaxStack[s.kind]
    BY <1>1, <1>3
  <2>2. x \in Stack /\ x.kind = s.kind /\ x.count = n /\ Some(s.kind, n) = x
    BY <1>1, <1>3, <2>1 DEF Stack, Some
  <2> HIDE DEF x
  <2> QED BY <2>2, StackSeq DEF Slot, Held, Over
<1> QED BY <1>2, <1>3

\* One delivery into a pack.
LEMMA IntoKeeps ==
  ASSUME NEW b \in Bodies, NEW s \in Stack
  PROVE  LET r == Into(b, s) IN
         /\ r.guest \in Bodies /\ r.left \in 0..s.count
         /\ r.left = s.count => r.guest = b
         /\ \A k \in Kinds : OnBody(r.guest, k) + Over(s, r.left, k) = OnBody(b, k) + Held(s, k)
<1> DEFINE a == AddStack(b.pack, s)
           now == [b EXCEPT !.pack = a.slots]
<1>1. b.pack \in Row(PackSize)
  BY DEF Bodies
<1>2. a.slots \in Row(PackSize)
  BY <1>1, Sizes, AddStackConserves
<1>3. a.left \in 0..s.count
  BY <1>1, Sizes, AddStackConserves
<1>4. a.left = s.count => a.slots = b.pack
  BY <1>1, Sizes, AddStackConserves
<1>5. \A k \in Kinds : Sum(a.slots, k) + Over(s, a.left, k) = Sum(b.pack, k) + Held(s, k)
  BY <1>1, Sizes, AddStackConserves
<1>6. Into(b, s) = [guest |-> now, left |-> a.left]
  BY DEF Into
<1> HIDE DEF a
<1>7. now \in Bodies /\ now.pack = a.slots /\ now.cursor = b.cursor /\ now.grid = b.grid
  BY <1>2 DEF Bodies
<1>8. a.left = s.count => now = b
  BY <1>4 DEF Bodies
<1> HIDE DEF now
<1>9. ASSUME NEW k \in Kinds
      PROVE  OnBody(now, k) + Over(s, a.left, k) = OnBody(b, k) + Held(s, k)
  <2> DEFINE p == Sum(b.pack, k)
             r == Sum(a.slots, k)
             u == Held(b.cursor, k)
             q == Sum(b.grid, k)
             v == Over(s, a.left, k)
             h == Held(s, k)
  <2>1. p \in Nat /\ u \in Nat /\ q \in Nat
    BY OnBodyNat
  <2>2. r \in Nat
    BY <1>2, Sizes, RowSum
  <2>3. v \in Nat /\ h \in Nat
    <3>1. s \in Slot
      BY StackSeq
    <3> QED BY <1>3, <3>1, HeldNat, StackSeq DEF Over
  <2>4. r + v = p + h
    BY <1>5
  <2>5. OnBody(now, k) = (r + u) + q /\ OnBody(b, k) = (p + u) + q
    BY <1>7 DEF OnBody
  <2> HIDE DEF p, r, u, q, v, h
  <2>6. ((r + u) + q) + v = ((p + u) + q) + h
    BY <2>1, <2>2, <2>3, <2>4
  <2> QED BY <2>5, <2>6 DEF v, h
<1> QED BY <1>3, <1>6, <1>7, <1>8, <1>9

\* What a delivery of what is owed works on, and what must hold of it all along.
Delivery == [body : [Guests -> Bodies \cup {None}], down : [Guests -> Seq(Said)],
             buried : [Kinds -> Nat], lost : [Kinds -> Nat]]
Fair(x) == \A g \in Guests :
  /\ Seated(g) => x.body[g] # None /\ Truthful(x.down[g], x.body[g])
  /\ ~Seated(g) => x.body[g] = None /\ x.down[g] = <<>>
Gathered(x, k) == Bearing(x.body, profile, k) + x.buried[k] + x.lost[k]

LEMMA GivenKeeps ==
  ASSUME profile \in [Guests -> Profiles], NEW x \in Delivery, Fair(x),
         NEW give \in (Guests \cup {None}) \X Stack, give[1] # None => Seated(give[1])
  PROVE  LET y == Given(x, give) IN
         /\ y \in Delivery /\ Fair(y)
         /\ \A k \in Kinds : Gathered(y, k) = Gathered(x, k) + Held(give[2], k)
<1> DEFINE g == give[1]
           s == give[2]
           y == Given(x, give)
<1>1. g \in Guests \cup {None} /\ s \in Stack
  OBVIOUS
<1>2. s.kind \in Kinds /\ s.count \in Nat /\ s # None /\ \A k \in Kinds : Held(s, k) \in Nat
  BY <1>1, StackSeq, HeldNat
<1>3. /\ x.body \in [Guests -> Bodies \cup {None}] /\ x.down \in [Guests -> Seq(Said)]
      /\ x.buried \in [Kinds -> Nat] /\ x.lost \in [Kinds -> Nat]
  BY DEF Delivery
<1>4. \A k \in Kinds : Bearing(x.body, profile, k) \in Nat
  BY <1>3, BearingNat
<1>5. CASE g = None
  <2> DEFINE gone == [x.lost EXCEPT ![s.kind] = @ + s.count]
  <2>1. y = [x EXCEPT !.lost = gone]
    BY <1>3, <1>5 DEF Given, Delivery
  <2> HIDE DEF y, g, s
  <2>2. gone \in [Kinds -> Nat] /\ \A k \in Kinds : gone[k] = x.lost[k] + Held(s, k)
    BY <1>2, <1>3 DEF Held
  <2> HIDE DEF gone
  <2>3. y \in Delivery /\ y.body = x.body /\ y.down = x.down /\ y.buried = x.buried /\ y.lost = gone
    BY <1>3, <2>1, <2>2 DEF Delivery
  <2>4. Fair(y)
    BY <2>3 DEF Fair
  <2>5. ASSUME NEW k \in Kinds PROVE Gathered(y, k) = Gathered(x, k) + Held(s, k)
    <3> DEFINE B == Bearing(x.body, profile, k)
               n == x.buried[k]
               l == x.lost[k]
               h == Held(s, k)
    <3>1. B \in Nat /\ n \in Nat /\ l \in Nat /\ h \in Nat
      BY <1>2, <1>3, <1>4
    <3>2. Gathered(y, k) = B + n + (l + h) /\ Gathered(x, k) = B + n + l
      BY <2>2, <2>3 DEF Gathered
    <3> HIDE DEF B, n, l, h
    <3> QED BY <3>1, <3>2 DEF h
  <2> QED BY <2>3, <2>4, <2>5 DEF y, s
<1>6. CASE g # None
  <2> DEFINE r == Into(x.body[g], s)
             bod == [x.body EXCEPT ![g] = r.guest]
             told == [x.down EXCEPT ![g] = Append(@, PlayerState(r.guest))]
             deep == [x.buried EXCEPT ![s.kind] = @ + r.left]
  <2>1. g \in Guests /\ Seated(g) /\ x.body[g] \in Bodies
    BY <1>1, <1>3, <1>6 DEF Fair
  <2>2. y = [x EXCEPT !.body = bod, !.down = told, !.buried = deep]
    BY <1>3, <1>6 DEF Given, Delivery
  <2> HIDE DEF y, g, s
  <2>3. r.guest \in Bodies
    BY <1>1, <2>1, IntoKeeps
  <2>4. r.left \in 0..s.count
    BY <1>1, <2>1, IntoKeeps
  <2>5. \A k \in Kinds : OnBody(r.guest, k) + Over(s, r.left, k) = OnBody(x.body[g], k) + Held(s, k)
    BY <1>1, <2>1, IntoKeeps
  <2> HIDE DEF r
  <2>6. /\ bod \in [Guests -> Bodies \cup {None}] /\ bod[g] = r.guest
        /\ \A z \in Guests : z # g => bod[z] = x.body[z]
    BY <1>3, <2>1, <2>3
  <2>7. /\ Append(x.down[g], PlayerState(r.guest)) \in Seq(Said)
        /\ Truthful(Append(x.down[g], PlayerState(r.guest)), r.guest)
    <3> DEFINE said == x.down[g]
               to == r.guest
    <3>1. said \in Seq(Said) /\ to \in Bodies
      BY <1>3, <2>1, <2>3
    <3> HIDE DEF said, to
    <3>2. said \o <<PlayerState(to)>> \in Seq(Said) /\ Truthful(said \o <<PlayerState(to)>>, to)
      BY <3>1, TruthfulState
    <3>3. Append(said, PlayerState(to)) = said \o <<PlayerState(to)>>
      BY <3>1, TruthfulState
    <3> QED BY <3>2, <3>3 DEF said, to
  <2>8. /\ told \in [Guests -> Seq(Said)] /\ Truthful(told[g], r.guest)
        /\ \A z \in Guests : z # g => told[z] = x.down[z]
    BY <1>3, <2>1, <2>7
  <2>9. deep \in [Kinds -> Nat] /\ \A k \in Kinds : deep[k] = x.buried[k] + Over(s, r.left, k)
    BY <1>2, <1>3, <2>4 DEF Over
  <2> HIDE DEF bod, told, deep
  <2>10. y \in Delivery /\ y.body = bod /\ y.down = told /\ y.buried = deep /\ y.lost = x.lost
    BY <1>3, <2>2, <2>6, <2>8, <2>9 DEF Delivery
  <2>11. Fair(y)
    <3>1. r.guest # None
      BY <2>3, Sizes
    <3> SUFFICES ASSUME NEW z \in Guests
                 PROVE  /\ Seated(z) => bod[z] # None /\ Truthful(told[z], bod[z])
                        /\ ~Seated(z) => bod[z] = None /\ told[z] = <<>>
      BY <2>10 DEF Fair
    <3>2. CASE z = g
      BY <2>1, <2>6, <2>8, <3>1, <3>2
    <3>3. CASE z # g
      BY <2>6, <2>8, <3>3 DEF Fair
    <3> QED BY <3>2, <3>3
  <2>12. ASSUME NEW k \in Kinds PROVE Gathered(y, k) = Gathered(x, k) + Held(s, k)
    <3> DEFINE B == Bearing(x.body, profile, k)
               B2 == Bearing(bod, profile, k)
               p == OnBody(x.body[g], k)
               q == OnBody(r.guest, k)
               v == Over(s, r.left, k)
               n == x.buried[k]
               l == x.lost[k]
               h == Held(s, k)
    <3>1. B2 + OnGuest(x.body[g], profile[g], k) = B + OnGuest(bod[g], profile[g], k)
      <4>1. \A z \in Guests : z # g => bod[z] = x.body[z] /\ profile[z] = profile[z]
        BY <2>6
      <4>2. Bearing(bod, profile, k) + OnGuest(x.body[g], profile[g], k)
              = Bearing(x.body, profile, k) + OnGuest(bod[g], profile[g], k)
        BY <1>3, <2>1, <2>6, <4>1, BearingPoint
      <4> QED BY <4>2
    <3>2. OnGuest(x.body[g], profile[g], k) = p /\ OnGuest(bod[g], profile[g], k) = q
      BY <2>1, <2>3, <2>6, Sizes DEF OnGuest
    <3>3. B \in Nat /\ B2 \in Nat
      BY <1>4, <2>6, BearingNat
    <3>4. p \in Nat /\ q \in Nat
      BY <2>1, <2>3, OnBodyNat
    <3>5. v \in Nat /\ n \in Nat /\ l \in Nat /\ h \in Nat
      BY <1>2, <1>3, <2>4 DEF Over
    <3>6. q + v = p + h
      BY <2>5
    <3>7. Gathered(y, k) = B2 + (n + v) + l /\ Gathered(x, k) = B + n + l
      BY <2>9, <2>10 DEF Gathered
    <3> HIDE DEF B, B2, p, q, v, n, l, h
    <3>8. B2 + p = B + q
      BY <3>1, <3>2
    <3>9. B2 + (n + v) + l = (B + n + l) + h
      BY <3>3, <3>4, <3>5, <3>6, <3>8
    <3> QED BY <3>7, <3>9 DEF h
  <2> QED BY <2>10, <2>11, <2>12 DEF y, s
<1> QED BY <1>5, <1>6

\* The deliveries, one after another.
LEMMA GivesRuns ==
  ASSUME profile \in [Guests -> Profiles], NEW start \in Delivery, Fair(start), NEW due \in Owe,
         \A i \in DOMAIN due : due[i][1] # None => Seated(due[i][1])
  PROVE  \E f \in [0..Len(due) -> {x \in Delivery : Fair(x)}] :
           /\ f[0] = start /\ Gives(due, start) = f[Len(due)]
           /\ \A n \in 1..Len(due) : f[n] = Given(f[n - 1], due[n])
<1> DEFINE X == {x \in Delivery : Fair(x)}
           N == Len(due)
           Op(n, x) == Given(x, due[n])
           Body(f) == [n \in 0..N |-> IF n = 0 THEN start ELSE Op(n, f[n - 1])]
           upTo == CHOOSE f : f = Body(f)
           step == [n \in 1..N |-> [x \in X |-> Op(n, x)]]
<1>1. N \in Nat /\ DOMAIN due = 1..N /\ \A n \in 1..N : due[n] \in (Guests \cup {None}) \X Stack
  BY LenProperties, ElementOfSeq DEF Owe
<1>2. Gives(due, start) = upTo[N]
  BY DEF Gives
<1>0. \A n \in 1..N, x \in X : Op(n, x) \in X
  <2> SUFFICES ASSUME NEW n \in 1..N, NEW x \in X PROVE Op(n, x) \in X
    OBVIOUS
  <2> DEFINE give == due[n]
  <2>1. give \in (Guests \cup {None}) \X Stack /\ (give[1] # None => Seated(give[1]))
    BY <1>1 DEF Owe
  <2> HIDE DEF give
  <2>2. Given(x, give) \in Delivery
    BY <2>1, GivenKeeps
  <2>3. Fair(Given(x, give))
    BY <2>1, GivenKeeps
  <2> QED BY <2>2, <2>3 DEF give
<1>9. start \in X
  OBVIOUS
<1> HIDE DEF N, X, Op
<1>3. step \in Steps(N, X) /\ \A n \in 1..N, x \in X : step[n][x] = Op(n, x)
  BY <1>0 DEF Steps
<1> HIDE DEF step
<1>4. PICK f : Runs(f, N, X, start, step)
  BY <1>1, <1>3, <1>9, Recursion
<1>5. f = Body(f)
  <2>1. \A n \in 1..N : f[n - 1] \in X
    BY <1>1, <1>4 DEF Runs
  <2>2. \A n \in 0..N : f[n] = IF n = 0 THEN start ELSE Op(n, f[n - 1])
    BY <1>1, <1>3, <1>4, <2>1 DEF Runs
  <2> QED BY <1>4, <2>2 DEF Runs
<1>6. upTo = Body(upTo)
  <2> HIDE DEF Body
  <2> QED BY <1>5
<1> HIDE DEF upTo
<1>7. upTo[0] = start /\ \A n \in 1..N : upTo[n] = Op(n, upTo[n - 1])
  <2>1. \A n \in 0..N : upTo[n] = IF n = 0 THEN start ELSE Op(n, upTo[n - 1])
    BY <1>6
  <2> QED BY <1>1, <2>1
<1>8. \A n \in 0..N : upTo[n] \in X
  <2> DEFINE good == {n \in 0..N : upTo[n] \in X}
  <2>1. 0 \in good
    BY <1>1, <1>7, <1>9
  <2>2. \A n \in 1..N : n - 1 \in good => n \in good
    <3> SUFFICES ASSUME NEW n \in 1..N, upTo[n - 1] \in X PROVE upTo[n] \in X
      BY <1>1
    <3> QED BY <1>0, <1>7
  <2>3. \A n \in 0..N : n \in good
    <3> HIDE DEF good
    <3> QED BY <1>1, <2>1, <2>2, Climb
  <2> QED BY <2>3
<1>10. upTo \in [0..N -> X]
  <2>1. Body(upTo) = [n \in 0..N |-> Body(upTo)[n]]
    OBVIOUS
  <2> HIDE DEF Body
  <2> QED BY <1>6, <1>8, <2>1
<1> QED BY <1>2, <1>7, <1>8, <1>10, <1>9 DEF N, Op, X

\* All that is owed goes to whom it is owed, into the ground or away.
LEMMA GivesKeeps ==
  ASSUME profile \in [Guests -> Profiles], NEW start \in Delivery, Fair(start), NEW due \in Owe,
         \A i \in DOMAIN due : due[i][1] # None => Seated(due[i][1])
  PROVE  LET y == Gives(due, start) IN
         /\ y \in Delivery /\ Fair(y)
         /\ \A k \in Kinds : Gathered(y, k) = Gathered(start, k) + Owing(due, k)
<1> DEFINE N == Len(due)
           X == {x \in Delivery : Fair(x)}
<1>1. N \in Nat /\ DOMAIN due = 1..N /\ \A n \in 1..N : due[n] \in (Guests \cup {None}) \X Stack
  BY LenProperties, ElementOfSeq DEF Owe
<1>4. PICK f \in [0..N -> X] :
        /\ f[0] = start /\ Gives(due, start) = f[N]
        /\ \A n \in 1..N : f[n] = Given(f[n - 1], due[n])
  BY GivesRuns
<1>6. f[N] \in Delivery /\ Fair(f[N])
  BY <1>1, <1>4 DEF X
<1>7. ASSUME NEW k \in Kinds PROVE Gathered(f[N], k) = Gathered(start, k) + Owing(due, k)
  <2> DEFINE row == [i \in DOMAIN due |-> due[i][2]]
  <2>1. row \in Seq(Stack) /\ Len(row) = Len(due) /\ \A i \in 1..Len(due) : row[i] = due[i][2]
    BY OwingRow
  <2>2. Owing(due, k) = Sum(row, k)
    BY DEF Owing
  <2> HIDE DEF row
  <2>3. row \in Seq(Slot) /\ Len(row) = N
    BY <2>1, StackSeq
  <2>4. \E t \in [0..Len(row) -> Nat] :
          /\ t[0] = 0 /\ Sum(row, k) = t[Len(row)]
          /\ \A n \in 1..Len(row) : t[n] = t[n - 1] + Held(row[n], k)
    BY <2>3, SumSteps
  <2>5. PICK t \in [0..N -> Nat] :
          /\ t[0] = 0 /\ Sum(row, k) = t[N]
          /\ \A n \in 1..N : t[n] = t[n - 1] + Held(row[n], k)
    BY <2>3, <2>4
  <2> DEFINE sofar == [n \in 0..N |-> Gathered(f[n], k)]
             good == {n \in 0..N : sofar[n] = sofar[0] + t[n]}
  <2>6. \A n \in 0..N : sofar[n] \in Nat
    <3> SUFFICES ASSUME NEW n \in 0..N PROVE Gathered(f[n], k) \in Nat
      OBVIOUS
    <3> DEFINE x == f[n]
               B == Bearing(x.body, profile, k)
    <3>1. x \in Delivery
      BY <1>4 DEF X
    <3> HIDE DEF x
    <3>2. x.body \in [Guests -> Bodies \cup {None}] /\ x.buried[k] \in Nat /\ x.lost[k] \in Nat
      BY <3>1 DEF Delivery
    <3>3. B \in Nat
      BY <3>2, BearingNat
    <3>4. Gathered(x, k) = B + x.buried[k] + x.lost[k]
      BY DEF Gathered
    <3> HIDE DEF B
    <3>5. Gathered(x, k) \in Nat
      BY <3>2, <3>3, <3>4
    <3> QED BY <3>5 DEF x
  <2>7. \A n \in 1..N : sofar[n] = sofar[n - 1] + Held(row[n], k)
    <3> SUFFICES ASSUME NEW n \in 1..N PROVE Gathered(f[n], k) = Gathered(f[n - 1], k) + Held(row[n], k)
      BY <1>1
    <3> DEFINE x == f[n - 1]
               give == due[n]
    <3>1. n - 1 \in 0..N
      BY <1>1
    <3>2. x \in Delivery /\ Fair(x)
      BY <1>4, <3>1 DEF X
    <3>3. give \in (Guests \cup {None}) \X Stack /\ (give[1] # None => Seated(give[1])) /\ row[n] = give[2]
      BY <1>1, <2>1
    <3>4. f[n] = Given(x, give)
      BY <1>4
    <3> HIDE DEF x, give
    <3>5. Gathered(Given(x, give), k) = Gathered(x, k) + Held(give[2], k)
      BY <3>2, <3>3, GivenKeeps
    <3> QED BY <3>3, <3>4, <3>5 DEF x
  <2>8. \A n \in 1..N : Held(row[n], k) \in Nat
    <3>1. \A n \in 1..N : row[n] \in Slot
      BY <2>3, ElementOfSeq
    <3> QED BY <3>1, HeldNat
  <2> HIDE DEF sofar
  <2>9. 0 \in good
    BY <1>1, <2>5, <2>6
  <2>10. \A n \in 1..N : n - 1 \in good => n \in good
    <3> SUFFICES ASSUME NEW n \in 1..N, n - 1 \in good PROVE n \in good
      OBVIOUS
    <3> DEFINE a == sofar[n - 1]
               b == t[n - 1]
               h == Held(row[n], k)
               z == sofar[0]
    <3>1. n - 1 \in 0..N /\ 0 \in 0..N
      BY <1>1
    <3>2. a \in Nat /\ b \in Nat /\ h \in Nat /\ z \in Nat
      BY <2>5, <2>6, <2>8, <3>1
    <3>3. sofar[n] = a + h /\ t[n] = b + h /\ a = z + b
      BY <2>5, <2>7
    <3> HIDE DEF a, b, h, z
    <3>4. a + h = z + (b + h)
      BY <3>2, <3>3
    <3> QED BY <3>3, <3>4 DEF z
  <2>11. \A n \in 0..N : n \in good
    <3> HIDE DEF good
    <3> QED BY <1>1, <2>9, <2>10, Climb
  <2>12. sofar[N] = sofar[0] + t[N]
    BY <1>1, <2>11
  <2>13. sofar[N] = Gathered(f[N], k) /\ sofar[0] = Gathered(start, k)
    BY <1>1, <1>4 DEF sofar
  <2> QED BY <2>2, <2>5, <2>12, <2>13
<1> QED BY <1>4, <1>6, <1>7

\* What picking up works on, and how the bodies may differ from those there were before.
Pickup == [body : [Guests -> Bodies \cup {None}], loose : Seq(Stack), glad : SUBSET Guests]
Taken(x, bod) == \A g \in Guests :
  /\ (x.body[g] = None) <=> (bod[g] = None)
  /\ g \notin x.glad => x.body[g] = bod[g]
  /\ g \in x.glad => bod[g] # None
Lying(x, k) == Bearing(x.body, profile, k) + Sum(x.loose, k)

LEMMA PickedKeeps ==
  ASSUME profile \in [Guests -> Profiles], loose \in Seq(Stack),
         NEW near \in [DOMAIN loose -> Guests \cup {None}],
         NEW bod \in [Guests -> Bodies \cup {None}],
         \A i \in DOMAIN loose : near[i] # None => bod[near[i]] # None,
         NEW x \in Pickup, Taken(x, bod), NEW i \in 1..Len(loose)
  PROVE  LET y == Picked(near, x, i) IN
         /\ y \in Pickup /\ Taken(y, bod)
         /\ \A k \in Kinds : Lying(y, k) = Lying(x, k) + Held(loose[i], k)
<1> DEFINE g == near[i]
           s == loose[i]
           y == Picked(near, x, i)
<1>1. g \in Guests \cup {None} /\ s \in Stack /\ (g # None => bod[g] # None)
  BY LenProperties, ElementOfSeq
<1>2. s.kind \in Kinds /\ s.count \in Nat /\ s # None /\ \A k \in Kinds : Held(s, k) \in Nat
  BY <1>1, StackSeq, HeldNat
<1>3. x.body \in [Guests -> Bodies \cup {None}] /\ x.loose \in Seq(Stack) /\ x.glad \in SUBSET Guests
  BY DEF Pickup
<1>4. \A k \in Kinds : Bearing(x.body, profile, k) \in Nat
  BY <1>3, BearingNat
<1>5. \A k \in Kinds : Sum(x.loose, k) \in Nat
  BY <1>3, PlacesNat
<1>6. CASE g = None
  <2> DEFINE more == Append(x.loose, s)
  <2>1. y = [x EXCEPT !.loose = more]
    BY <1>3, <1>6 DEF Picked, Pickup
  <2> HIDE DEF y, g, s
  <2>2. more \in Seq(Stack)
    BY <1>1, <1>3, AppendProperties
  <2>3. \A k \in Kinds : Sum(more, k) = Sum(x.loose, k) + Held(s, k)
    BY <1>1, <1>3, StackAppend
  <2> HIDE DEF more
  <2>4. y \in Pickup /\ y.body = x.body /\ y.loose = more /\ y.glad = x.glad
    BY <1>3, <2>1, <2>2 DEF Pickup
  <2>5. Taken(y, bod)
    BY <2>4 DEF Taken
  <2>6. ASSUME NEW k \in Kinds PROVE Lying(y, k) = Lying(x, k) + Held(s, k)
    <3> DEFINE B == Bearing(x.body, profile, k)
               l == Sum(x.loose, k)
               h == Held(s, k)
    <3>1. B \in Nat /\ l \in Nat /\ h \in Nat
      BY <1>2, <1>4, <1>5
    <3>2. Lying(y, k) = B + (l + h) /\ Lying(x, k) = B + l
      BY <2>3, <2>4 DEF Lying
    <3> HIDE DEF B, l, h
    <3>3. B + (l + h) = (B + l) + h
      BY <3>1
    <3> QED BY <3>2, <3>3 DEF h
  <2> QED BY <2>4, <2>5, <2>6 DEF y, s
<1>7. CASE g # None
  <2> DEFINE r == Into(x.body[g], s)
             new == [x.body EXCEPT ![g] = r.guest]
             rest == Filled(<<Some(s.kind, r.left)>>)
             happy == IF r.left < s.count THEN x.glad \cup {g} ELSE x.glad
  <2>1. g \in Guests /\ bod[g] # None /\ x.body[g] \in Bodies
    BY <1>1, <1>3, <1>7 DEF Taken
  <2>2. y = [body |-> new, loose |-> x.loose \o rest, glad |-> happy]
    BY <1>7 DEF Picked
  <2> HIDE DEF y, g, s
  <2>3. r.guest \in Bodies
    BY <1>1, <2>1, IntoKeeps
  <2>4. r.left \in 0..s.count
    BY <1>1, <2>1, IntoKeeps
  <2>5. r.left = s.count => r.guest = x.body[g]
    BY <1>1, <2>1, IntoKeeps
  <2>6. \A k \in Kinds : OnBody(r.guest, k) + Over(s, r.left, k) = OnBody(x.body[g], k) + Held(s, k)
    BY <1>1, <2>1, IntoKeeps
  <2> HIDE DEF r
  <2>7. rest \in Seq(Stack) /\ \A k \in Kinds : Sum(rest, k) = Over(s, r.left, k)
    <3> DEFINE slot == Some(s.kind, r.left)
               one == <<slot>>
    <3>1. slot \in Slot /\ \A k \in Kinds : Held(slot, k) = Over(s, r.left, k)
      BY <1>1, <2>4, SomeSlot
    <3> HIDE DEF slot
    <3>2. one \in Seq(Slot) /\ \A k \in Kinds : Sum(one, k) = Held(slot, k)
      BY <3>1, SumFew
    <3> HIDE DEF one
    <3>3. Filled(one) \in Seq(Stack) /\ \A k \in Kinds : Sum(Filled(one), k) = Sum(one, k)
      BY <3>2, FilledKeeps
    <3>4. rest = Filled(one)
      BY DEF one, slot
    <3> QED BY <3>1, <3>2, <3>3, <3>4
  <2> HIDE DEF rest
  <2>8. /\ new \in [Guests -> Bodies \cup {None}] /\ new[g] = r.guest /\ new[g] # None
        /\ \A z \in Guests : z # g => new[z] = x.body[z]
    BY <1>3, <2>1, <2>3, Sizes
  <2>9. x.loose \o rest \in Seq(Stack) /\ \A k \in Kinds : Sum(x.loose \o rest, k) = Sum(x.loose, k) + Sum(rest, k)
    BY <1>3, <2>7, StackSum, ConcatProperties
  <2>10. happy \in SUBSET Guests
    BY <1>3, <2>1
  <2> HIDE DEF new
  <2>11. y \in Pickup /\ y.body = new /\ y.loose = x.loose \o rest /\ y.glad = happy
    BY <2>2, <2>8, <2>9, <2>10 DEF Pickup
  <2>12. g \notin happy => new[g] = x.body[g]
    <3>1. g \notin happy => r.left = s.count
      BY <1>2, <2>4
    <3> QED BY <2>5, <2>8, <3>1
  <2>13. x.glad \subseteq happy /\ happy \subseteq x.glad \cup {g}
    OBVIOUS
  <2> HIDE DEF happy
  <2>14. Taken(y, bod)
    <3> SUFFICES ASSUME NEW z \in Guests
                 PROVE  /\ (new[z] = None) <=> (bod[z] = None)
                        /\ z \notin happy => new[z] = bod[z]
                        /\ z \in happy => bod[z] # None
      BY <2>11 DEF Taken
    <3>1. CASE z = g
      BY <2>1, <2>8, <2>12, <2>13, <3>1 DEF Taken
    <3>2. CASE z # g
      BY <2>8, <2>13, <3>2 DEF Taken
    <3> QED BY <3>1, <3>2
  <2>15. ASSUME NEW k \in Kinds PROVE Lying(y, k) = Lying(x, k) + Held(s, k)
    <3> DEFINE B == Bearing(x.body, profile, k)
               B2 == Bearing(new, profile, k)
               p == OnBody(x.body[g], k)
               q == OnBody(r.guest, k)
               v == Over(s, r.left, k)
               l == Sum(x.loose, k)
               h == Held(s, k)
    <3>1. B2 + OnGuest(x.body[g], profile[g], k) = B + OnGuest(new[g], profile[g], k)
      <4>1. \A z \in Guests : z # g => new[z] = x.body[z] /\ profile[z] = profile[z]
        BY <2>8
      <4>2. Bearing(new, profile, k) + OnGuest(x.body[g], profile[g], k)
              = Bearing(x.body, profile, k) + OnGuest(new[g], profile[g], k)
        BY <1>3, <2>1, <2>8, <4>1, BearingPoint
      <4> QED BY <4>2
    <3>2. OnGuest(x.body[g], profile[g], k) = p /\ OnGuest(new[g], profile[g], k) = q
      BY <2>1, <2>8, Sizes DEF OnGuest
    <3>3. B \in Nat /\ B2 \in Nat
      BY <1>4, <2>8, BearingNat
    <3>4. p \in Nat /\ q \in Nat
      BY <2>1, <2>3, OnBodyNat
    <3>5. v \in Nat /\ l \in Nat /\ h \in Nat
      BY <1>2, <1>5, <2>4 DEF Over
    <3>6. q + v = p + h
      BY <2>6
    <3>7. Lying(y, k) = B2 + (l + v) /\ Lying(x, k) = B + l
      BY <2>7, <2>9, <2>11 DEF Lying
    <3> HIDE DEF B, B2, p, q, v, l, h
    <3>8. B2 + p = B + q
      BY <3>1, <3>2
    <3>9. B2 + (l + v) = (B + l) + h
      BY <3>3, <3>4, <3>5, <3>6, <3>8
    <3> QED BY <3>7, <3>9 DEF h
  <2> QED BY <2>11, <2>14, <2>15 DEF y, s
<1> QED BY <1>6, <1>7

LEMMA PickupsRuns ==
  ASSUME profile \in [Guests -> Profiles], loose \in Seq(Stack),
         NEW near \in [DOMAIN loose -> Guests \cup {None}],
         NEW bod \in [Guests -> Bodies \cup {None}],
         \A i \in DOMAIN loose : near[i] # None => bod[near[i]] # None,
         NEW start \in Pickup, Taken(start, bod)
  PROVE  \E f \in [0..Len(loose) -> {x \in Pickup : Taken(x, bod)}] :
           /\ f[0] = start /\ Pickups(near, start) = f[Len(loose)]
           /\ \A n \in 1..Len(loose) : f[n] = Picked(near, f[n - 1], n)
<1> DEFINE X == {x \in Pickup : Taken(x, bod)}
           N == Len(loose)
           Op(n, x) == Picked(near, x, n)
           Body(f) == [n \in 0..N |-> IF n = 0 THEN start ELSE Op(n, f[n - 1])]
           upTo == CHOOSE f : f = Body(f)
           step == [n \in 1..N |-> [x \in X |-> Op(n, x)]]
<1>1. N \in Nat
  BY LenProperties
<1>2. Pickups(near, start) = upTo[N]
  BY DEF Pickups
<1>0. \A n \in 1..N, x \in X : Op(n, x) \in X
  <2> SUFFICES ASSUME NEW n \in 1..N, NEW x \in X PROVE Op(n, x) \in X
    OBVIOUS
  <2>1. Picked(near, x, n) \in Pickup
    BY PickedKeeps
  <2>2. Taken(Picked(near, x, n), bod)
    BY PickedKeeps
  <2> QED BY <2>1, <2>2
<1>9. start \in X
  OBVIOUS
<1> HIDE DEF N, X, Op
<1>3. step \in Steps(N, X) /\ \A n \in 1..N, x \in X : step[n][x] = Op(n, x)
  BY <1>0 DEF Steps
<1> HIDE DEF step
<1>4. PICK f : Runs(f, N, X, start, step)
  BY <1>1, <1>3, <1>9, Recursion
<1>5. f = Body(f)
  <2>1. \A n \in 1..N : f[n - 1] \in X
    BY <1>1, <1>4 DEF Runs
  <2>2. \A n \in 0..N : f[n] = IF n = 0 THEN start ELSE Op(n, f[n - 1])
    BY <1>1, <1>3, <1>4, <2>1 DEF Runs
  <2> QED BY <1>4, <2>2 DEF Runs
<1>6. upTo = Body(upTo)
  <2> HIDE DEF Body
  <2> QED BY <1>5
<1> HIDE DEF upTo
<1>7. upTo[0] = start /\ \A n \in 1..N : upTo[n] = Op(n, upTo[n - 1])
  <2>1. \A n \in 0..N : upTo[n] = IF n = 0 THEN start ELSE Op(n, upTo[n - 1])
    BY <1>6
  <2> QED BY <1>1, <2>1
<1>8. \A n \in 0..N : upTo[n] \in X
  <2> DEFINE good == {n \in 0..N : upTo[n] \in X}
  <2>1. 0 \in good
    BY <1>1, <1>7, <1>9
  <2>2. \A n \in 1..N : n - 1 \in good => n \in good
    <3> SUFFICES ASSUME NEW n \in 1..N, upTo[n - 1] \in X PROVE upTo[n] \in X
      BY <1>1
    <3> QED BY <1>0, <1>7
  <2>3. \A n \in 0..N : n \in good
    <3> HIDE DEF good
    <3> QED BY <1>1, <2>1, <2>2, Climb
  <2> QED BY <2>3
<1>10. upTo \in [0..N -> X]
  <2>1. Body(upTo) = [n \in 0..N |-> Body(upTo)[n]]
    OBVIOUS
  <2> HIDE DEF Body
  <2> QED BY <1>6, <1>8, <2>1
<1> QED BY <1>2, <1>7, <1>8, <1>10, <1>9 DEF N, Op, X

\* Every loose stack is with a guest or lies on.
LEMMA PickupsKeeps ==
  ASSUME profile \in [Guests -> Profiles], loose \in Seq(Stack),
         NEW near \in [DOMAIN loose -> Guests \cup {None}],
         NEW bod \in [Guests -> Bodies \cup {None}],
         \A i \in DOMAIN loose : near[i] # None => bod[near[i]] # None,
         NEW start \in Pickup, Taken(start, bod)
  PROVE  LET y == Pickups(near, start) IN
         /\ y \in Pickup /\ Taken(y, bod)
         /\ \A k \in Kinds : Lying(y, k) = Lying(start, k) + Sum(loose, k)
<1> DEFINE N == Len(loose)
           X == {x \in Pickup : Taken(x, bod)}
<1>1. N \in Nat
  BY LenProperties
<1>4. PICK f \in [0..N -> X] :
        /\ f[0] = start /\ Pickups(near, start) = f[N]
        /\ \A n \in 1..N : f[n] = Picked(near, f[n - 1], n)
  BY PickupsRuns
<1> HIDE DEF X
<1>6. f[N] \in Pickup /\ Taken(f[N], bod)
  BY <1>1, <1>4 DEF X
<1>7. ASSUME NEW k \in Kinds PROVE Lying(f[N], k) = Lying(start, k) + Sum(loose, k)
  <2>3. loose \in Seq(Slot)
    BY StackSeq
  <2>5. PICK t \in [0..N -> Nat] :
          /\ t[0] = 0 /\ Sum(loose, k) = t[N]
          /\ \A n \in 1..N : t[n] = t[n - 1] + Held(loose[n], k)
    BY <2>3, SumSteps
  <2> DEFINE sofar == [n \in 0..N |-> Lying(f[n], k)]
             good == {n \in 0..N : sofar[n] = sofar[0] + t[n]}
  <2>6. \A n \in 0..N : sofar[n] \in Nat
    <3> SUFFICES ASSUME NEW n \in 0..N PROVE Lying(f[n], k) \in Nat
      OBVIOUS
    <3> DEFINE x == f[n]
               B == Bearing(x.body, profile, k)
               l == Sum(x.loose, k)
    <3>1. x \in Pickup
      BY <1>4 DEF X
    <3> HIDE DEF x
    <3>2. x.body \in [Guests -> Bodies \cup {None}] /\ x.loose \in Seq(Stack)
      BY <3>1 DEF Pickup
    <3>3. B \in Nat /\ l \in Nat
      BY <3>2, BearingNat, PlacesNat
    <3>4. Lying(x, k) = B + l
      BY DEF Lying
    <3> HIDE DEF B, l
    <3>5. Lying(x, k) \in Nat
      BY <3>3, <3>4
    <3> QED BY <3>5 DEF x
  <2>7. \A n \in 1..N : sofar[n] = sofar[n - 1] + Held(loose[n], k)
    <3> SUFFICES ASSUME NEW n \in 1..N PROVE Lying(f[n], k) = Lying(f[n - 1], k) + Held(loose[n], k)
      BY <1>1
    <3> DEFINE x == f[n - 1]
    <3>1. n - 1 \in 0..N
      BY <1>1
    <3>2. x \in Pickup /\ Taken(x, bod)
      BY <1>4, <3>1 DEF X
    <3>3. f[n] = Picked(near, x, n)
      BY <1>4
    <3> HIDE DEF x
    <3>4. Lying(Picked(near, x, n), k) = Lying(x, k) + Held(loose[n], k)
      BY <3>2, PickedKeeps
    <3> QED BY <3>3, <3>4 DEF x
  <2>8. \A n \in 1..N : Held(loose[n], k) \in Nat
    <3>1. \A n \in 1..N : loose[n] \in Slot
      BY <2>3, ElementOfSeq
    <3> QED BY <3>1, HeldNat
  <2> HIDE DEF sofar
  <2>9. 0 \in good
    BY <1>1, <2>5, <2>6
  <2>10. \A n \in 1..N : n - 1 \in good => n \in good
    <3> SUFFICES ASSUME NEW n \in 1..N, n - 1 \in good PROVE n \in good
      OBVIOUS
    <3> DEFINE a == sofar[n - 1]
               b == t[n - 1]
               h == Held(loose[n], k)
               z == sofar[0]
    <3>1. n - 1 \in 0..N /\ 0 \in 0..N
      BY <1>1
    <3>2. a \in Nat /\ b \in Nat /\ h \in Nat /\ z \in Nat
      BY <2>5, <2>6, <2>8, <3>1
    <3>3. sofar[n] = a + h /\ t[n] = b + h /\ a = z + b
      BY <2>5, <2>7
    <3> HIDE DEF a, b, h, z
    <3>4. a + h = z + (b + h)
      BY <3>2, <3>3
    <3> QED BY <3>3, <3>4 DEF z
  <2>11. \A n \in 0..N : n \in good
    <3> HIDE DEF good
    <3> QED BY <1>1, <2>9, <2>10, Climb
  <2>12. sofar[N] = sofar[0] + t[N]
    BY <1>1, <2>11
  <2>13. sofar[N] = Lying(f[N], k) /\ sofar[0] = Lying(start, k)
    BY <1>1, <1>4 DEF sofar
  <2> QED BY <2>5, <2>12, <2>13
<1> QED BY <1>4, <1>6, <1>7

\* What the host delivers keeps every item somewhere, and tells every guest it changes.
LEMMA DeliverKeeps ==
  ASSUME IInv, Deliver
  PROVE  IInv'
<1> DEFINE shown == [g \in Guests |-> down[g] \o (IF edited /\ Seated(g) THEN <<BlockSet>> ELSE <<>>)]
           start == [body |-> body, down |-> shown, buried |-> buried, lost |-> lost]
           given == Gives(owed, start)
           first == [body |-> given.body, loose |-> <<>>, glad |-> {}]
           taken(near) == Pickups(near, first)
           Step(near) ==
             /\ buried' = given.buried /\ lost' = given.lost
             /\ body' = taken(near).body /\ loose' = taken(near).loose
             /\ down' = [g \in Guests |-> IF g \in taken(near).glad
                                          THEN Append(given.down[g], PlayerState(taken(near).body[g]))
                                          ELSE given.down[g]]
<1>1. /\ edited' = FALSE /\ owed' = <<>>
      /\ UNCHANGED <<profile, block, chest, fallen, up, view, acts>>
      /\ \E near \in [DOMAIN loose -> {g \in Guests : Seated(g) /\ body[g].alive} \cup {None}] : Step(near)
  BY DEF Deliver
<1> HIDE DEF Step
<1>2. PICK near \in [DOMAIN loose -> {g \in Guests : Seated(g) /\ body[g].alive} \cup {None}] : Step(near)
  BY <1>1
<1>3. TypeOK /\ LastWordIsTrue /\ GoneIsEmpty /\ AwayIsQuiet /\ ItemsConserved
  BY DEF IInv, CustodyInv
<1>4. shown \in [Guests -> Seq(Said)] /\ \A g \in Guests : Seated(g) => Truthful(shown[g], body[g])
  <2> DEFINE more(g) == IF edited /\ Seated(g) THEN <<BlockSet>> ELSE <<>>
  <2>1. ASSUME NEW g \in Guests
        PROVE  down[g] \o more(g) \in Seq(Said) /\ (Seated(g) => Truthful(down[g] \o more(g), body[g]))
    <3>1. more(g) \in Seq(Said) /\ Truthful(more(g), body[g])
      BY SaidKinds, TruthfulFew
    <3>2. down[g] \in Seq(Said) /\ (Seated(g) => Truthful(down[g], body[g]))
      BY <1>3, Facts DEF LastWordIsTrue, Truthful
    <3> HIDE DEF more
    <3>3. down[g] \o more(g) \in Seq(Said)
      BY <3>1, <3>2, ConcatProperties
    <3>4. Seated(g) => Truthful(down[g] \o more(g), body[g])
      BY <3>1, <3>2, TruthfulJoin
    <3> QED BY <3>3, <3>4
  <2>2. shown = [g \in Guests |-> down[g] \o more(g)]
    OBVIOUS
  <2> HIDE DEF more, shown
  <2> QED BY <2>1, <2>2
<1>5. \A g \in Guests : ~Seated(g) => shown[g] = <<>>
  BY <1>3 DEF AwayIsQuiet
<1> HIDE DEF shown
<1>6. start \in Delivery /\ Fair(start)
  BY <1>4, <1>5, Facts DEF Delivery, Fair, Seated
<1>7. owed \in Owe /\ \A i \in DOMAIN owed : owed[i][1] # None => Seated(owed[i][1])
  BY <1>3, Facts DEF AwayIsQuiet
<1>8. profile \in [Guests -> Profiles] /\ loose \in Seq(Stack)
  BY Facts
<1>9. start.body = body /\ start.buried = buried /\ start.lost = lost
  OBVIOUS
<1> HIDE DEF start
<1>10. given \in Delivery
  BY <1>6, <1>7, <1>8, GivesKeeps
<1>11. Fair(given)
  BY <1>6, <1>7, <1>8, GivesKeeps
<1>12. \A k \in Kinds : Gathered(given, k) = Gathered(start, k) + Owing(owed, k)
  BY <1>6, <1>7, <1>8, GivesKeeps
<1> HIDE DEF given
<1> DEFINE bod == given.body
<1>13. /\ bod \in [Guests -> Bodies \cup {None}] /\ given.down \in [Guests -> Seq(Said)]
       /\ given.buried \in [Kinds -> Nat] /\ given.lost \in [Kinds -> Nat]
  BY <1>10 DEF Delivery
<1>14. first \in Pickup /\ Taken(first, bod)
  BY <1>13 DEF Pickup, Taken
<1>15. first.body = bod /\ first.loose = <<>>
  OBVIOUS
<1>16. /\ near \in [DOMAIN loose -> Guests \cup {None}]
       /\ \A i \in DOMAIN loose : near[i] # None => bod[near[i]] # None
  BY <1>11 DEF Fair
<1> HIDE DEF first, bod
<1> DEFINE end == taken(near)
<1>17. end \in Pickup
  BY <1>8, <1>13, <1>14, <1>16, PickupsKeeps
<1>18. Taken(end, bod)
  BY <1>8, <1>13, <1>14, <1>16, PickupsKeeps
<1>19. \A k \in Kinds : Lying(end, k) = Lying(first, k) + Sum(loose, k)
  BY <1>8, <1>13, <1>14, <1>16, PickupsKeeps
<1>20. /\ buried' = given.buried /\ lost' = given.lost /\ body' = end.body /\ loose' = end.loose
       /\ down' = [g \in Guests |-> IF g \in end.glad THEN Append(given.down[g], PlayerState(end.body[g]))
                                    ELSE given.down[g]]
  BY <1>2 DEF Step
<1> HIDE DEF end
<1>21. /\ end.body \in [Guests -> Bodies \cup {None}] /\ end.loose \in Seq(Stack)
       /\ end.glad \in SUBSET Guests
  BY <1>17 DEF Pickup
<1>22. \A g \in Guests : /\ Seated(g) => body'[g] # None
                         /\ ~Seated(g) => body'[g] = None /\ given.down[g] = <<>> /\ g \notin end.glad
  BY <1>11, <1>18, <1>20 DEF Fair, Taken, bod
<1>23. ASSUME NEW g \in Guests
       PROVE  down'[g] \in Seq(Said) /\ (Seated(g) => Truthful(down'[g], body'[g]))
  <2>1. given.down[g] \in Seq(Said) /\ (Seated(g) => Truthful(given.down[g], bod[g]))
    BY <1>11, <1>13 DEF Fair, bod
  <2>2. CASE g \in end.glad
    <3> DEFINE said == given.down[g]
               b == end.body[g]
    <3>1. down'[g] = Append(said, PlayerState(b)) /\ body'[g] = b
      BY <1>20, <2>2
    <3>2. b \in Bodies
      BY <1>18, <1>21, <2>2 DEF Taken
    <3> HIDE DEF said, b
    <3>3. said \in Seq(Said)
      BY <2>1 DEF said
    <3>4. Append(said, PlayerState(b)) = said \o <<PlayerState(b)>>
      BY <3>2, <3>3, TruthfulState
    <3>5. said \o <<PlayerState(b)>> \in Seq(Said) /\ Truthful(said \o <<PlayerState(b)>>, b)
      BY <3>2, <3>3, TruthfulState
    <3> QED BY <3>1, <3>4, <3>5
  <2>3. CASE g \notin end.glad
    <3>1. down'[g] = given.down[g] /\ body'[g] = bod[g]
      BY <1>18, <1>20, <2>3 DEF Taken
    <3> QED BY <2>1, <3>1
  <2> QED BY <2>2, <2>3
<1>24. down' \in [Guests -> Seq(Said)]
  <2>1. DOMAIN down' = Guests /\ down' = [g \in Guests |-> down'[g]]
    BY <1>20
  <2> QED BY <1>23, <2>1
<1>25. TypeOK'
  <2>1. owed' = <<>> /\ edited' = FALSE
    BY <1>1
  <2>2. UNCHANGED <<profile, block, chest, fallen, up, view, acts>>
    BY <1>1
  <2>3. <<>> \in Seq((Guests \cup {None}) \X Stack)
    OBVIOUS
  <2> QED BY <1>3, <1>13, <1>20, <1>21, <1>24, <2>1, <2>2, <2>3 DEF TypeOK
<1>26. LastWordIsTrue'
  <2> SUFFICES ASSUME NEW g \in Guests, body'[g] # None PROVE Truthful(down'[g], body'[g])
    BY DEF LastWordIsTrue, Seated, Truthful
  <2>1. Seated(g)
    BY <1>22
  <2> QED BY <1>23, <2>1
<1>27. GoneIsEmpty'
  BY <1>1, <1>3 DEF GoneIsEmpty
<1>28. AwayIsQuiet'
  <2>1. ASSUME NEW g \in Guests, body'[g] = None PROVE down'[g] = <<>> /\ up'[g] = <<>>
    <3>1. ~Seated(g) /\ given.down[g] = <<>> /\ g \notin end.glad
      BY <1>22, <2>1
    <3>2. up'[g] = <<>>
      BY <1>1, <1>3, <3>1 DEF AwayIsQuiet
    <3> QED BY <1>20, <3>1, <3>2
  <2>2. DOMAIN owed' = {}
    BY <1>1
  <2> QED BY <2>1, <2>2 DEF AwayIsQuiet, Seated
<1>29. ItemsConserved'
  <2> SUFFICES ASSUME NEW k \in Kinds PROVE (Total(k) + lost[k] = Supply(k))'
    BY DEF ItemsConserved
  <2> DEFINE B == Bearing(body, profile, k)
             B1 == Bearing(bod, profile, k)
             B2 == Bearing(end.body, profile, k)
             c == InChest(chest, k)
             s == InBlock(block, k)
             w == Owing(owed, k)
             f == Sum(fallen, k)
             l == Sum(loose, k)
             l2 == Sum(end.loose, k)
             n == buried[k]
             n2 == given.buried[k]
             z == lost[k]
             z2 == given.lost[k]
  <2>1. B \in Nat /\ B1 \in Nat /\ B2 \in Nat
    BY <1>8, <1>13, <1>21, Facts, BearingNat
  <2>2. c \in Nat /\ s \in Nat /\ w \in Nat /\ f \in Nat /\ l \in Nat /\ l2 \in Nat
    BY <1>21, Facts, PlacesNat
  <2>3. n \in Nat /\ n2 \in Nat /\ z \in Nat /\ z2 \in Nat
    BY <1>13, Facts
  <2>4. B1 + n2 + z2 = (B + n + z) + w
    BY <1>9, <1>12 DEF Gathered, bod
  <2>5. B2 + l2 = (B1 + 0) + l
    <3>1. Sum(<<>>, k) = 0
      BY SumFew
    <3> QED BY <1>15, <1>19, <3>1 DEF Lying
  <2>6. Owing(owed', k) = 0
    <3> DEFINE row == [i \in DOMAIN owed' |-> owed'[i][2]]
    <3>1. row = <<>>
      BY <1>1
    <3>2. Owing(owed', k) = Sum(row, k)
      BY DEF Owing
    <3> HIDE DEF row
    <3> QED BY <3>1, <3>2, SumFew
  <2>7. Total(k) = B + c + s + w + f + l + n /\ Total(k)' = B2 + c + s + 0 + f + l2 + n2
    BY <1>1, <1>20, <2>6 DEF Total, Bearing
  <2>8. lost'[k] = z2 /\ Supply(k)' = Supply(k) /\ Total(k) + z = Supply(k)
    BY <1>3, <1>20 DEF Supply, ItemsConserved
  <2> HIDE DEF B, B1, B2, c, s, w, f, l, l2, n, n2, z, z2
  <2>9. (B2 + c + s + 0 + f + l2 + n2) + z2 = (B + c + s + w + f + l + n) + z
    BY <2>1, <2>2, <2>3, <2>4, <2>5
  <2> QED BY <2>7, <2>8, <2>9
<1> QED BY <1>25, <1>26, <1>27, <1>28, <1>29 DEF IInv, CustodyInv

-----------------------------------------------------------------------------
(* The invariant of the system. *)

\* Where things start, they are where Start says, and nothing has been said.
LEMMA InitHolds ==
  ASSUME Init
  PROVE  IInv
<1>1. PICK looking \in Lookers :
        /\ body = [g \in Guests |-> Carries(Start[g], Start[g].grid, g \in looking, TRUE)]
        /\ view = [g \in Guests |-> IF g \in looking
                                   THEN [Shows(Start[g]) EXCEPT !.screen = "chest", !.chest = chest]
                                   ELSE Shows(Start[g])]
  BY DEF Init
<1>2. /\ block = TRUE /\ chest = Start["chest"] /\ profile = [g \in Guests |-> Stored(body[g])]
      /\ edited = FALSE /\ owed = <<>> /\ fallen = <<>> /\ loose = <<>>
      /\ buried = [k \in Kinds |-> 0] /\ lost = [k \in Kinds |-> 0]
      /\ up = [g \in Guests |-> <<>>] /\ down = [g \in Guests |-> <<>>] /\ acts = MaxActs
  BY DEF Init
<1>3. /\ Start["chest"] \in Row(ChestSize) /\ MaxActs \in Nat
      /\ \A g \in Guests : /\ Start[g].pack \in Row(PackSize) /\ Start[g].cursor \in Slot
                           /\ Start[g].grid \in Row(GridSize)
  BY CustodyAssumption
<1>4. ASSUME NEW g \in Guests
      PROVE  /\ body[g] \in Bodies
             /\ \A k \in Kinds : OnBody(body[g], k) = OnBody(Start[g], k)
             /\ view[g] \in Views
  <2> DEFINE s == Start[g]
             b == Carries(s, s.grid, g \in looking, TRUE)
  <2>1. body[g] = b
    BY <1>1
  <2>2. s.pack \in Row(PackSize) /\ s.cursor \in Slot /\ s.grid \in Row(GridSize)
    BY <1>3
  <2> HIDE DEF s
  <2>3. (g \in looking) \in BOOLEAN
    OBVIOUS
  <2>4. b \in Bodies /\ b.pack = s.pack /\ b.cursor = s.cursor /\ b.grid = s.grid
    BY <2>2, <2>3 DEF Carries, Bodies
  <2> HIDE DEF b
  <2>5. \A k \in Kinds : OnBody(b, k) = OnBody(s, k)
    BY <2>4 DEF OnBody
  <2> DEFINE v == Shows(s)
  <2>6. v \in Views
    BY <2>2, ShowsView
  <2>7. view[g] = v \/ view[g] = [v EXCEPT !.screen = "chest", !.chest = chest]
    BY <1>1 DEF s
  <2> HIDE DEF v
  <2>8. view[g] \in Views
    BY <1>2, <1>3, <2>6, <2>7 DEF Views
  <2> QED BY <2>1, <2>4, <2>5, <2>8 DEF s
<1>5. body \in [Guests -> Bodies] /\ view \in [Guests -> Views]
  BY <1>1, <1>4
<1>6. profile \in [Guests -> Profiles]
  BY <1>2, <1>5, StoredBody
<1>7. TypeOK
  <2>1. body \in [Guests -> Bodies \cup {None}]
    BY <1>5
  <2>2. chest \in Row(ChestSize) \cup {None}
    BY <1>2, <1>3
  <2>3. block \in BOOLEAN /\ edited \in BOOLEAN
    <3>1. block = TRUE /\ edited = FALSE
      BY <1>2
    <3> QED BY <3>1
  <2>4. acts \in 0..MaxActs
    <3>1. acts = MaxActs /\ MaxActs \in Nat
      BY <1>2, <1>3
    <3> QED BY <3>1
  <2>5. /\ buried \in [Kinds -> Nat] /\ lost \in [Kinds -> Nat]
        /\ up \in [Guests -> Seq(Sent)] /\ down \in [Guests -> Seq(Said)]
    BY <1>2
  <2>6. fallen \in Seq(Stack) /\ loose \in Seq(Stack) /\ owed \in Seq((Guests \cup {None}) \X Stack)
    BY <1>2
  <2> QED BY <1>5, <1>6, <2>1, <2>2, <2>3, <2>4, <2>5, <2>6 DEF TypeOK
<1>8. LastWordIsTrue /\ GoneIsEmpty /\ AwayIsQuiet
  BY <1>2, <1>5, Sizes DEF LastWordIsTrue, GoneIsEmpty, AwayIsQuiet, Seated
<1>9. ItemsConserved
  <2> SUFFICES ASSUME NEW k \in Kinds PROVE Total(k) + lost[k] = Supply(k)
    BY DEF ItemsConserved
  <2> DEFINE f == [g \in Guests |-> OnGuest(body[g], profile[g], k)]
             h == [g \in Guests |-> OnBody(Start[g], k)]
             n == AmongGuests(h)
             c == InChest(Start["chest"], k)
             s == InBlock(TRUE, k)
  <2>1. f = h
    <3>1. \A g \in Guests : OnGuest(body[g], profile[g], k) = OnBody(Start[g], k)
      BY <1>4, Sizes DEF OnGuest
    <3> QED BY <3>1
  <2>2. h \in [Guests -> Nat]
    <3>1. \A g \in Guests : OnBody(Start[g], k) \in Nat
      <4> TAKE g \in Guests
      <4>1. OnBody(body[g], k) \in Nat
        BY <1>4, OnBodyNat
      <4> QED BY <1>4, <4>1
    <3> QED BY <3>1
  <2> HIDE DEF f, h
  <2>3. n \in Nat
    BY <2>2, AmongNat
  <2>4. c \in Nat /\ s \in Nat
    BY <1>3, PlacesNat
  <2>5. Owing(owed, k) = 0
    <3> DEFINE row == [i \in DOMAIN owed |-> owed[i][2]]
    <3>1. row = <<>>
      BY <1>2
    <3>2. Owing(owed, k) = Sum(row, k)
      BY DEF Owing
    <3> HIDE DEF row
    <3> QED BY <3>1, <3>2, SumFew
  <2>6. Sum(fallen, k) = 0 /\ Sum(loose, k) = 0 /\ buried[k] = 0 /\ lost[k] = 0
    BY <1>2, SumFew
  <2>7. Total(k) = n + c + s + 0 + 0 + 0 + 0
    BY <1>2, <2>1, <2>5, <2>6 DEF Total, f
  <2>8. Supply(k) = n + c + s
    BY DEF Supply, h
  <2> HIDE DEF n, c, s
  <2>9. (n + c + s + 0 + 0 + 0 + 0) + 0 = n + c + s
    BY <2>3, <2>4
  <2> QED BY <2>6, <2>7, <2>8, <2>9
<1> QED BY <1>7, <1>8, <1>9 DEF IInv, CustodyInv

LEMMA StepKeeps ==
  ASSUME IInv, [Next]_vars
  PROVE  IInv'
<1>1. CASE UNCHANGED vars
  <2>1. UNCHANGED held /\ UNCHANGED <<up, down, view, acts>>
    BY <1>1 DEF vars, held
  <2>2. \A x \in Guests : Seated(x) => Truthful(down'[x], body[x])
    BY <2>1, Facts DEF LastWordIsTrue, Truthful
  <2>3. \A x \in Guests : ~Seated(x) => down'[x] = <<>> /\ up'[x] = <<>>
    BY <2>1, Facts DEF AwayIsQuiet
  <2> QED BY <2>1, <2>2, <2>3, Facts, Elsewhere
<1>2. ASSUME NEW g \in Guests, Handle(g) \/ Die(g) \/ Mend(g) \/ Leave(g) \/ Join(g) \/ Frame(g)
      PROVE  IInv'
  <2>1. CASE Handle(g)
    BY <2>1, HandleKeeps
  <2>2. CASE Die(g)
    BY <2>2, DieKeeps
  <2>3. CASE Mend(g)
    BY <2>3, MendKeeps
  <2>4. CASE Leave(g)
    BY <2>4, LeaveKeeps
  <2>5. CASE Join(g)
    BY <2>5, JoinKeeps
  <2>6. CASE Frame(g)
    BY <2>6, FrameKeeps
  <2> QED BY <1>2, <2>1, <2>2, <2>3, <2>4, <2>5, <2>6
<1>3. ASSUME NEW g \in Guests,
             Use(g) \/ UsePlace(g) \/ OpenInventory(g) \/ ClickChest(g) \/ ClickPack(g)
               \/ Close(g) \/ AskRespawn(g)
      PROVE  IInv'
  <2>1. CASE Use(g)
    BY <2>1, UseKeeps
  <2>2. CASE UsePlace(g)
    BY <2>2, UsePlaceKeeps
  <2>3. CASE OpenInventory(g)
    BY <2>3, OpenInventoryKeeps
  <2>4. CASE ClickChest(g)
    BY <2>4, ClickChestKeeps
  <2>5. CASE ClickPack(g)
    BY <2>5, ClickPackKeeps
  <2>6. CASE Close(g)
    BY <2>6, CloseKeeps
  <2>7. CASE AskRespawn(g)
    BY <2>7, AskRespawnKeeps
  <2> QED BY <1>3, <2>1, <2>2, <2>3, <2>4, <2>5, <2>6, <2>7
<1>4. CASE Deliver
  BY <1>4, DeliverKeeps
<1>5. CASE Settle
  BY <1>5, SettleKeeps
<1>6. CASE Lose
  BY <1>6, LoseKeeps
<1>7. CASE Refresh
  BY <1>7, RefreshKeeps
<1>8. CASE Tick
  BY <1>8, TickKeeps
<1> QED BY <1>1, <1>2, <1>3, <1>4, <1>5, <1>6, <1>7, <1>8 DEF Next

\* Custody is sound at every step, and the newest state on its way to a guest is what it
\* carries, whatever clicks, deaths, deliveries, departures and frames come between
\* (multiplayer/host/{requests_containers,pump_delivery,damage}.rs).
THEOREM CustodyHolds == Spec => []CustodyInv
<1>1. IInv /\ [Next]_vars => IInv'
  BY StepKeeps
<1>2. Init => IInv
  BY InitHolds
<1>3. IInv => CustodyInv
  BY DEF IInv
<1> QED BY <1>1, <1>2, <1>3, PTL DEF Spec

\* Items are neither copied nor lost, but for the craft grid of a guest that leaves and what
\* is owed to one that has left (inventory.rs, multiplayer/host/{pump_delivery,departures}.rs).
THEOREM ItemsAreConserved == Spec => []ItemsConserved
<1>1. IInv /\ [Next]_vars => IInv'
  BY StepKeeps
<1>2. Init => IInv
  BY InitHolds
<1>3. IInv => ItemsConserved
  BY DEF IInv
<1> QED BY <1>1, <1>2, <1>3, PTL DEF Spec
=================================================================================
