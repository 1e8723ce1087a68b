--------------------------- MODULE GuestSessionProofs ---------------------------
(***************************************************************************)
(* Proofs about GuestSession, for any connections, principals and players, *)
(* any proofs they may present, and any writes that may fail but a profile *)
(* write that lands and still reports a failure.                           *)
(***************************************************************************)
EXTENDS GuestSession, FiniteSetTheorems, TLAPS

\* The profile of player x lists principal p.
Owns(x, p) == profile[x] # None /\ p \in profile[x].of

\* The index on disk says nothing its profiles do not say.
IndexBacked == \A p \in Principals : index[p] # None => index[p] \in Players /\ Owns(index[p], p)

\* No principal is in two profiles.
Apart == \A x, y \in Players, p \in Principals : Owns(x, p) /\ Owns(y, p) => x = y

\* A profile lists some principal.
Listed == \A x \in Players : profile[x] # None => profile[x].of # {}

\* The open store links each principal to the profile that lists it.
LinksOwn ==
  store # None => \A p \in Principals, x \in Players : store.link[p] = x <=> Owns(x, p)

\* A guest's principals are those of its profile, which is no newer than the guest.
Backed(s) ==
  /\ store # None /\ bans # None /\ profile[s.player] # None
  /\ profile[s.player].of = s.of /\ profile[s.player].gain <= s.gain
SeatsBacked == \A k \in Conns : seat[k] # None => Backed(seat[k])

\* A ban reported done is in the file and in the open store.
Recorded(x) == [player |-> x, principal |-> None]
BansKept ==
  \A x \in sworn : /\ profile[x] # None /\ Recorded(x) \in banFile
                   /\ bans # None => Recorded(x) \in bans

Sound == IndexBacked /\ Apart /\ Listed /\ LinksOwn /\ SeatsBacked /\ BansKept
IInv  == TypeOK /\ OneSeatEach /\ Sound

-----------------------------------------------------------------------------
(* What a load of the stores finds. *)

\* Repairing the index links each principal to the one profile that lists it.
LEMMA RepairOwns ==
  ASSUME TypeOK, IndexBacked, Apart
  PROVE  /\ Loadable
         /\ Repaired \in Links
         /\ \A p \in Principals, x \in Players : Repaired[p] = x <=> Owns(x, p)
         /\ \A p \in Principals : Repaired[p] = None <=> \A x \in Players : ~Owns(x, p)
<1>1. \A p \in Principals : Claims(p) = {x \in Players : Owns(x, p)}
  BY NoneAssumption DEF Claims, IndexBacked, Owns
<1>2. \A p \in Principals : \A x, y \in Claims(p) : x = y
  BY <1>1 DEF Apart
<1>3. \A p \in Principals : Claims(p) = {} \/ \E x \in Players : Claims(p) = {x}
  <2> SUFFICES ASSUME NEW p \in Principals, NEW x \in Claims(p) PROVE Claims(p) = {x}
    BY <1>1
  <2> QED BY <1>2
<1>4. Loadable
  <2> SUFFICES ASSUME NEW p \in Principals PROVE Cardinality(Claims(p)) <= 1
    BY DEF Loadable
  <2>1. CASE Claims(p) = {}
    BY <2>1, FS_EmptySet
  <2>2. ASSUME NEW x \in Players, Claims(p) = {x} PROVE Cardinality(Claims(p)) <= 1
    <3>1. Cardinality({x}) = 1
      BY FS_Singleton
    <3> QED BY <2>2, <3>1
  <2> QED BY <1>3, <2>1, <2>2
<1>5. \A p \in Principals :
        Repaired[p] = IF Claims(p) = {} THEN None ELSE CHOOSE x \in Players : x \in Claims(p)
  BY DEF Repaired
<1>6. \A p \in Principals : Claims(p) # {} => Repaired[p] \in Claims(p)
  BY <1>1, <1>5
<1>7. \A p \in Principals, x \in Players : Repaired[p] = x <=> Owns(x, p)
  BY <1>1, <1>2, <1>5, <1>6, NoneAssumption
<1>8. Repaired \in Links
  BY <1>1, <1>5, <1>6 DEF Links, Repaired
<1>9. \A p \in Principals : Repaired[p] = None <=> \A x \in Players : ~Owns(x, p)
  BY <1>1, <1>5, <1>6, NoneAssumption
<1> QED BY <1>4, <1>7, <1>8, <1>9

\* So does the store a join works with, opened before or by this join.
LEMMA LoadedOwns ==
  ASSUME TypeOK, IndexBacked, Apart, LinksOwn
  PROVE  /\ Loaded \in [link : Links, dirty : BOOLEAN]
         /\ Loaded # None
         /\ \A p \in Principals, x \in Players : Loaded.link[p] = x <=> Owns(x, p)
         /\ IndexFile \in Links
         /\ \A p \in Principals : IndexFile[p] # None =>
               IndexFile[p] \in Players /\ Owns(IndexFile[p], p)
         /\ BanList \in SUBSET Bans
         /\ BanList # None
<1>1. /\ Loaded \in [link : Links, dirty : BOOLEAN] /\ Loaded # None
      /\ \A p \in Principals, x \in Players : Loaded.link[p] = x <=> Owns(x, p)
  <2>1. CASE store = None
    <3>1. Loaded = [link |-> Repaired, dirty |-> FALSE]
      BY <2>1 DEF Loaded
    <3>2. Loaded \in [link : Links, dirty : BOOLEAN]
      BY <3>1, RepairOwns
    <3> QED BY <3>1, <3>2, RepairOwns, NoneAssumption
  <2>2. CASE store # None
    BY <2>2, NoneAssumption DEF Loaded, LinksOwn, TypeOK
  <2> QED BY <2>1, <2>2
<1>2. /\ IndexFile \in Links
      /\ \A p \in Principals : IndexFile[p] # None =>
            IndexFile[p] \in Players /\ Owns(IndexFile[p], p)
  <2>1. CASE store = None
    BY <2>1, RepairOwns DEF IndexFile, Links
  <2>2. CASE store # None
    BY <2>2 DEF IndexFile, IndexBacked, TypeOK
  <2> QED BY <2>1, <2>2
<1>3. BanList \in SUBSET Bans /\ BanList # None
  BY NoneAssumption DEF BanList, TypeOK
<1> QED BY <1>1, <1>2, <1>3

-----------------------------------------------------------------------------
(* Each action keeps the invariant. *)

\* A handler's writes leave a number of faults.
LEMMA WritesBounded ==
  ASSUME NEW write, Writes({write}), TypeOK
  PROVE  faults' \in 0..MaxFaults /\ (write[2] = "ok" \/ write \in MayFail)
<1> DEFINE failed == {u \in {write} : u[2] # "ok"}
<1>1. IsFiniteSet(failed)
  BY FS_Singleton, FS_Subset
<1>2. Cardinality(failed) \in Nat
  BY <1>1, FS_CardinalityType
<1> QED BY <1>2, GuestAssumption DEF Writes, TypeOK

\* Seats and profiles are records of their types.
LEMMA Shapes ==
  ASSUME TypeOK
  PROVE  /\ \A k \in Conns : seat[k] # None =>
              /\ seat[k] \in Seats /\ seat[k].player \in Players
              /\ seat[k].of \in SUBSET Principals /\ seat[k].gain \in 0..MaxGain
         /\ \A x \in Players : profile[x] # None =>
              /\ profile[x] \in Profiles
              /\ profile[x].of \in SUBSET Principals /\ profile[x].gain \in 0..MaxGain
         /\ MaxGain \in Nat /\ MaxFaults \in Nat
BY GuestAssumption DEF TypeOK, Seats, Profiles

\* Saving a seated guest changes no profile but its own, none of its principals, and
\* takes back no progress.
LEMMA SaveOutKeeps ==
  ASSUME TypeOK, SeatsBacked, NEW k \in Conns, seat[k] # None,
         NEW how \in Hows, SaveOut(k, how)
  PROVE  /\ profile' \in [Players -> Profiles \cup {None}]
         /\ \A x \in Players : x # seat[k].player => profile'[x] = profile[x]
         /\ \A x \in Players : profile[x] = None <=> profile'[x] = None
         /\ \A x \in Players : profile[x] # None =>
              profile'[x].of = profile[x].of /\ profile'[x].gain >= profile[x].gain
<1> DEFINE y == seat[k].player
<1>1. /\ y \in Players /\ seat[k].of \in SUBSET Principals /\ seat[k].gain \in 0..MaxGain
      /\ profile[y] # None /\ profile[y] \in Profiles
      /\ profile[y].of = seat[k].of /\ profile[y].gain <= seat[k].gain
      /\ profile[y].gain \in 0..MaxGain
  BY Shapes DEF SeatsBacked, Backed
<1>2. Runtime(k) = [of |-> seat[k].of, gain |-> seat[k].gain]
  BY DEF Runtime
<1>3. Runtime(k) \in Profiles /\ Runtime(k) # None
  BY <1>1, <1>2, NoneAssumption DEF Profiles
<1>4. profile' = [profile EXCEPT ![y] = Written(profile[y], Runtime(k), how)]
  BY DEF SaveOut
<1>5. Written(profile[y], Runtime(k), how) \in {profile[y], Runtime(k)}
  BY DEF Written
<1>6. profile \in [Players -> Profiles \cup {None}]
  BY DEF TypeOK
<1>7. /\ profile' \in [Players -> Profiles \cup {None}]
      /\ profile'[y] \in {profile[y], Runtime(k)}
      /\ \A x \in Players : x # y => profile'[x] = profile[x]
  BY <1>1, <1>3, <1>4, <1>5, <1>6
<1>8. /\ profile'[y] # None /\ profile'[y].of = profile[y].of
      /\ profile'[y].gain >= profile[y].gain
  BY <1>1, <1>2, <1>3, <1>7
<1>9. \A x \in Players : profile[x] # None =>
        profile'[x].of = profile[x].of /\ profile'[x].gain >= profile[x].gain
  BY <1>7, <1>8, Shapes
<1> QED BY <1>1, <1>7, <1>8, <1>9

\* A guest who leaves, however its profile is saved, leaves the rest sound.
LEMMA LeavingKeeps ==
  ASSUME IInv, NEW k \in Conns, seat[k] # None, NEW how \in Hows, SaveOut(k, how),
         seat' = [seat EXCEPT ![k] = None], UNCHANGED <<index, store>>,
         bans' # None
  PROVE  /\ profile' \in [Players -> Profiles \cup {None}]
         /\ seat' \in [Conns -> Seats \cup {None}]
         /\ OneSeatEach' /\ IndexBacked' /\ Apart' /\ Listed' /\ LinksOwn' /\ SeatsBacked'
         /\ \A x \in Players : profile[x] = None <=> profile'[x] = None
<1> USE DEF IInv, Sound
<1>1. /\ profile' \in [Players -> Profiles \cup {None}]
      /\ \A x \in Players : x # seat[k].player => profile'[x] = profile[x]
      /\ \A x \in Players : profile[x] = None <=> profile'[x] = None
      /\ \A x \in Players : profile[x] # None => profile'[x].of = profile[x].of
  BY SaveOutKeeps
<1>2. \A x \in Players, p \in Principals : Owns(x, p)' <=> Owns(x, p)
  BY <1>1 DEF Owns
<1>3. seat' \in [Conns -> Seats \cup {None}] /\ seat'[k] = None
      /\ \A j \in Conns \ {k} : seat'[j] = seat[j]
  BY DEF TypeOK
<1>4. OneSeatEach'
  BY <1>3 DEF OneSeatEach
<1>5. IndexBacked' /\ Apart' /\ Listed' /\ LinksOwn'
  BY <1>1, <1>2 DEF IndexBacked, Apart, Listed, LinksOwn
<1>6. SeatsBacked'
  <2> SUFFICES ASSUME NEW j \in Conns, seat'[j] # None PROVE Backed(seat[j])'
    BY <1>3 DEF SeatsBacked
  <2>1. j # k /\ seat'[j] = seat[j] /\ seat[j] # None
    BY <1>3
  <2>2. seat[j].player # seat[k].player /\ seat[j].player \in Players
    BY <2>1, Shapes DEF OneSeatEach
  <2>3. profile'[seat[j].player] = profile[seat[j].player]
    BY <1>1, <2>2
  <2> QED BY <2>1, <2>3 DEF SeatsBacked, Backed
<1> QED BY <1>1, <1>3, <1>4, <1>5, <1>6

LEMMA MoveKeeps ==
  ASSUME IInv, NEW k \in Conns,
         NEW from \in {"pending", "entering"}, NEW to \in {"entering", "ready"}, Move(k, from, to)
  PROVE  IInv'
<1> USE DEF IInv, Sound
<1>1. seat[k] # None /\ seat' = [seat EXCEPT ![k].at = to]
      /\ UNCHANGED <<profile, index, banFile, store, bans, kicked, host, sworn, faults>>
  BY DEF Move, At
<1>2. /\ seat' \in [Conns -> Seats \cup {None}]
      /\ \A j \in Conns : /\ seat'[j] = None <=> seat[j] = None
                          /\ seat[j] # None => /\ seat'[j].player = seat[j].player
                                               /\ seat'[j].of = seat[j].of
                                               /\ seat'[j].gain = seat[j].gain
  <2>1. seat'[k] = [seat[k] EXCEPT !.at = to] /\ \A j \in Conns \ {k} : seat'[j] = seat[j]
    BY <1>1 DEF TypeOK
  <2>2. seat[k] \in Seats
    BY <1>1, Shapes
  <2>3. /\ seat'[k] \in Seats /\ seat'[k].player = seat[k].player
        /\ seat'[k].of = seat[k].of /\ seat'[k].gain = seat[k].gain
    BY <2>1, <2>2 DEF Seats
  <2>4. seat'[k] # None
    BY <2>3, NoneAssumption
  <2>5. seat' \in [Conns -> Seats \cup {None}]
    BY <1>1, <2>1, <2>3 DEF TypeOK
  <2> QED BY <1>1, <2>1, <2>3, <2>4, <2>5
<1>3. TypeOK'
  BY <1>1, <1>2 DEF TypeOK
<1>4. OneSeatEach'
  BY <1>2 DEF OneSeatEach
<1>5. IndexBacked' /\ Apart' /\ Listed' /\ LinksOwn' /\ BansKept'
  BY <1>1 DEF IndexBacked, Apart, Listed, LinksOwn, BansKept, Owns, Recorded
<1>6. SeatsBacked'
  BY <1>1, <1>2 DEF SeatsBacked, Backed
<1> QED BY <1>3, <1>4, <1>5, <1>6

LEMMA PlayKeeps == ASSUME IInv, NEW k \in Conns, Play(k) PROVE IInv'
<1> USE DEF IInv, Sound
<1>1. seat[k] # None /\ seat' = [seat EXCEPT ![k].gain = @ + 1] /\ seat[k].gain < MaxGain
      /\ UNCHANGED <<profile, index, banFile, store, bans, kicked, host, sworn, faults>>
  BY DEF Play, At
<1>2. /\ seat' \in [Conns -> Seats \cup {None}]
      /\ \A j \in Conns : /\ seat'[j] = None <=> seat[j] = None
                          /\ seat[j] # None => /\ seat'[j].player = seat[j].player
                                               /\ seat'[j].of = seat[j].of
                                               /\ seat'[j].gain >= seat[j].gain
  <2>1. seat'[k] = [seat[k] EXCEPT !.gain = @ + 1] /\ \A j \in Conns \ {k} : seat'[j] = seat[j]
    BY <1>1 DEF TypeOK
  <2>2. seat[k] \in Seats /\ seat[k].gain \in 0..MaxGain /\ MaxGain \in Nat
    BY <1>1, Shapes
  <2>3. /\ seat'[k] \in Seats /\ seat'[k].player = seat[k].player
        /\ seat'[k].of = seat[k].of /\ seat'[k].gain = seat[k].gain + 1
    BY <1>1, <2>1, <2>2 DEF Seats
  <2>4. seat'[k] # None
    BY <2>3, NoneAssumption
  <2>5. seat' \in [Conns -> Seats \cup {None}]
    BY <1>1, <2>1, <2>3 DEF TypeOK
  <2>6. \A j \in Conns : seat[j] # None => seat[j].gain >= seat[j].gain
    BY Shapes
  <2> QED BY <1>1, <2>1, <2>2, <2>3, <2>4, <2>5, <2>6
<1>3. TypeOK'
  BY <1>1, <1>2 DEF TypeOK
<1>4. OneSeatEach'
  BY <1>2 DEF OneSeatEach
<1>5. IndexBacked' /\ Apart' /\ Listed' /\ LinksOwn' /\ BansKept'
  BY <1>1 DEF IndexBacked, Apart, Listed, LinksOwn, BansKept, Owns, Recorded
<1>6. SeatsBacked'
  <2> SUFFICES ASSUME NEW j \in Conns, seat'[j] # None PROVE Backed(seat[j])'
    BY DEF SeatsBacked
  <2>1. seat[j] # None /\ Backed(seat[j])
    BY <1>2 DEF SeatsBacked
  <2>2. seat[j].gain \in 0..MaxGain /\ profile[seat[j].player].gain \in 0..MaxGain
    BY <2>1, Shapes DEF Backed
  <2>3. seat'[j].gain \in 0..MaxGain
    BY <1>2, NoneAssumption DEF Seats
  <2> QED BY <1>1, <1>2, <2>1, <2>2, <2>3, Shapes DEF Backed
<1> QED BY <1>3, <1>4, <1>5, <1>6

LEMMA LeftKeeps == ASSUME IInv, NEW k \in Conns, Left(k) PROVE IInv'
<1> USE DEF IInv, Sound
<1>1. seat[k] # None /\ seat' = [seat EXCEPT ![k] = None]
      /\ UNCHANGED <<index, banFile, store, bans, kicked, host, sworn>>
  BY DEF Left, At
<1>2. bans # None /\ bans' # None
  BY <1>1 DEF SeatsBacked, Backed
<1>3. CASE UNCHANGED <<profile, faults>>
  <2>1. seat' \in [Conns -> Seats \cup {None}] /\ seat'[k] = None
        /\ \A j \in Conns \ {k} : seat'[j] = seat[j]
    BY <1>1 DEF TypeOK
  <2>2. TypeOK'
    BY <1>1, <1>3, <2>1 DEF TypeOK
  <2>3. IndexBacked' /\ Apart' /\ Listed' /\ LinksOwn' /\ BansKept'
    BY <1>1, <1>3 DEF IndexBacked, Apart, Listed, LinksOwn, BansKept, Owns, Recorded
  <2>4. OneSeatEach' /\ SeatsBacked'
    BY <1>1, <1>3, <2>1 DEF OneSeatEach, SeatsBacked, Backed
  <2> QED BY <2>2, <2>3, <2>4
<1>4. ASSUME NEW how \in Hows, Writes({<<"profile", how>>}), SaveOut(k, how) PROVE IInv'
  <2>1. /\ profile' \in [Players -> Profiles \cup {None}]
        /\ seat' \in [Conns -> Seats \cup {None}]
        /\ OneSeatEach' /\ IndexBacked' /\ Apart' /\ Listed' /\ LinksOwn' /\ SeatsBacked'
        /\ \A x \in Players : profile[x] = None <=> profile'[x] = None
    BY <1>1, <1>2, <1>4, LeavingKeeps
  <2>2. faults' \in 0..MaxFaults
    BY <1>4, WritesBounded
  <2>3. TypeOK'
    BY <1>1, <2>1, <2>2 DEF TypeOK
  <2>4. BansKept'
    BY <1>1, <2>1 DEF BansKept, Recorded, TypeOK
  <2> QED BY <2>1, <2>3, <2>4
<1> QED BY <1>3, <1>4 DEF Left

LEMMA KickKeeps == ASSUME IInv, NEW k \in Conns, Kick(k) PROVE IInv'
<1> USE DEF IInv, Sound
<1>1. /\ seat[k] # None /\ seat' = [seat EXCEPT ![k] = None]
      /\ kicked' = kicked \cup seat[k].of
      /\ UNCHANGED <<index, banFile, store, bans, host, sworn>>
  BY DEF Kick, At
<1>2. PICK how \in Hows : Writes({<<"profile", how>>}) /\ SaveOut(k, how)
  BY DEF Kick
<1>3. bans' # None /\ kicked' \subseteq Principals
  BY <1>1, Shapes DEF SeatsBacked, Backed, TypeOK
<1>4. /\ profile' \in [Players -> Profiles \cup {None}]
      /\ seat' \in [Conns -> Seats \cup {None}]
      /\ OneSeatEach' /\ IndexBacked' /\ Apart' /\ Listed' /\ LinksOwn' /\ SeatsBacked'
      /\ \A x \in Players : profile[x] = None <=> profile'[x] = None
  BY <1>1, <1>2, <1>3, LeavingKeeps
<1>5. faults' \in 0..MaxFaults
  BY <1>2, WritesBounded
<1>6. TypeOK'
  BY <1>1, <1>3, <1>4, <1>5 DEF TypeOK
<1>7. BansKept'
  BY <1>1, <1>4 DEF BansKept, Recorded, TypeOK
<1> QED BY <1>4, <1>6, <1>7

\* The list a ban leaves: the player's record is in it, and so is every other player's.
LEMMA BanningKeeps ==
  ASSUME NEW some \in SUBSET Bans, NEW x \in Players, NEW w \in SUBSET Principals
  PROVE  /\ Banning(some, x, w) \in SUBSET Bans
         /\ Recorded(x) \in Banning(some, x, w)
         /\ \A y \in Players : Recorded(y) \in some => Recorded(y) \in Banning(some, x, w)
<1>1. None \notin w
  BY NoneAssumption
<1>2. Banning(some, x, w) \in SUBSET Bans /\ Recorded(x) \in Banning(some, x, w)
  BY DEF Banning, Bans, Recorded
<1>3. ASSUME NEW y \in Players, Recorded(y) \in some PROVE Recorded(y) \in Banning(some, x, w)
  <2>1. Recorded(y).player = y /\ Recorded(y).principal = None
    BY DEF Recorded
  <2>2. CASE y = x
    BY <1>2, <2>2
  <2>3. CASE y # x
    BY <1>1, <1>3, <2>1, <2>3 DEF Banning
  <2> QED BY <2>2, <2>3
<1> QED BY <1>2, <1>3

LEMMA BanKeeps == ASSUME IInv, NEW k \in Conns, Ban(k) PROVE IInv'
<1> USE DEF IInv, Sound
<1> DEFINE x    == seat[k].player
           list == Banning(bans, x, seat[k].of)
<1>1. /\ seat[k] # None /\ seat' = [seat EXCEPT ![k] = None]
      /\ UNCHANGED <<index, store, kicked, host>>
  BY DEF Ban, At
<1>2. PICK how, then \in Hows :
        /\ SaveOut(k, how)
        /\ IF how # "ok"
           THEN /\ then = "ok" /\ Writes({<<"profile", how>>})
                /\ UNCHANGED <<banFile, bans, sworn>>
           ELSE /\ Writes({<<"bans", then>>})
                /\ bans' = list /\ banFile' = Written(banFile, list, then)
                /\ sworn' = IF then = "ok" THEN sworn \cup {x} ELSE sworn
  BY DEF Ban
<1>3. /\ x \in Players /\ seat[k].of \in SUBSET Principals
      /\ bans # None /\ bans \in SUBSET Bans /\ profile[x] # None
  BY <1>1, Shapes DEF SeatsBacked, Backed, TypeOK
<1>4. /\ list \in SUBSET Bans /\ Recorded(x) \in list
      /\ \A y \in Players : Recorded(y) \in bans => Recorded(y) \in list
  BY <1>3, BanningKeeps
<1>5. faults' \in 0..MaxFaults
  BY <1>2, WritesBounded
<1>6. bans' \in SUBSET Bans /\ banFile' \subseteq Bans /\ sworn' \subseteq Players
  BY <1>2, <1>3, <1>4 DEF Written, TypeOK
<1>7. /\ profile' \in [Players -> Profiles \cup {None}]
      /\ seat' \in [Conns -> Seats \cup {None}]
      /\ OneSeatEach' /\ IndexBacked' /\ Apart' /\ Listed' /\ LinksOwn' /\ SeatsBacked'
      /\ \A y \in Players : profile[y] = None <=> profile'[y] = None
  BY <1>1, <1>2, <1>6, NoneAssumption, LeavingKeeps
<1>8. TypeOK'
  BY <1>1, <1>5, <1>6, <1>7 DEF TypeOK
<1>9. BansKept'
  <2> SUFFICES ASSUME NEW y \in sworn'
               PROVE  profile'[y] # None /\ Recorded(y) \in banFile' /\ Recorded(y) \in bans'
    BY DEF BansKept, Recorded
  <2>1. y \in Players
    BY <1>6
  <2>2. CASE how # "ok"
    BY <1>2, <1>3, <1>7, <2>1, <2>2 DEF BansKept
  <2>3. CASE how = "ok" /\ y \in sworn
    BY <1>2, <1>3, <1>4, <1>7, <2>1, <2>3 DEF BansKept, Written
  <2>4. CASE how = "ok" /\ y \notin sworn
    <3>1. then = "ok" /\ y = x
      BY <1>2, <2>4
    <3> QED BY <1>2, <1>3, <1>4, <1>7, <2>1, <2>4, <3>1 DEF Written
  <2> QED BY <2>2, <2>3, <2>4
<1> QED BY <1>7, <1>8, <1>9

LEMMA UnbanKeeps == ASSUME IInv, NEW x \in Players, Unban(x) PROVE IInv'
<1> USE DEF IInv, Sound
<1> DEFINE list == {b \in BanList : b.player # x}
<1>1. /\ bans' = list /\ sworn' = sworn \ {x}
      /\ UNCHANGED <<profile, index, store, kicked, seat, host>>
  BY DEF Unban
<1>2. PICK how \in Hows : Writes({<<"bans", how>>}) /\ banFile' = Written(banFile, list, how)
  BY DEF Unban
<1>3. BanList \in SUBSET Bans
  BY LoadedOwns
<1>4. list \in SUBSET Bans /\ list # None
  BY <1>3, NoneAssumption
<1>5. faults' \in 0..MaxFaults
  BY <1>2, WritesBounded
<1>6. TypeOK'
  BY <1>1, <1>2, <1>4, <1>5 DEF TypeOK, Written
<1>7. OneSeatEach' /\ IndexBacked' /\ Apart' /\ Listed' /\ LinksOwn' /\ SeatsBacked'
  BY <1>1, <1>4 DEF OneSeatEach, IndexBacked, Apart, Listed, LinksOwn, SeatsBacked, Backed, Owns
<1>8. BansKept'
  <2> SUFFICES ASSUME NEW y \in sworn, y # x
               PROVE  profile[y] # None /\ Recorded(y) \in banFile' /\ Recorded(y) \in list
    BY <1>1 DEF BansKept, Recorded
  <2>1. profile[y] # None /\ Recorded(y) \in banFile /\ Recorded(y) \in BanList
    BY DEF BansKept, BanList
  <2>2. Recorded(y).player = y
    BY DEF Recorded
  <2> QED BY <1>2, <2>1, <2>2 DEF Written
<1> QED BY <1>6, <1>7, <1>8

LEMMA StopKeeps == ASSUME IInv, NEW how \in {"quit", "crashed"}, Stop(how) PROVE IInv'
BY DEF IInv, Sound, Stop, TypeOK, OneSeatEach, IndexBacked, Apart, Listed, LinksOwn, SeatsBacked,
       BansKept, Owns, Recorded

LEMMA StartKeeps == ASSUME IInv, Start PROVE IInv'
BY DEF IInv, Sound, Start, TypeOK, OneSeatEach, IndexBacked, Apart, Listed, LinksOwn, SeatsBacked,
       Backed, BansKept, Owns, Recorded

-----------------------------------------------------------------------------
(* Joining. *)

LEMMA LoadFailsKeeps == ASSUME IInv, LoadFails PROVE IInv'
<1> USE DEF IInv, Sound
<1>1. UNCHANGED <<profile, banFile, store, bans, kicked, seat, host, sworn>>
  BY DEF LoadFails
<1>2. PICK how \in Hows \ {"ok"} :
        Writes({<<"index", how>>}) /\ index' = Written(index, Repaired, how)
  BY DEF LoadFails
<1>3. /\ Repaired \in Links
      /\ \A p \in Principals : Repaired[p] # None => Repaired[p] \in Players /\ Owns(Repaired[p], p)
  BY RepairOwns DEF Links
<1>4. index' \in Links /\ IndexBacked'
  BY <1>1, <1>2, <1>3 DEF Written, IndexBacked, Owns, TypeOK
<1>5. faults' \in 0..MaxFaults
  BY <1>2, WritesBounded
<1>6. TypeOK'
  BY <1>1, <1>4, <1>5 DEF TypeOK
<1>7. OneSeatEach' /\ Apart' /\ Listed' /\ LinksOwn' /\ SeatsBacked' /\ BansKept'
  BY <1>1 DEF OneSeatEach, Apart, Listed, LinksOwn, SeatsBacked, Backed, BansKept, Owns, Recorded
<1> QED BY <1>4, <1>6, <1>7

\* A step that opens the stores and changes no profile and no seat.
LEMMA StoresOpenedKeeps ==
  ASSUME IInv, store' = Loaded, index' = IndexFile, bans' = BanList, faults' \in 0..MaxFaults,
         UNCHANGED <<profile, banFile, kicked, seat, host, sworn>>
  PROVE  IInv'
<1> USE DEF IInv, Sound
<1>1. TypeOK'
  BY LoadedOwns DEF TypeOK
<1>2. IndexBacked' /\ Apart' /\ Listed' /\ LinksOwn'
  BY LoadedOwns DEF IndexBacked, Apart, Listed, LinksOwn, Owns
<1>3. OneSeatEach' /\ SeatsBacked'
  BY LoadedOwns DEF OneSeatEach, SeatsBacked, Backed
<1>4. BansKept'
  BY DEF BansKept, BanList, Recorded
<1> QED BY <1>1, <1>2, <1>3, <1>4

LEMMA TurnedAwayKeeps == ASSUME IInv, NEW w, TurnedAway(w) PROVE IInv'
BY StoresOpenedKeeps DEF TurnedAway, IInv, TypeOK

\* What open_or_create makes of player x for the principals some.
LEMMA OpenedOwns ==
  ASSUME TypeOK, NEW x \in Players, NEW some \in SUBSET Principals
  PROVE  /\ Opened(x, some) \in Profiles /\ Opened(x, some) # None
         /\ some \subseteq Opened(x, some).of
         /\ \A p \in Opened(x, some).of \ some : Owns(x, p)
         /\ \A p \in Principals : Owns(x, p) => p \in Opened(x, some).of
         /\ Opened(x, some).gain = IF profile[x] = None THEN 0 ELSE profile[x].gain
<1>1. CASE profile[x] = None
  <2>1. Opened(x, some) = [of |-> some, gain |-> 0]
    BY <1>1 DEF Opened
  <2>2. Opened(x, some) \in Profiles
    BY <2>1, GuestAssumption DEF Profiles
  <2> QED BY <1>1, <2>1, <2>2, NoneAssumption DEF Owns
<1>2. CASE profile[x] # None
  <2>1. profile[x] \in Profiles
    BY <1>2, Shapes
  <2>2. Opened(x, some) = [of |-> profile[x].of \cup some, gain |-> profile[x].gain]
    BY <1>2, <2>1 DEF Opened, Profiles
  <2>3. Opened(x, some) \in Profiles
    BY <2>1, <2>2 DEF Profiles
  <2> QED BY <1>2, <2>1, <2>2, <2>3, NoneAssumption DEF Owns, Profiles
<1> QED BY <1>1, <1>2

\* Profile writes fail cleanly or not at all.
CleanProfiles == <<"profile", "landed">> \notin MayFail

\* The guards of a join that opens player x, and what they exclude.
MayOpen(k, w, x) ==
  /\ seat[k] = None /\ ~Seated(w.all) /\ ~Matches(BanList, None, w.all)
  /\ Known(w.all) = {x} \/ (Known(w.all) = {} /\ profile[x] = None)

LEMMA OpenIsApart ==
  ASSUME IInv, NEW k \in Conns, NEW w \in Proofs[k], NEW x \in Players, MayOpen(k, w, x)
  PROVE  /\ w.all \in SUBSET Principals /\ w.all # {}
         /\ \A p \in w.all, y \in Players : Owns(y, p) => y = x
         /\ \A j \in Conns : seat[j] # None => seat[j].player # x
<1> USE DEF IInv, Sound
<1>1. w.all \in SUBSET Principals /\ w.first \in w.all
  BY GuestAssumption
<1>2. \A p \in w.all, y \in Players : Owns(y, p) => y = x
  <2> SUFFICES ASSUME NEW p \in w.all, NEW y \in Players, Owns(y, p) PROVE y = x
    OBVIOUS
  <2>1. Loaded.link[p] = y
    BY <1>1, LoadedOwns
  <2>2. y \in Known(w.all)
    BY <2>1, NoneAssumption DEF Known
  <2> QED BY <2>2 DEF MayOpen
<1>3. ASSUME NEW j \in Conns, seat[j] # None, seat[j].player = x PROVE FALSE
  <2>1. profile[x] # None /\ profile[x].of = seat[j].of
    BY <1>3 DEF SeatsBacked, Backed
  <2>2. Known(w.all) = {x}
    BY <2>1 DEF MayOpen
  <2>3. PICK p \in w.all : Loaded.link[p] = x
    BY <2>2 DEF Known
  <2>4. p \in seat[j].of
    BY <1>1, <2>1, <2>3, LoadedOwns DEF Owns
  <2> QED BY <1>3, <2>4 DEF MayOpen, Seated
<1> QED BY <1>1, <1>2, <1>3

\* Once the profile is saved, the store, the index and the seat follow from it.
LEMMA SavedOpenKeeps ==
  ASSUME IInv, NEW k \in Conns, NEW w \in Proofs[k], NEW x \in Players,
         NEW then \in Hows, MayOpen(k, w, x), Open(k, w, x, "ok", then)
  PROVE  IInv'
<1> USE DEF IInv, Sound
<1> DEFINE p     == Opened(x, w.all)
           link  == [q \in Principals |-> IF q \in w.all THEN x ELSE Loaded.link[q]]
           dirty == Loaded.dirty \/ link # Loaded.link
<1>1. /\ w.all \in SUBSET Principals /\ w.all # {}
      /\ \A q \in w.all, y \in Players : Owns(y, q) => y = x
      /\ \A j \in Conns : seat[j] # None => seat[j].player # x
  BY OpenIsApart
<1>2. /\ profile' = [profile EXCEPT ![x] = p]
      /\ bans' = BanList
      /\ Writes({<<"index", then>>})
      /\ store' = [link |-> link, dirty |-> then # "ok"]
      /\ index' = IF dirty THEN Written(IndexFile, link, then) ELSE IndexFile
      /\ seat' = IF then = "ok" /\ ~Matches(BanList, x, p.of)
                 THEN [seat EXCEPT ![k] = [at |-> "pending", player |-> x,
                                           of |-> p.of, gain |-> p.gain]]
                 ELSE seat
      /\ UNCHANGED <<banFile, kicked, host, sworn>>
  BY DEF Open, Written
<1>3. /\ p \in Profiles /\ p # None /\ w.all \subseteq p.of
      /\ \A q \in p.of \ w.all : Owns(x, q)
      /\ \A q \in Principals : Owns(x, q) => q \in p.of
      /\ p.of \in SUBSET Principals /\ p.gain \in 0..MaxGain
  BY <1>1, OpenedOwns DEF Profiles
<1> HIDE DEF p
<1>4. /\ profile' \in [Players -> Profiles \cup {None}] /\ profile'[x] = p
      /\ \A y \in Players \ {x} : profile'[y] = profile[y]
  BY <1>2, <1>3 DEF TypeOK
<1>5. \A y \in Players, q \in Principals : Owns(y, q)' <=> IF q \in w.all THEN y = x ELSE Owns(y, q)
  <2> SUFFICES ASSUME NEW y \in Players, NEW q \in Principals
               PROVE  Owns(y, q)' <=> IF q \in w.all THEN y = x ELSE Owns(y, q)
    OBVIOUS
  <2>1. CASE y = x
    BY <1>3, <1>4, <2>1 DEF Owns
  <2>2. CASE y # x
    BY <1>1, <1>4, <2>2 DEF Owns
  <2> QED BY <2>1, <2>2
<1>6. link \in Links /\ \A q \in Principals, y \in Players : link[q] = y <=> Owns(y, q)'
  <2>1. Loaded.link \in Links /\ \A q \in Principals, y \in Players : Loaded.link[q] = y <=> Owns(y, q)
    BY LoadedOwns
  <2>2. link \in Links
    BY <1>1, <2>1 DEF Links
  <2> QED BY <1>5, <2>1, <2>2
<1> HIDE DEF link
<1>7. store' \in [link : Links, dirty : BOOLEAN] /\ LinksOwn' /\ store' # None
  <2>1. store'.link = link
    BY <1>2
  <2>2. store' \in [link : Links, dirty : BOOLEAN]
    BY <1>2, <1>6
  <2>3. LinksOwn'
    BY <1>6, <2>1 DEF LinksOwn, Owns
  <2> QED BY <2>2, <2>3, NoneAssumption
<1>8. Apart' /\ Listed'
  BY <1>1, <1>3, <1>4, <1>5 DEF Apart, Listed
<1>9. index' \in Links /\ IndexBacked'
  <2>1. /\ IndexFile \in Links
        /\ \A q \in Principals : IndexFile[q] # None =>
             IndexFile[q] \in Players /\ Owns(IndexFile[q], q)
    BY LoadedOwns
  <2>2. \A q \in Principals : IndexFile[q] # None =>
          \E y \in Players : IndexFile[q] = y /\ Owns(y, q)'
    BY <1>1, <1>5, <2>1
  <2>3. \A q \in Principals : link[q] # None => \E y \in Players : link[q] = y /\ Owns(y, q)'
    BY <1>6 DEF Links
  <2>4. index' \in {IndexFile, link}
    BY <1>2 DEF Written
  <2>5. \A q \in Principals : index'[q] # None =>
          \E y \in Players : index'[q] = y /\ Owns(y, q)'
    BY <2>2, <2>3, <2>4
  <2>6. IndexBacked'
    BY <2>5 DEF IndexBacked, Owns
  <2> QED BY <1>6, <2>1, <2>4, <2>6
<1>10. bans' \in SUBSET Bans /\ bans' # None
  BY <1>2, LoadedOwns
<1> DEFINE new == [at |-> "pending", player |-> x, of |-> p.of, gain |-> p.gain]
<1>11. new \in Seats /\ new # None
  BY <1>3, NoneAssumption DEF Seats
<1>12. seat' \in [Conns -> Seats \cup {None}]
       /\ \A j \in Conns : seat'[j] = seat[j] \/ (j = k /\ seat'[j] = new)
  BY <1>2, <1>11 DEF TypeOK
<1>13. faults' \in 0..MaxFaults
  BY <1>2, WritesBounded
<1>14. TypeOK'
  BY <1>2, <1>4, <1>7, <1>9, <1>10, <1>12, <1>13 DEF TypeOK
<1>15. OneSeatEach'
  BY <1>1, <1>12 DEF OneSeatEach
<1>16. SeatsBacked'
  <2> SUFFICES ASSUME NEW j \in Conns, seat'[j] # None PROVE Backed(seat[j])'
    BY DEF SeatsBacked
  <2>1. CASE seat'[j] = new
    BY <1>3, <1>4, <1>7, <1>10, <2>1, Shapes DEF Backed
  <2>2. CASE seat'[j] = seat[j]
    BY <1>1, <1>4, <1>7, <1>10, <2>2, Shapes DEF Backed, SeatsBacked
  <2> QED BY <1>12, <2>1, <2>2
<1>17. BansKept'
  <2>1. \A y \in Players : profile[y] # None => profile'[y] # None
    BY <1>3, <1>4
  <2>2. sworn \subseteq Players
    BY DEF TypeOK
  <2> QED BY <1>2, <2>1, <2>2 DEF BansKept, BanList, Recorded
<1> QED BY <1>7, <1>8, <1>9, <1>14, <1>15, <1>16, <1>17

LEMMA JoinKeeps ==
  ASSUME CleanProfiles, IInv, NEW k \in Conns, NEW w \in Proofs[k], Join(k, w)
  PROVE  IInv'
<1>1. CASE LoadFails
  BY <1>1, LoadFailsKeeps
<1>2. CASE TurnedAway(w)
  BY <1>2, TurnedAwayKeeps
<1>3. ASSUME NEW x \in Players, NEW how \in Hows, NEW then \in Hows,
             MayOpen(k, w, x), Open(k, w, x, how, then)
      PROVE  IInv'
  <2>1. CASE how = "ok"
    BY <1>3, <2>1, SavedOpenKeeps
  <2>2. CASE how # "ok"
    <3>1. Writes({<<"profile", how>>}) /\ TypeOK
      BY <1>3, <2>2 DEF Open, IInv
    <3>2. how = "lost" /\ faults' \in 0..MaxFaults
      BY <2>2, <3>1, WritesBounded DEF CleanProfiles, Hows
    <3>3. profile' = [profile EXCEPT ![x] = profile[x]]
      BY <1>3, <3>2 DEF Open, Written
    <3>4. profile' = profile
      BY <3>1, <3>3 DEF TypeOK
    <3>5. /\ store' = Loaded /\ index' = IndexFile /\ bans' = BanList
          /\ UNCHANGED <<banFile, kicked, seat, host, sworn>>
      BY <1>3, <2>2 DEF Open
    <3> QED BY <3>2, <3>4, <3>5, StoresOpenedKeeps
  <2> QED BY <2>1, <2>2
<1> QED BY <1>1, <1>2, <1>3 DEF Join, MayOpen

-----------------------------------------------------------------------------
(* Theorems. *)

LEMMA InitSound == Init => IInv
BY GuestAssumption, NoneAssumption
   DEF Init, IInv, Sound, TypeOK, Links, OneSeatEach, IndexBacked, Apart, Listed, LinksOwn,
       SeatsBacked, BansKept, Owns

LEMMA StepSound == ASSUME CleanProfiles, IInv, [Next]_vars PROVE IInv'
<1>1. CASE UNCHANGED vars
  BY <1>1 DEF vars, IInv, Sound, TypeOK, OneSeatEach, IndexBacked, Apart, Listed, LinksOwn,
              SeatsBacked, Backed, BansKept, Owns, Recorded
<1>2. ASSUME NEW k \in Conns, NEW w \in Proofs[k], Join(k, w) PROVE IInv'
  BY <1>2, JoinKeeps
<1>3. ASSUME NEW k \in Conns, Enter(k) \/ Ready(k) PROVE IInv'
  BY <1>3, MoveKeeps DEF Enter, Ready
<1>4. ASSUME NEW k \in Conns, Play(k) PROVE IInv'
  BY <1>4, PlayKeeps
<1>5. ASSUME NEW k \in Conns, Left(k) PROVE IInv'
  BY <1>5, LeftKeeps
<1>6. ASSUME NEW k \in Conns, Kick(k) PROVE IInv'
  BY <1>6, KickKeeps
<1>7. ASSUME NEW k \in Conns, Ban(k) PROVE IInv'
  BY <1>7, BanKeeps
<1>8. ASSUME NEW x \in Players, Unban(x) PROVE IInv'
  BY <1>8, UnbanKeeps
<1>9. CASE Quit \/ Crash
  BY <1>9, StopKeeps DEF Quit, Crash
<1>10. CASE Start
  BY <1>10, StartKeeps
<1> QED BY <1>1, <1>2, <1>3, <1>4, <1>5, <1>6, <1>7, <1>8, <1>9, <1>10 DEF Next

\* Whatever connections, proofs and failing writes there are (but a profile write that
\* lands and reports a failure), the stores, the seats and the bans fit together.
THEOREM Invariance == CleanProfiles => (Spec => []IInv)
<1> SUFFICES ASSUME CleanProfiles PROVE Spec => []IInv
  OBVIOUS
<1>1. Init => IInv
  BY InitSound
<1>2. IInv /\ [Next]_vars => IInv'
  BY StepSound
<1> QED BY <1>1, <1>2, PTL DEF Spec

\* No two connections ever hold one player.
THEOREM OneSeat == CleanProfiles => (Spec => []SessionInv)
<1>1. IInv => SessionInv
  BY DEF IInv, SessionInv
<1> QED BY <1>1, Invariance, PTL

\* Every start can load the profile store, and an open one agrees with what a start finds.
THEOREM StoreLoads == CleanProfiles => (Spec => []StoreAlwaysLoads)
<1>1. IInv => StoreAlwaysLoads
  <2> SUFFICES ASSUME IInv PROVE StoreAlwaysLoads
    OBVIOUS
  <2>1. /\ Loadable /\ Repaired \in Links
        /\ \A p \in Principals, x \in Players : Repaired[p] = x <=> Owns(x, p)
    BY RepairOwns DEF IInv, Sound
  <2>2. ASSUME store # None PROVE store.link = Repaired
    <3>1. /\ store.link \in Links
          /\ \A p \in Principals, x \in Players : store.link[p] = x <=> Owns(x, p)
      BY <2>2 DEF IInv, Sound, TypeOK, LinksOwn
    <3>2. \A p \in Principals : store.link[p] = Repaired[p]
      BY <2>1, <3>1 DEF Links
    <3> QED BY <2>1, <3>1, <3>2 DEF Links
  <2> QED BY <2>1, <2>2 DEF StoreAlwaysLoads
<1> QED BY <1>1, Invariance, PTL

\* Nobody seated is a player whose ban was reported done.
SeatedAllowed == \A k \in Conns : seat[k] # None => seat[k].player \notin sworn

LEMMA AllowedKept == ASSUME IInv, SeatedAllowed, [Next]_vars PROVE SeatedAllowed'
<1> USE DEF IInv, Sound
<1>1. CASE UNCHANGED vars
  BY <1>1 DEF vars, SeatedAllowed
<1>2. ASSUME NEW k \in Conns, NEW w \in Proofs[k], Join(k, w) PROVE SeatedAllowed'
  <2>1. CASE LoadFails \/ TurnedAway(w)
    BY <2>1 DEF LoadFails, TurnedAway, SeatedAllowed
  <2>2. ASSUME NEW x \in Players, NEW how \in Hows, NEW then \in Hows, Open(k, w, x, how, then)
        PROVE  SeatedAllowed'
    <3> DEFINE p == Opened(x, w.all)
    <3>1. sworn' = sworn
      BY <2>2 DEF Open
    <3>2. CASE seat' = seat
      BY <3>1, <3>2 DEF SeatedAllowed
    <3>3. CASE /\ ~Matches(BanList, x, p.of)
               /\ seat' = [seat EXCEPT ![k] = [at |-> "pending", player |-> x,
                                               of |-> p.of, gain |-> p.gain]]
      <4>1. x \notin sworn
        <5> SUFFICES ASSUME x \in sworn PROVE FALSE
          OBVIOUS
        <5>1. Recorded(x) \in BanList
          BY DEF BansKept, BanList
        <5>2. Recorded(x).player = x
          BY DEF Recorded
        <5> QED BY <3>3, <5>1, <5>2 DEF Matches
      <4>2. \A j \in Conns : seat'[j] = seat[j] \/ seat'[j].player = x
        BY <3>3 DEF TypeOK
      <4> QED BY <3>1, <4>1, <4>2 DEF SeatedAllowed
    <3> QED BY <2>2, <3>2, <3>3 DEF Open
  <2> QED BY <1>2, <2>1, <2>2 DEF Join
<1>3. ASSUME NEW k \in Conns, Enter(k) \/ Ready(k) \/ Play(k) PROVE SeatedAllowed'
  <2>1. /\ sworn' = sworn /\ seat[k] # None
        /\ \/ \E to \in {"entering", "ready"} : seat' = [seat EXCEPT ![k].at = to]
           \/ seat' = [seat EXCEPT ![k].gain = @ + 1]
    BY <1>3 DEF Enter, Ready, Move, Play, At
  <2>2. seat[k] \in Seats
    BY <2>1, Shapes
  <2>3. seat'[k].player = seat[k].player /\ \A j \in Conns \ {k} : seat'[j] = seat[j]
    BY <2>1, <2>2 DEF TypeOK, Seats
  <2> QED BY <2>1, <2>3 DEF SeatedAllowed
<1>4. ASSUME NEW k \in Conns, Left(k) \/ Kick(k) PROVE SeatedAllowed'
  <2>1. sworn' = sworn /\ seat' = [seat EXCEPT ![k] = None]
    BY <1>4 DEF Left, Kick
  <2> QED BY <2>1 DEF SeatedAllowed, TypeOK
<1>5. ASSUME NEW k \in Conns, Ban(k) PROVE SeatedAllowed'
  <2>1. /\ seat[k] # None /\ seat' = [seat EXCEPT ![k] = None]
        /\ sworn' \subseteq sworn \cup {seat[k].player}
    BY <1>5 DEF Ban, At
  <2>2. \A j \in Conns : seat'[j] # None => j # k /\ seat'[j] = seat[j]
    BY <2>1 DEF TypeOK
  <2>3. \A j \in Conns \ {k} : seat[j] # None => seat[j].player # seat[k].player
    BY <2>1 DEF OneSeatEach
  <2> QED BY <2>1, <2>2, <2>3 DEF SeatedAllowed
<1>6. CASE (\E x \in Players : Unban(x)) \/ Quit \/ Crash \/ Start
  BY <1>6 DEF Unban, Quit, Crash, Stop, Start, SeatedAllowed
<1> QED BY <1>1, <1>2, <1>3, <1>4, <1>5, <1>6 DEF Next

\* A ban reported done is on disk and keeps the player and its principals out, until it is
\* lifted.
THEOREM BansHold == CleanProfiles => (Spec => []BanHolds)
<1>1. IInv /\ SeatedAllowed => BanHolds
  <2> SUFFICES ASSUME IInv, SeatedAllowed, NEW x \in sworn
               PROVE  /\ Recorded(x) \in banFile
                      /\ \A k \in Conns : seat[k] # None =>
                           seat[k].player # x /\ seat[k].of \cap profile[x].of = {}
    BY DEF BanHolds, Recorded
  <2>1. x \in Players /\ profile[x] # None /\ Recorded(x) \in banFile
    BY DEF IInv, Sound, TypeOK, BansKept
  <2>2. ASSUME NEW k \in Conns, seat[k] # None
        PROVE  seat[k].player # x /\ seat[k].of \cap profile[x].of = {}
    <3> DEFINE y == seat[k].player
    <3>1. y # x
      BY <2>2 DEF SeatedAllowed
    <3>2. /\ y \in Players /\ profile[y] # None /\ profile[y].of = seat[k].of
          /\ seat[k].of \in SUBSET Principals
      BY <2>2, Shapes DEF IInv, Sound, SeatsBacked, Backed
    <3>3. \A p \in Principals : ~(Owns(x, p) /\ Owns(y, p))
      BY <2>1, <3>1, <3>2 DEF IInv, Sound, Apart
    <3> QED BY <2>1, <3>1, <3>2, <3>3 DEF Owns
  <2> QED BY <2>1, <2>2
<1>2. Init => SeatedAllowed
  BY DEF Init, SeatedAllowed
<1>3. IInv /\ SeatedAllowed /\ [Next]_vars => SeatedAllowed'
  BY AllowedKept
<1> QED BY <1>1, <1>2, <1>3, Invariance, PTL DEF Spec

-----------------------------------------------------------------------------
(* The refinement of PlayerBook. *)

Gains == [x \in Players |-> IF profile[x] = None THEN 0 ELSE profile[x].gain]

\* RepairOwns in the form that holds of a step's end as well.
RepairSound ==
  /\ Repaired \in Links
  /\ \A p \in Principals, x \in Players : Repaired[p] = x <=> Owns(x, p)
  /\ \A p \in Principals : Repaired[p] = None <=> \A x \in Players : ~Owns(x, p)

LEMMA InvRepairs == IInv => RepairSound
BY RepairOwns DEF IInv, Sound, RepairSound

\* Steps that change no profile's principals change no owner.
LEMMA OwnersStay ==
  ASSUME RepairSound, RepairSound',
         \A x \in Players, p \in Principals : Owns(x, p)' <=> Owns(x, p)
  PROVE  Repaired' = Repaired
<1>1. \A p \in Principals : Repaired'[p] = Repaired[p]
  BY DEF RepairSound, Links
<1> QED BY <1>1 DEF RepairSound, Links

LEMMA QuietStep ==
  ASSUME RepairSound, RepairSound', UNCHANGED profile
  PROVE  UNCHANGED Book!book
<1>1. Repaired' = Repaired
  BY OwnersStay DEF Owns
<1> QED BY <1>1 DEF Book!book

\* A guest on the way out keeps its progress, or nothing happens to the book.
LEMMA SavingStep ==
  ASSUME IInv, RepairSound, RepairSound', NEW k \in Conns, seat[k] # None,
         NEW how \in Hows, SaveOut(k, how)
  PROVE  Book!Next \/ UNCHANGED Book!book
<1>0. PICK y \in Players : y = seat[k].player
  BY Shapes DEF IInv
<1>1. /\ profile' \in [Players -> Profiles \cup {None}]
      /\ \A x \in Players : x # y => profile'[x] = profile[x]
      /\ \A x \in Players : profile[x] = None <=> profile'[x] = None
      /\ \A x \in Players : profile[x] # None =>
           profile'[x].of = profile[x].of /\ profile'[x].gain >= profile[x].gain
  BY <1>0, SaveOutKeeps DEF IInv, Sound
<1>2. Repaired' = Repaired
  BY <1>1, OwnersStay DEF Owns
<1>3. y \in Players /\ profile[y] # None
  BY <1>0 DEF IInv, Sound, SeatsBacked, Backed
<1>4. \E p \in Principals : Repaired[p] = y
  <2>1. PICK p \in profile[y].of : p \in Principals
    BY <1>3, Shapes DEF IInv, Sound, Listed
  <2> QED BY <1>3, <2>1 DEF RepairSound, Owns
<1>5. Gains' = [Gains EXCEPT ![y] = Gains'[y]]
  BY <1>1, <1>3 DEF Gains
<1>6. CASE profile'[y].gain = profile[y].gain
  <2>1. Gains' = Gains
    BY <1>1, <1>3, <1>6 DEF Gains
  <2> QED BY <1>2, <2>1 DEF Book!book, Gains
<1>7. CASE profile'[y].gain > profile[y].gain
  <2>1. Gains'[y] > Gains[y]
    BY <1>1, <1>3, <1>7 DEF Gains
  <2>2. Book!Keep(y)
    BY <1>2, <1>4, <1>5, <2>1 DEF Book!Keep, Gains
  <2> QED BY <1>3, <2>2 DEF Book!Next
<1>8. profile'[y].gain \in 0..MaxGain /\ profile[y].gain \in 0..MaxGain
  BY <1>1, <1>3, Shapes DEF IInv, Profiles
<1>9. profile'[y].gain >= profile[y].gain
  BY <1>1, <1>3
<1>10. profile'[y].gain = profile[y].gain \/ profile'[y].gain > profile[y].gain
  BY <1>8, <1>9, GuestAssumption
<1> QED BY <1>6, <1>7, <1>10

\* A join grants the principals it proved to one player, or nothing happens to the book.
LEMMA GrantingStep ==
  ASSUME IInv, RepairSound, RepairSound', NEW k \in Conns, NEW w \in Proofs[k],
         NEW x \in Players, NEW then \in Hows, MayOpen(k, w, x), Open(k, w, x, "ok", then)
  PROVE  Book!Next
<1> DEFINE p == Opened(x, w.all)
<1>1. /\ w.all \in SUBSET Principals
      /\ \A q \in w.all, y \in Players : Owns(y, q) => y = x
  BY OpenIsApart
<1>2. /\ p \in Profiles /\ p # None /\ w.all \subseteq p.of
      /\ \A q \in p.of \ w.all : Owns(x, q)
      /\ \A q \in Principals : Owns(x, q) => q \in p.of
      /\ p.gain = IF profile[x] = None THEN 0 ELSE profile[x].gain
  BY <1>1, OpenedOwns DEF IInv
<1>3. profile' = [profile EXCEPT ![x] = p]
  BY DEF Open, Written
<1> HIDE DEF p
<1>4. /\ profile'[x] = p /\ \A y \in Players \ {x} : profile'[y] = profile[y]
  BY <1>3 DEF IInv, TypeOK
<1>5. \A y \in Players, q \in Principals : Owns(y, q)' <=> IF q \in w.all THEN y = x ELSE Owns(y, q)
  <2> SUFFICES ASSUME NEW y \in Players, NEW q \in Principals
               PROVE  Owns(y, q)' <=> IF q \in w.all THEN y = x ELSE Owns(y, q)
    OBVIOUS
  <2>1. CASE y = x
    BY <1>2, <1>4, <2>1 DEF Owns
  <2>2. CASE y # x
    BY <1>1, <1>4, <2>2 DEF Owns
  <2> QED BY <2>1, <2>2
<1>6. \A q \in Principals : Repaired'[q] = IF q \in w.all THEN x ELSE Repaired[q]
  BY <1>1, <1>5 DEF RepairSound, Links
<1>7. Repaired' = [q \in Principals |-> IF q \in w.all THEN x ELSE Repaired[q]]
  BY <1>6 DEF RepairSound, Links
<1>8. \A q \in w.all : Repaired[q] \in {None, x}
  BY <1>1 DEF RepairSound, Links
<1>9. Gains' = Gains
  BY <1>2, <1>4 DEF Gains
<1>10. Book!Grant(x, w.all)
  BY <1>7, <1>8, <1>9 DEF Book!Grant, Gains
<1> QED BY <1>1, <1>10 DEF Book!Next

LEMMA StepIsBook ==
  ASSUME CleanProfiles, IInv, RepairSound, RepairSound', [Next]_vars
  PROVE  [Book!Next]_(Book!book)
<1>1. CASE UNCHANGED vars
  BY <1>1, QuietStep DEF vars
<1>2. ASSUME NEW k \in Conns, NEW w \in Proofs[k], Join(k, w)
      PROVE  Book!Next \/ UNCHANGED Book!book
  <2>1. CASE LoadFails \/ TurnedAway(w)
    BY <2>1, QuietStep DEF LoadFails, TurnedAway
  <2>2. ASSUME NEW x \in Players, NEW how \in Hows, NEW then \in Hows,
               MayOpen(k, w, x), Open(k, w, x, how, then)
        PROVE  Book!Next \/ UNCHANGED Book!book
    <3>1. CASE how = "ok"
      BY <2>2, <3>1, GrantingStep
    <3>2. CASE how # "ok"
      <4>1. Writes({<<"profile", how>>}) /\ TypeOK
        BY <2>2, <3>2 DEF Open, IInv
      <4>2. how = "lost"
        BY <3>2, <4>1, WritesBounded DEF CleanProfiles, Hows
      <4>3. profile' = [profile EXCEPT ![x] = profile[x]]
        BY <2>2, <4>2 DEF Open, Written
      <4> QED BY <4>1, <4>3, QuietStep DEF TypeOK
    <3> QED BY <3>1, <3>2
  <2> QED BY <1>2, <2>1, <2>2 DEF Join, MayOpen
<1>3. ASSUME NEW k \in Conns, Enter(k) \/ Ready(k) \/ Play(k) PROVE UNCHANGED Book!book
  BY <1>3, QuietStep DEF Enter, Ready, Move, Play
<1>4. ASSUME NEW k \in Conns, Left(k) \/ Kick(k) \/ Ban(k)
      PROVE  Book!Next \/ UNCHANGED Book!book
  <2>1. seat[k] # None
    BY <1>4 DEF Left, Kick, Ban, At
  <2>2. CASE UNCHANGED profile
    BY <2>2, QuietStep
  <2>3. CASE \E how \in Hows : SaveOut(k, how)
    BY <2>1, <2>3, SavingStep
  <2> QED BY <1>4, <2>2, <2>3 DEF Left, Kick, Ban
<1>5. CASE (\E x \in Players : Unban(x)) \/ Quit \/ Crash \/ Start
  BY <1>5, QuietStep DEF Unban, Quit, Crash, Stop, Start
<1> QED BY <1>1, <1>2, <1>3, <1>4, <1>5 DEF Next

\* The profile store keeps the book of players: a principal that has reached a player
\* reaches that player for ever, and saved progress is never rolled back.
THEOREM BookKept == CleanProfiles => (Spec => ImplementsBook)
<1> SUFFICES ASSUME CleanProfiles PROVE Spec => ImplementsBook
  OBVIOUS
<1>1. Init => Book!Init
  <2> SUFFICES ASSUME Init PROVE Book!Init
    OBVIOUS
  <2>1. RepairSound /\ \A x \in Players : profile[x] = None
    BY InitSound, InvRepairs DEF Init
  <2>2. Repaired = [p \in Principals |-> None]
    BY <2>1 DEF RepairSound, Owns, Links
  <2> QED BY <2>1, <2>2 DEF Book!Init
<1>2. Spec => []IInv
  BY Invariance
<1>3. IInv => RepairSound
  BY InvRepairs
<1>4. IInv /\ RepairSound /\ RepairSound' /\ [Next]_vars => [Book!Next]_(Book!book)
  BY StepIsBook
<1> QED BY <1>1, <1>2, <1>3, <1>4, PTL DEF Spec, ImplementsBook, Book!Spec
=================================================================================
