------------------------------ MODULE GuestSession ------------------------------
(***************************************************************************)
(* src/src/multiplayer/host/{join,entry,admission,pump_events,             *)
(* moderation_actions}.rs, multiplayer/{profiles,moderation,roster}.rs:    *)
(* who is seated at a host, and what of a player outlives the connection,  *)
(* the process and a failed write.                                         *)
(*                                                                         *)
(* The host handles one network event at a time, so every handler is one   *)
(* step; a write inside it may fail, or report a failure after the file    *)
(* was replaced ("landed").  A connection presents the principals its      *)
(* handshake proved, the first of them first.  A player's progress is a    *)
(* version that play moves forward.  Names, content and terrain only       *)
(* refuse or delay an entry, and are left out.                             *)
(***************************************************************************)
EXTENDS Naturals, FiniteSets

CONSTANTS None, Conns, Principals,
          Players,                          \* PlayerIds that can be drawn
          Proofs,                           \* what a connection may present
          MayFail,                          \* <<file, "lost" or "landed">>
          MaxGain, MaxFaults                \* bounds

ASSUME GuestAssumption ==
  /\ Proofs \in [Conns -> SUBSET [first : Principals, all : SUBSET Principals]]
  /\ \A k \in Conns : \A w \in Proofs[k] : w.first \in w.all
  /\ MayFail \subseteq {"profile", "index", "bans"} \X {"lost", "landed"}
  /\ {MaxGain, MaxFaults} \subseteq Nat

Profiles == [of : SUBSET Principals, gain : 0..MaxGain]
Bans     == [player : Players, principal : Principals \cup {None}]
Links    == [Principals -> Players \cup {None}]
Seats    == [at : {"pending", "entering", "ready"}, player : Players,
             of : SUBSET Principals, gain : 0..MaxGain]

\* None is no player, no principal and no record.
ASSUME NoneAssumption ==
  /\ None \notin Players \cup Principals \cup Profiles \cup Seats
  /\ None \notin [link : Links, dirty : BOOLEAN]
  /\ \A some \in SUBSET Bans : some # None

VARIABLES profile,   \* players/<id>.toml, or None
          index,     \* players/index.toml
          banFile,   \* moderation/bans.toml
          store,     \* ProfileStore, or None until the first join
          bans,      \* ModerationStore, or None
          kicked,    \* HostSession.banned
          seat,      \* pending_guests and guests, by connection
          host,      \* "up", "quit", "crashed"
          sworn,     \* players whose ban was reported done and not lifted since
          faults     \* failing writes left
files == <<profile, index, banFile>>
vars  == <<profile, index, banFile, store, bans, kicked, seat, host, sworn, faults>>

Init ==
  /\ profile = [x \in Players |-> None] /\ index = [p \in Principals |-> None] /\ banFile = {}
  /\ store = None /\ bans = None /\ kicked = {} /\ seat = [k \in Conns |-> None]
  /\ host = "up" /\ sworn = {} /\ faults = MaxFaults

Hows == {"ok", "lost", "landed"}

\* atomic_write: the file, given its new content and how the write went.
Written(old, new, how) == IF how = "lost" THEN old ELSE new

\* A handler's writes, and how each went.
Writes(made) ==
  /\ \A write \in made : write[2] = "ok" \/ write \in MayFail
  /\ LET failed == Cardinality({write \in made : write[2] # "ok"}) IN
     faults >= failed /\ faults' = faults - failed

-----------------------------------------------------------------------------
(* The stores. *)

\* repair_index_from_profiles: an index link counts while its profile exists, and a
\* profile's own list of principals counts always.
Claims(p)  == {x \in Players : profile[x] # None /\ (p \in profile[x].of \/ index[p] = x)}
Loadable   == \A p \in Principals : Cardinality(Claims(p)) <= 1
Repaired   == [p \in Principals |-> IF Claims(p) = {} THEN None
                                    ELSE CHOOSE x \in Players : x \in Claims(p)]

Matches(some, x, w) == \E b \in some : b.player = x \/ b.principal \in w

\* shares_principal, over guests and pending_guests.
\* Fault: those still waiting for their terrain are not asked.
SeatedGuest(w) ==
  \E k \in Conns : seat[k] # None /\ seat[k].at # "pending" /\ seat[k].of \cap w # {}
Seated(w)      == \E k \in Conns : seat[k] # None /\ seat[k].of \cap w # {}

-----------------------------------------------------------------------------
(* Joining.  The first join that is not refused at once opens the stores.  *)
(* A refused one leaves the seats alone; what it has opened or saved stays. *)

\* Fault: the index file is believed.
LoadedIndex == IF store # None THEN store ELSE [link |-> index, dirty |-> FALSE]
Loaded    == IF store # None THEN store ELSE [link |-> Repaired, dirty |-> FALSE]
IndexFile == IF store # None THEN index ELSE Repaired
\* Fault: each session begins with no bans.
BanListAnew == IF bans # None THEN bans ELSE {}
BanList   == IF bans # None THEN bans ELSE banFile
Known(w)  == {Loaded.link[p] : p \in w} \ {None}

\* ProfileStore::load cannot write the repaired index: no store is opened.
LoadFails ==
  /\ store = None /\ Repaired # index
  /\ \E how \in Hows \ {"ok"} : /\ Writes({<<"index", how>>})
                              /\ index' = Written(index, Repaired, how)
  /\ UNCHANGED <<profile, banFile, store, bans, kicked, seat, host, sworn>>

\* check_bans, or principals of two different players.
TurnedAway(w) ==
  /\ Matches(BanList, None, w.all) \/ Cardinality(Known(w.all)) > 1
  /\ store' = Loaded /\ index' = IndexFile /\ bans' = BanList
  /\ UNCHANGED <<profile, banFile, kicked, seat, host, sworn, faults>>

\* Fault: a player who comes back is created anew.
OpenedAnew(x, w) == [of |-> w, gain |-> 0]
Opened(x, w) == IF profile[x] = None THEN [of |-> w, gain |-> 0]
                ELSE [profile[x] EXCEPT !.of = @ \cup w]

\* open_or_create for player x: the profile with all its principals is saved first, then
\* the index if a link changed or an earlier write of it failed; then admit.
Open(k, w, x, how, then) ==
  LET p      == Opened(x, w.all)
      link   == [q \in Principals |-> IF q \in w.all THEN x ELSE Loaded.link[q]]
      dirty  == Loaded.dirty \/ link # Loaded.link IN
  /\ profile' = [profile EXCEPT ![x] = Written(@, p, how)]
  /\ bans' = BanList
  /\ IF how # "ok"
     THEN then = "ok" /\ Writes({<<"profile", how>>})
          /\ store' = Loaded /\ index' = IndexFile /\ UNCHANGED seat
     ELSE /\ Writes({<<"index", then>>}) /\ (dirty \/ then = "ok")
          /\ store' = [link |-> link, dirty |-> then # "ok"]
          /\ index' = IF dirty THEN Written(IndexFile, link, then) ELSE IndexFile
          /\ seat' = IF then = "ok" /\ ~Matches(BanList, x, p.of)
                     THEN [seat EXCEPT ![k] = [at |-> "pending", player |-> x,
                                               of |-> p.of, gain |-> p.gain]]
                     ELSE seat
  /\ UNCHANGED <<banFile, kicked, host, sworn>>

Join(k, w) ==
  /\ host = "up" /\ seat[k] = None /\ w.first \notin kicked /\ ~Seated(w.all)
  /\ store = None => Loadable
  /\ \/ LoadFails
     \/ TurnedAway(w)
     \/ /\ ~Matches(BanList, None, w.all)
        /\ \E x \in Players, how, then \in Hows :
             /\ Known(w.all) = {x} \/ (Known(w.all) = {} /\ profile[x] = None)
             /\ Open(k, w, x, how, then)

-----------------------------------------------------------------------------
(* Seated. *)

At(k, stage) == host = "up" /\ seat[k] # None /\ seat[k].at \in stage

\* try_finish_pending_entry once the entry terrain is resident; EntryReady.
Move(k, from, to) ==
  /\ At(k, {from}) /\ seat' = [seat EXCEPT ![k].at = to]
  /\ UNCHANGED <<profile, index, banFile, store, bans, kicked, host, sworn, faults>>
Enter(k) == Move(k, "pending", "entering")
Ready(k) == Move(k, "entering", "ready")

\* Play is authoritative on the host, and stays in memory.
Play(k) ==
  /\ At(k, {"ready"}) /\ seat[k].gain < MaxGain
  /\ seat' = [seat EXCEPT ![k].gain = @ + 1]
  /\ UNCHANGED <<profile, index, banFile, store, bans, kicked, host, sworn, faults>>

Runtime(k) == [of |-> seat[k].of, gain |-> seat[k].gain]

\* PlayerRuntime::from_guest saved by the way out; a failure is only logged.
SaveOut(k, how) ==
  profile' = [profile EXCEPT ![seat[k].player] = Written(@, Runtime(k), how)]

\* HostEvent::Left.
Left(k) ==
  /\ At(k, {"pending", "entering", "ready"})
  /\ seat' = [seat EXCEPT ![k] = None]
  /\ IF seat[k].at = "pending" THEN UNCHANGED <<profile, faults>>
     ELSE \E how \in Hows : Writes({<<"profile", how>>}) /\ SaveOut(k, how)
  /\ UNCHANGED <<index, banFile, store, bans, kicked, host, sworn>>

\* kick_guest; the Left that follows finds no guest.
Kick(k) ==
  /\ At(k, {"entering", "ready"})
  /\ \E how \in Hows : Writes({<<"profile", how>>}) /\ SaveOut(k, how)
  /\ kicked' = kicked \cup seat[k].of /\ seat' = [seat EXCEPT ![k] = None]
  /\ UNCHANGED <<index, banFile, store, bans, host, sworn>>

-----------------------------------------------------------------------------
(* Bans. *)

\* ModerationStore::ban: the player's record, and one for each principal.
Banning(some, x, w) ==
  {b \in some : b.player # x /\ b.principal \notin w}
    \cup {[player |-> x, principal |-> p] : p \in w \cup {None}}

\* ban_guest: the guest is gone whether or not the writes succeed, and is banned only
\* once the profile is saved.
Ban(k) ==
  /\ At(k, {"entering", "ready"})
  /\ seat' = [seat EXCEPT ![k] = None]
  /\ \E how, then \in Hows :
       LET x == seat[k].player  list == Banning(bans, x, seat[k].of) IN
       /\ SaveOut(k, how)
       /\ IF how # "ok"
          THEN /\ then = "ok" /\ Writes({<<"profile", how>>})
               /\ UNCHANGED <<banFile, bans, sworn>>
          ELSE /\ Writes({<<"bans", then>>})
               /\ bans' = list /\ banFile' = Written(banFile, list, then)
               /\ sworn' = IF then = "ok" THEN sworn \cup {x} ELSE sworn
  /\ UNCHANGED <<index, store, kicked, host>>

\* unban_player.
Unban(x) ==
  LET list == {b \in BanList : b.player # x} IN
  /\ host = "up" /\ list # BanList
  /\ \E how \in Hows : Writes({<<"bans", how>>}) /\ banFile' = Written(banFile, list, how)
  /\ bans' = list /\ sworn' = sworn \ {x}
  /\ UNCHANGED <<profile, index, store, kicked, seat, host>>

-----------------------------------------------------------------------------
(* The process.  A crash between two writes of a handler is one that comes  *)
(* after the second was lost.                                              *)

Stop(how) ==
  /\ host = "up" /\ host' = how
  /\ store' = None /\ bans' = None /\ kicked' = {} /\ seat' = [k \in Conns |-> None]
  /\ UNCHANGED <<profile, index, banFile, sworn, faults>>

\* quit_to_title: the world is saved, then the session is dropped with its guests.
Quit  == Stop("quit")
Crash == Stop("crashed")
Start == /\ host # "up" /\ host' = "up"
         /\ UNCHANGED <<profile, index, banFile, store, bans, kicked, seat, sworn, faults>>

Next ==
  \/ \E k \in Conns : \/ \E w \in Proofs[k] : Join(k, w)
                      \/ Enter(k) \/ Ready(k) \/ Play(k) \/ Left(k) \/ Kick(k) \/ Ban(k)
  \/ \E x \in Players : Unban(x)
  \/ Quit \/ Crash \/ Start

Spec == Init /\ [][Next]_vars

-----------------------------------------------------------------------------
(* Properties. *)

\* Every variable keeps its type.
TypeOK ==
  /\ profile \in [Players -> Profiles \cup {None}] /\ index \in Links /\ banFile \subseteq Bans
  /\ store \in [link : Links, dirty : BOOLEAN] \cup {None}
  /\ bans \in {None} \cup SUBSET Bans /\ kicked \subseteq Principals
  /\ seat \in [Conns -> Seats \cup {None}] /\ host \in {"up", "quit", "crashed"}
  /\ sworn \subseteq Players /\ faults \in 0..MaxFaults

\* A player sits once: two connections never hold the same PlayerId, whatever principals
\* each has proved, so no save of one can overwrite the other's (on_join compares
\* principals only; open_or_create picks the player).
OneSeatEach ==
  \A j, k \in Conns : j # k /\ seat[j] # None /\ seat[k] # None
                     => seat[j].player # seat[k].player

\* The tables of the session are sound at every event.
SessionInv == TypeOK /\ OneSeatEach

\* The profiles on disk never claim one principal twice, which would make every later
\* start refuse the whole store (repair_index_from_profiles), and the open store resolves
\* each principal as a fresh load would.
StoreAlwaysLoads == Loadable /\ (store # None => store.link = Repaired)

\* A ban reported done is on disk with the player's own record, and neither the player nor
\* a principal of its profile is seated, through restarts and failed writes, until it is
\* lifted.
BanHolds ==
  \A x \in sworn :
    /\ [player |-> x, principal |-> None] \in banFile
    /\ \A k \in Conns : seat[k] # None => /\ seat[k].player # x
                                        /\ seat[k].of \cap profile[x].of = {}

\* The durable files implement the book of players: a principal reaches the same player
\* for ever, and saved progress is never rolled back.
Book == INSTANCE PlayerBook WITH
          owner <- Repaired,
          progress <- [x \in Players |-> IF profile[x] = None THEN 0 ELSE profile[x].gain]
ImplementsBook == Book!Spec

\* Violated.  "Server-side player state survives reconnects"
\* (src/docs/multiplayer-identity-plan.md:48): a host that ends in order has the state of
\* every guest in a saved profile.
QuitKeepsProgress ==
  [][\A k \in Conns : Quit /\ seat[k] # None => profile'[seat[k].player] = Runtime(k)]_vars
=================================================================================
