------------------------------ MODULE ItemCustody ------------------------------
(***************************************************************************)
(* src/src/multiplayer/host/{requests_inventory,requests_containers,       *)
(* replies,pump_delivery,pump_containers,damage}.rs, player_ops/container  *)
(* .rs, game/{navigation,containers/*,remote/{containers,connection}}.rs:  *)
(* the items guests carry, click about, put in a shared chest, drop, are   *)
(* owed and leave with, and what each guest's screen shows of them.        *)
(*                                                                         *)
(* The host handles one message at a time and owns every stack.  A click   *)
(* is sent and applied to the guest's own view at once; the state the host *)
(* sends back replaces the view.  Both directions are reliable and in      *)
(* order.  Give and HeldResult are followed at once by a PlayerState with  *)
(* the same content, which stands for them.  There is one chest block;     *)
(* positions decide only who is near, crafting and armour are left out,    *)
(* and a profile's save succeeds.                                          *)
(***************************************************************************)
EXTENDS Stacks, FiniteSets

CONSTANTS Guests, Chest,              \* the item that places the chest block
          Deep,                       \* guests that stand in a dungeon
          PackSize, GridSize, ChestSize,
          Start, Lookers,             \* where things are, and who may have the chest open
          MaxActs, MaxInFlight        \* bounds

Row(n)   == [1..n -> Slot]
Empty(n) == [i \in 1..n |-> None]
Kit      == [pack : Row(PackSize), cursor : Slot]     \* what PlayerState and a profile hold
Bodies   == [pack : Row(PackSize), cursor : Slot, grid : Row(GridSize), open : BOOLEAN, alive : BOOLEAN]

ASSUME CustodyAssumption ==
  /\ Chest \in Kinds /\ {PackSize, GridSize, ChestSize} \subseteq Nat \ {0}
  /\ \A g \in Guests : Start[g] \in [pack : Row(PackSize), cursor : Slot, grid : Row(GridSize)]
  /\ Start["chest"] \in Row(ChestSize) /\ {MaxActs, MaxInFlight} \subseteq Nat
  /\ Lookers \subseteq SUBSET Guests /\ Deep \subseteq Guests
  /\ IsFiniteSet(Guests) /\ "chest" \notin Guests
ASSUME NoneIsNothing == None \notin Row(ChestSize) \cup Guests \cup Bodies

VARIABLES
  profile,   \* the stored profile of each player
  body,      \* Guest, or None when not connected
  block,     \* whether the chest block stands
  chest,     \* its block entity: what it holds, or None
  edited,    \* whether edit_log holds a change of the block
  owed,      \* pending_gives: whose, or None's, and what
  fallen,    \* pending_drops
  loose,     \* loose items lying about
  buried,    \* items settled in the material ledger
  lost,      \* history: items that ceased to be anywhere
  up, down,  \* messages on the way to the host and to each guest
  view,      \* what each guest's screen shows
  acts       \* what guests and the wild may still do
held == <<profile, body, block, chest, edited, owed, fallen, loose, buried, lost>>
vars == <<profile, body, block, chest, edited, owed, fallen, loose, buried, lost, up, down, view, acts>>

Seated(g)   == body[g] # None
Carries(kit, grid, open, alive) ==
  [pack |-> kit.pack, cursor |-> kit.cursor, grid |-> grid, open |-> open, alive |-> alive]
Stored(b) == [pack |-> b.pack, cursor |-> b.cursor, alive |-> b.alive]
Shows(kit) ==
  [pack |-> kit.pack, cursor |-> kit.cursor, grid |-> Empty(GridSize),
   screen |-> "playing", chest |-> None, edit |-> FALSE]

\* Some guests have the chest open; Start is what each carries and what the chest holds.  A
\* grid's items are on the host only, once the screen it was filled on is closed (Close).
Init ==
  /\ block = TRUE /\ chest = Start["chest"]
  /\ \E looking \in Lookers :
       /\ body = [g \in Guests |-> Carries(Start[g], Start[g].grid, g \in looking, TRUE)]
       /\ view = [g \in Guests |-> IF g \in looking
                                  THEN [Shows(Start[g]) EXCEPT !.screen = "chest", !.chest = chest]
                                  ELSE Shows(Start[g])]
  /\ profile = [g \in Guests |-> Stored(body[g])]
  /\ edited = FALSE /\ owed = <<>> /\ fallen = <<>> /\ loose = <<>>
  /\ buried = [k \in Kinds |-> 0] /\ lost = [k \in Kinds |-> 0]
  /\ up = [g \in Guests |-> <<>>] /\ down = [g \in Guests |-> <<>>] /\ acts = MaxActs

-----------------------------------------------------------------------------
(* Messages from the host. *)

KitOf(b)       == [pack |-> b.pack, cursor |-> b.cursor]
PlayerState(b) == [is |-> "state", kit |-> KitOf(b)]
Container(c)   == [is |-> "chest", slots |-> c]
BlockSet       == [is |-> "block"]
Hit            == [is |-> "hit"]

Told(g, some) == down' = [down EXCEPT ![g] = @ \o some]

\* send_container: nothing is said of a block entity that is gone.
Contents(c) == IF c = None THEN <<>> ELSE <<Container(c)>>

\* A guest's items change, and it is told.
Becomes(g, b) == body' = [body EXCEPT ![g] = b] /\ Told(g, <<PlayerState(b)>>)

-----------------------------------------------------------------------------
(* Requests of a guest, in the order they were sent. *)

Asked(g, what) ==
  /\ Seated(g) /\ up[g] # <<>> /\ Head(up[g]).do = what
  /\ up' = [up EXCEPT ![g] = Tail(@)] /\ UNCHANGED <<view, acts>>

\* Out of reach, over the rate of edits, or nothing there to act on.
Refuse(g) ==
  /\ \E what \in {"open", "break", "place"} : Asked(g, what)
  /\ UNCHANGED <<held, down>>

\* OpenContainer makes the block entity when there is none.
OpenContainer(g) ==
  /\ Asked(g, "open") /\ block
  /\ chest' = IF chest = None THEN Empty(ChestSize) ELSE chest
  /\ body' = [body EXCEPT ![g].open = TRUE] /\ Told(g, <<Container(chest')>>)
  /\ UNCHANGED <<profile, block, edited, owed, fallen, loose, buried, lost>>

\* container_click: only the container the guest has open, and only while it exists.
ContainerClick(g) ==
  LET m == Head(up[g])  b == body[g] IN
  /\ Asked(g, "click")
  /\ IF b.open /\ chest # None
     THEN LET after == Click(chest[m.slot], b.cursor, m.right)
              now   == [b EXCEPT !.cursor = after[2]] IN
          /\ chest' = [chest EXCEPT ![m.slot] = after[1]]
          /\ body' = [body EXCEPT ![g] = now]
          /\ Told(g, <<PlayerState(now), Container(chest')>>)
     ELSE UNCHANGED <<chest, body, down>>
  /\ UNCHANGED <<profile, block, edited, owed, fallen, loose, buried, lost>>

CloseContainer(g) ==
  /\ Asked(g, "close") /\ body' = [body EXCEPT ![g].open = FALSE]
  /\ UNCHANGED <<profile, block, chest, edited, owed, fallen, loose, buried, lost, down>>

\* A click in the pack or the craft grid, on what holds them: a guest or a view.
Clicked(b, m) ==
  IF m.area = "pack"
  THEN LET after == Click(b.pack[m.slot], b.cursor, m.right) IN
       [b EXCEPT !.pack[m.slot] = after[1], !.cursor = after[2]]
  ELSE LET after == Click(b.grid[m.slot], b.cursor, m.right) IN
       [b EXCEPT !.grid[m.slot] = after[1], !.cursor = after[2]]

\* Fault: the click is not answered.
InventoryClickUnanswered(g) ==
  /\ Asked(g, "inventory") /\ body' = [body EXCEPT ![g] = Clicked(body[g], Head(up[g]))]
  /\ UNCHANGED <<profile, block, chest, edited, owed, fallen, loose, buried, lost, down>>

InventoryClick(g) ==
  /\ Asked(g, "inventory") /\ Becomes(g, Clicked(body[g], Head(up[g])))
  /\ UNCHANGED <<profile, block, chest, edited, owed, fallen, loose, buried, lost>>

\* Break: the chest spills what it holds where it stood, and is itself owed to the guest.
Break(g) ==
  /\ Asked(g, "break") /\ block
  /\ block' = FALSE /\ chest' = None /\ edited' = TRUE
  /\ fallen' = IF chest = None THEN fallen ELSE fallen \o Filled(chest)
  /\ owed' = Append(owed, <<g, Some(Chest, 1)>>) /\ Becomes(g, body[g])
  /\ UNCHANGED <<profile, loose, buried, lost>>

\* Place, from the first slot.
Place(g) ==
  LET b == body[g]  hand == b.pack[1] IN
  /\ Asked(g, "place") /\ ~block /\ Held(hand, Chest) > 0
  /\ block' = TRUE /\ edited' = TRUE
  /\ Becomes(g, [b EXCEPT !.pack[1] = Some(Chest, hand.count - 1)])
  /\ UNCHANGED <<profile, chest, owed, fallen, loose, buried, lost>>

\* Respawn, of a guest that has died.
Respawn(g) ==
  /\ Asked(g, "respawn")
  /\ IF body[g].alive THEN UNCHANGED <<body, down>> ELSE Becomes(g, [body[g] EXCEPT !.alive = TRUE])
  /\ UNCHANGED <<profile, block, chest, edited, owed, fallen, loose, buried, lost>>

Handle(g) ==
  \/ Refuse(g) \/ OpenContainer(g) \/ ContainerClick(g) \/ CloseContainer(g)
  \/ InventoryClick(g) \/ Break(g) \/ Place(g) \/ Respawn(g)

-----------------------------------------------------------------------------
(* What the host does by itself. *)

Bare(b) == [b EXCEPT !.pack = Empty(PackSize), !.cursor = None, !.grid = Empty(GridSize)]

\* hurt_guest to death: everything a guest carries falls, in a dungeon too.
Die(g) ==
  LET b == body[g]  dead == [Bare(b) EXCEPT !.alive = FALSE] IN
  /\ Seated(g) /\ b.alive /\ acts > 0 /\ acts' = acts - 1
  /\ fallen' = fallen \o Filled(b.pack \o <<b.cursor>> \o b.grid)
  /\ body' = [body EXCEPT ![g] = dead] /\ Told(g, <<Hit, PlayerState(dead)>>)
  /\ UNCHANGED <<profile, block, chest, edited, owed, loose, buried, lost, up, view>>

\* pump_guest_state mends whoever is not hungry, a dead guest too.
Mend(g) ==
  /\ Seated(g) /\ ~body[g].alive /\ acts > 0 /\ acts' = acts - 1
  /\ body' = [body EXCEPT ![g].alive = TRUE]
  /\ UNCHANGED <<profile, block, chest, edited, owed, fallen, loose, buried, lost, up, down, view>>

\* Fault: what does not fit is forgotten.
IntoWhole(b, s) == [guest |-> [b EXCEPT !.pack = AddStack(b.pack, s).slots], left |-> 0]

\* One delivery into a pack; what does not fit is at left.
Into(b, s) == LET r == AddStack(b.pack, s) IN [guest |-> [b EXCEPT !.pack = r.slots], left |-> r.left]

\* Items owed: a stack that does not fit is buried, and nobody gets what is None's.
Given(now, give) ==
  LET g == give[1]  s == give[2] IN
  IF g = None THEN [now EXCEPT !.lost[s.kind] = @ + s.count]
  ELSE LET r == Into(now.body[g], s) IN
       [now EXCEPT !.body[g] = r.guest, !.down[g] = Append(@, PlayerState(r.guest)),
                   !.buried[s.kind] = @ + r.left]

Gives(due, start) ==
  LET upTo[n \in 0..Len(due)] == IF n = 0 THEN start ELSE Given(upTo[n - 1], due[n])
  IN upTo[Len(due)]

\* Loose items: the nearest guest takes what fits, the rest stays.
Picked(near, now, i) ==
  LET g == near[i]  s == loose[i] IN
  IF g = None THEN [now EXCEPT !.loose = Append(@, s)]
  ELSE LET r == Into(now.body[g], s) IN
       [body  |-> [now.body EXCEPT ![g] = r.guest],
        loose |-> now.loose \o Filled(<<Some(s.kind, r.left)>>),
        glad  |-> IF r.left < s.count THEN now.glad \cup {g} ELSE now.glad]

Pickups(near, start) ==
  LET upTo[n \in 0..Len(loose)] == IF n = 0 THEN start ELSE Picked(near, upTo[n - 1], n)
  IN upTo[Len(loose)]

\* pump_delivery: edits to everyone, then what is owed, then what lies about.
Deliver ==
  /\ edited' = FALSE /\ owed' = <<>>
  /\ UNCHANGED <<profile, block, chest, fallen, up, view, acts>>
  /\ \E near \in [DOMAIN loose -> {g \in Guests : Seated(g) /\ body[g].alive} \cup {None}] :
    LET shown == [g \in Guests |-> down[g] \o (IF edited /\ Seated(g) THEN <<BlockSet>> ELSE <<>>)]
        given == Gives(owed, [body |-> body, down |-> shown, buried |-> buried, lost |-> lost])
        taken == Pickups(near, [body |-> given.body, loose |-> <<>>, glad |-> {}]) IN
    /\ buried' = given.buried /\ lost' = given.lost /\ body' = taken.body /\ loose' = taken.loose
    /\ down' = [g \in Guests |-> IF g \in taken.glad
                                 THEN Append(given.down[g], PlayerState(taken.body[g]))
                                 ELSE given.down[g]]

\* tick_loose_items: drops become loose items; one that ages or meets lava is buried.
Settle ==
  /\ fallen # <<>> /\ loose' = loose \o fallen /\ fallen' = <<>>
  /\ UNCHANGED <<profile, body, block, chest, edited, owed, buried, lost, up, down, view, acts>>
Lose ==
  /\ \E i \in DOMAIN loose :
       /\ buried' = [buried EXCEPT ![loose[i].kind] = @ + loose[i].count]
       /\ loose' = RemoveAt(loose, i)
  /\ UNCHANGED <<profile, body, block, chest, edited, owed, fallen, lost, up, down, view, acts>>

Quiet == \A g \in Guests : Len(down[g]) < MaxInFlight

\* pump_containers: everyone who has the chest open sees it again, twice a second.
Refresh ==
  /\ Quiet
  /\ down' = [g \in Guests |-> IF Seated(g) /\ body[g].open THEN down[g] \o Contents(chest) ELSE down[g]]
  /\ UNCHANGED <<held, up, view, acts>>

\* pump_guest_state: in survival every guest's state goes out once a second.
Tick ==
  /\ Quiet
  /\ down' = [g \in Guests |-> IF Seated(g) THEN Append(down[g], PlayerState(body[g])) ELSE down[g]]
  /\ UNCHANGED <<held, up, view, acts>>

\* HostEvent::Left saves the pack and the cursor; the craft grid is in no profile.  The
\* player comes back under another id, so what was owed to this one is owed to nobody.
Leave(g) ==
  /\ Seated(g) /\ acts > 0 /\ acts' = acts - 1
  /\ profile' = [profile EXCEPT ![g] = Stored(body[g])] /\ body' = [body EXCEPT ![g] = None]
  /\ view' = [view EXCEPT ![g] = Shows(body[g])]
  /\ lost' = [k \in Kinds |-> lost[k] + Sum(body[g].grid, k)]
  /\ owed' = [i \in DOMAIN owed |-> IF owed[i][1] = g THEN <<None, owed[i][2]>> ELSE owed[i]]
  /\ up' = [up EXCEPT ![g] = <<>>] /\ down' = [down EXCEPT ![g] = <<>>]
  /\ UNCHANGED <<block, chest, edited, fallen, loose, buried>>

\* try_finish_pending_entry; Welcome carries the profile's state.
Join(g) ==
  /\ ~Seated(g)
  /\ body' = [body EXCEPT ![g] = Carries(profile[g], Empty(GridSize), FALSE, profile[g].alive)]
  /\ view' = [view EXCEPT ![g] = Shows(profile[g])]
  /\ UNCHANGED <<profile, block, chest, edited, owed, fallen, loose, buried, lost, up, down, acts>>

-----------------------------------------------------------------------------
(* The guest's side. *)

PutBack(pack, slots) ==
  LET upTo[n \in 0..Len(slots)] ==
        IF n = 0 THEN pack ELSE AddStack(upTo[n - 1], slots[n]).slots
  IN upTo[Len(slots)]

\* set_screen: a screen is left, and the cursor and the grid go back to the pack, in the
\* view only.
PutAway(v) ==
  IF v.screen \in {"chest", "inventory"}
  THEN [v EXCEPT !.pack = PutBack(v.pack, Filled(<<v.cursor>> \o v.grid)),
                 !.cursor = None, !.grid = Empty(GridSize)]
  ELSE v

\* What a message does to the view, and what the guest answers.  A hit that killed kills
\* the view too, unless armour is counted a second time; in a dungeon the view keeps what it
\* carries.
Closing(v) == IF v.screen = "chest" THEN <<[do |-> "close"]>> ELSE <<>>

\* Fault: a chest's contents count only when they open its screen.
SeenOnce(g, mortal, now, m) ==
  LET v == now.view IN
  CASE m.is = "state" -> [now EXCEPT !.view.pack = m.kit.pack, !.view.cursor = m.kit.cursor]
    [] m.is = "chest" /\ v.screen = "playing" ->
         [now EXCEPT !.view.chest = m.slots, !.view.screen = "chest"]
    [] OTHER -> now

Seen(g, mortal, now, m) ==
  LET v == now.view IN
  CASE m.is = "state" -> [now EXCEPT !.view.pack = m.kit.pack, !.view.cursor = m.kit.cursor]
    [] m.is = "chest" -> [now EXCEPT !.view.chest = m.slots,
                                     !.view.screen = IF @ = "playing" THEN "chest" ELSE @]
    [] m.is = "hit" /\ mortal /\ v.screen # "dead" ->
         [view |-> [(IF g \in Deep THEN PutAway(v) ELSE Bare(v)) EXCEPT !.screen = "dead"],
          out  |-> now.out \o Closing(v)]
    [] OTHER -> now

Watched(g, mortal, start, got) ==
  LET upTo[n \in 0..Len(got)] == IF n = 0 THEN start ELSE Seen(g, mortal, upTo[n - 1], got[n])
  IN upTo[Len(got)]

\* A frame takes the messages that have come.  Block edits are applied after them, in this
\* frame or, behind many chunks, in a later one: the replica forgets the block entity.
Frame(g) ==
  \E n \in 0..Len(down[g]), mortal \in BOOLEAN, applied \in BOOLEAN :
    LET got  == SubSeq(down[g], 1, n)
        now  == Watched(g, mortal, [view |-> view[g], out |-> <<>>], got)
        edit == view[g].edit \/ BlockSet \in ToSet(got) IN
    /\ (applied => edit) /\ (mortal => Hit \in ToSet(got))
    /\ down' = [down EXCEPT ![g] = SubSeq(@, n + 1, Len(@))]
    /\ view' = [view EXCEPT ![g] = IF applied THEN [now.view EXCEPT !.chest = None, !.edit = FALSE]
                                   ELSE [now.view EXCEPT !.edit = edit]]
    /\ up' = [up EXCEPT ![g] = @ \o now.out]
    /\ UNCHANGED <<held, acts>>

\* A player's act: what is sent, and what the view becomes at once.
Act(g, sent, v) ==
  /\ Seated(g) /\ view[g].screen # "dead" /\ acts > 0 /\ acts' = acts - 1
  /\ up' = [up EXCEPT ![g] = @ \o sent] /\ view' = [view EXCEPT ![g] = v]
  /\ UNCHANGED <<held, down>>

\* Opening and breaking wait for the host.
Use(g) ==
  /\ view[g].screen = "playing"
  /\ \E what \in {"open", "break"} : Act(g, <<[do |-> what]>>, view[g])

\* What is placed leaves the view's hand at once; the host does not answer a refusal.
UsePlace(g) ==
  LET v == view[g]  hand == v.pack[1] IN
  /\ v.screen = "playing" /\ Held(hand, Chest) > 0
  /\ Act(g, <<[do |-> "place"]>>, [v EXCEPT !.pack[1] = Some(Chest, hand.count - 1)])

OpenInventory(g) ==
  view[g].screen = "playing" /\ Act(g, <<>>, [view[g] EXCEPT !.screen = "inventory"])

\* exchange_container_slot: the click is sent, and predicted if the chest is known.
ClickChest(g) ==
  /\ view[g].screen = "chest"
  /\ \E slot \in 1..ChestSize, right \in BOOLEAN :
       LET v == view[g]  after == Click(v.chest[slot], v.cursor, right) IN
       Act(g, <<[do |-> "click", slot |-> slot, right |-> right]>>,
           IF v.chest = None THEN v ELSE [v EXCEPT !.chest[slot] = after[1], !.cursor = after[2]])

\* inventory_click; the grid is there on the inventory screen.
ClickPack(g) ==
  \E area \in {"pack", "grid"}, slot \in 1..(PackSize + GridSize), right \in BOOLEAN :
    LET m == [do |-> "inventory", area |-> area, slot |-> slot, right |-> right] IN
    /\ IF area = "pack" THEN view[g].screen \in {"chest", "inventory"} /\ slot <= PackSize
       ELSE view[g].screen = "inventory" /\ slot <= GridSize
    /\ Act(g, <<m>>, Clicked(view[g], m))

Close(g) ==
  LET v == view[g] IN
  /\ v.screen \in {"chest", "inventory"}
  /\ Act(g, Closing(v), [PutAway(v) EXCEPT !.screen = "playing"])

AskRespawn(g) ==
  /\ Seated(g) /\ view[g].screen = "dead"
  /\ up' = [up EXCEPT ![g] = Append(@, [do |-> "respawn"])]
  /\ view' = [view EXCEPT ![g].screen = "playing"]
  /\ UNCHANGED <<held, down, acts>>

Next ==
  \/ \E g \in Guests : \/ Handle(g) \/ Die(g) \/ Mend(g) \/ Leave(g) \/ Join(g) \/ Frame(g)
                       \/ Use(g) \/ UsePlace(g) \/ OpenInventory(g) \/ ClickChest(g)
                       \/ ClickPack(g) \/ Close(g) \/ AskRespawn(g)
  \/ Deliver \/ Settle \/ Lose \/ Refresh \/ Tick

\* The host pumps for ever and every frame drains the network; guests owe nothing.
Fairness ==
  /\ \A g \in Guests : WF_vars(Handle(g)) /\ WF_vars(Frame(g))
  /\ SF_vars(Refresh) /\ SF_vars(Tick)

Spec == Init /\ [][Next]_vars /\ Fairness

-----------------------------------------------------------------------------
(* Properties. *)

Profiles == [pack : Row(PackSize), cursor : Slot, alive : BOOLEAN]
Views  == [pack : Row(PackSize), cursor : Slot, grid : Row(GridSize),
           screen : {"playing", "chest", "inventory", "dead"}, chest : Row(ChestSize) \cup {None},
           edit : BOOLEAN]
Sent   == [do : {"open", "break", "place", "close", "respawn"}]
          \cup [do : {"click"}, slot : 1..ChestSize, right : BOOLEAN]
          \cup [do : {"inventory"}, area : {"pack"}, slot : 1..PackSize, right : BOOLEAN]
          \cup [do : {"inventory"}, area : {"grid"}, slot : 1..GridSize, right : BOOLEAN]
Said   == [is : {"state"}, kit : Kit] \cup [is : {"chest"}, slots : Row(ChestSize)]
          \cup {BlockSet, Hit}

\* Every variable keeps its type.
TypeOK ==
  /\ profile \in [Guests -> Profiles]
  /\ body \in [Guests -> Bodies \cup {None}]
  /\ block \in BOOLEAN /\ chest \in Row(ChestSize) \cup {None} /\ edited \in BOOLEAN
  /\ owed \in Seq((Guests \cup {None}) \X Stack) /\ fallen \in Seq(Stack) /\ loose \in Seq(Stack)
  /\ buried \in [Kinds -> Nat] /\ lost \in [Kinds -> Nat] /\ view \in [Guests -> Views] /\ acts \in 0..MaxActs
  /\ up \in [Guests -> Seq(Sent)] /\ down \in [Guests -> Seq(Said)]

\* Place i holds the last state of what is said.
IsLast(said, i) == said[i].is = "state" /\ \A j \in i + 1..Len(said) : said[j].is # "state"

\* The newest state on its way to a guest is what it carries: whatever happens to its items
\* while earlier echoes are under way, the last word it will hear is true (every handler
\* that touches a pack or a cursor ends in send_player_state).
LastWordIsTrue ==
  \A g \in Guests : Seated(g) => \A i \in DOMAIN down[g] : IsLast(down[g], i) =>
    down[g][i].kit = KitOf(body[g])

\* A block that is gone holds nothing.
GoneIsEmpty == ~block => chest = None

\* Nothing is said to, asked by or owed to a guest that is not there: what was owed to one
\* that left is owed to nobody, and a guest that comes back hears nothing of before.
AwayIsQuiet ==
  /\ \A g \in Guests : ~Seated(g) => down[g] = <<>> /\ up[g] = <<>>
  /\ \A i \in DOMAIN owed : owed[i][1] # None => Seated(owed[i][1])

\* Custody is sound at every step, and what guests are told of it is true.
CustodyInv == TypeOK /\ LastWordIsTrue /\ GoneIsEmpty /\ AwayIsQuiet

\* A number for every guest, added up.
AmongGuests(number) ==
  LET everyone == SetToSeq(Guests) IN Tally([i \in DOMAIN everyone |-> number[everyone[i]]])

\* What a guest has of a kind: on it, or in its profile while it is away.
OnBody(b, k) == Sum(b.pack, k) + Held(b.cursor, k) + Sum(b.grid, k)
OnGuest(b, p, k) == IF b # None THEN OnBody(b, k) ELSE Sum(p.pack, k) + Held(p.cursor, k)

\* The items of a kind, wherever they are.
InChest(c, k) == IF c = None THEN 0 ELSE Sum(c, k)
Owing(o, k)   == Sum([i \in DOMAIN o |-> o[i][2]], k)
InBlock(b, k) == IF b /\ k = Chest THEN 1 ELSE 0
Total(k) ==
  AmongGuests([g \in Guests |-> OnGuest(body[g], profile[g], k)])
    + InChest(chest, k) + InBlock(block, k)
    + Owing(owed, k) + Sum(fallen, k) + Sum(loose, k) + buried[k]

Supply(k) ==
  AmongGuests([g \in Guests |-> OnBody(Start[g], k)]) + InChest(Start["chest"], k) + InBlock(TRUE, k)

\* Items are neither copied nor lost by clicks, breaking and placing the chest, deaths,
\* drops, pickups, deliveries to full packs, leaving and coming back, in any order, except
\* by two ways: the craft grid of a guest that leaves, and what is owed to one that has left.
ItemsConserved == \A k \in Kinds : Total(k) + lost[k] = Supply(k)

\* Violated.  "death inside a run keeps all belongings (no scatter)"
\* (src/docs/extension-plans/wildforge-task-brief-capability-e10-instanced-dungeon-zones.md:58).
DungeonKeepsBelongings ==
  [][\A g \in Deep : Die(g) => KitOf(body'[g]) = KitOf(body[g])]_vars

\* What a guest sees of its own pack and cursor, and of the chest it has open.
SeesTruth(g) ==
  /\ view[g].pack = body[g].pack /\ view[g].cursor = body[g].cursor
  /\ body[g].open /\ chest # None => view[g].chest = chest

\* However predictions, echoes and other guests' clicks crossed, once the players rest
\* every guest's view comes to agree with the host and stays so.
ViewsSettle == <>[](\A g \in Guests : Seated(g) => SeesTruth(g))
=================================================================================
