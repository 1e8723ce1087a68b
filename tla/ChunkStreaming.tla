----------------------------- MODULE ChunkStreaming -----------------------------
(***************************************************************************)
(* How a guest comes to hold the ground it stands on: the host's streaming *)
(* ring, its encoder and payload cache, the broadcast of block edits, the  *)
(* guest's entry handshake, and the client's paced inbox, eviction and     *)
(* repair requests (src/src/multiplayer/host, src/src/client_session,      *)
(* src/src/game/remote).  The stream to and from a guest is reliable and   *)
(* ordered; movement travels in datagrams.                                 *)
(*                                                                         *)
(* A chunk's blocks are abstracted to the number of edits made to it, so   *)
(* that any missing, repeated or reordered edit shows.  Distance is        *)
(* abstracted to places: what a guest sees from one, what it keeps there.  *)
(***************************************************************************)
EXTENDS Queues, FiniteSets

CONSTANTS Guests, Chunks, Places,
          Spawn,         \* where every guest enters
          View,          \* place -> chunks in view there, nearest first
          Keep,          \* place -> chunks within two of the view there
          Entry,         \* the safety set around Spawn, in manifest order
          None,          \* a chunk the replica does not hold
          Pace,          \* CHUNKS_PER_PUMP
          FrameChunks,   \* REMOTE_CHUNKS_PER_FRAME
          EncodeLimit,   \* MAX_ENCODING_IN_FLIGHT
          MaxEdits,      \* bound: edits explored
          MaxFlight      \* bound: messages in one channel

ASSUME StreamingAssumption ==
  /\ IsFiniteSet(Guests) /\ IsFiniteSet(Chunks)
  /\ Spawn \in Places
  /\ View \in [Places -> Seq(Chunks)] /\ Keep \in [Places -> SUBSET Chunks]
  /\ \A pl \in Places : ToSet(View[pl]) \subseteq Keep[pl]
  /\ Entry \in Seq(Chunks) /\ ToSet(Entry) \subseteq Keep[Spawn]
  /\ None \notin Nat
  /\ {Pace, FrameChunks, EncodeLimit} \subseteq Nat \ {0}
  /\ MaxEdits \in Nat /\ MaxFlight \in Nat

VARIABLES terrain, content, editLog, edits,    \* the host's world; edits counts to MaxEdits
          revision, encoding, encoded, cache,  \* HostChunkJobs
          phase, hostPos, sent,                \* the host's view of a guest
          down, up,                            \* the stream, each way
          client, pos, replica, inbox, wants   \* the guest

worldVars   == <<terrain, content, editLog, edits>>
encoderVars == <<revision, encoding, encoded, cache>>
hostVars    == <<phase, hostPos, sent>>
clientVars  == <<client, pos, replica, inbox, wants>>
vars == <<worldVars, encoderVars, hostVars, down, up, clientVars>>

Manifest      == [kind |-> "Manifest"]
EntryReady    == [kind |-> "EntryReady"]
EntryAccepted == [kind |-> "EntryAccepted"]
Chunk(p, v)     == [kind |-> "Chunk", pos |-> p, val |-> v]
BlockSet(p, v)  == [kind |-> "BlockSet", pos |-> p, val |-> v]
RequestChunk(p) == [kind |-> "RequestChunk", pos |-> p]

Nowhere  == [p \in Chunks |-> None]
Room(q)  == Len(q) <= MaxFlight
First(n, s) == SubSeq(s, 1, IF Len(s) < n THEN Len(s) ELSE n)

Init ==
  /\ terrain = [p \in Chunks |-> "absent"]
  /\ content = [p \in Chunks |-> 0] /\ editLog = <<>> /\ edits = 0
  /\ revision = [p \in Chunks |-> 0]
  /\ encoding = {} /\ encoded = {} /\ cache = {}
  /\ phase = [g \in Guests |-> "away"] /\ hostPos = [g \in Guests |-> Spawn]
  /\ sent = [g \in Guests |-> {}]
  /\ down = [g \in Guests |-> <<>>] /\ up = [g \in Guests |-> <<>>]
  /\ client = [g \in Guests |-> "idle"] /\ pos = [g \in Guests |-> Spawn]
  /\ replica = [g \in Guests |-> Nowhere]
  /\ inbox = [g \in Guests |-> <<>>] /\ wants = [g \in Guests |-> {}]

-----------------------------------------------------------------------------
(* The host's world and its workers. *)

\* Any simulation step that writes a block.
Edit(p) ==
  /\ terrain[p] = "resident" /\ edits < MaxEdits /\ edits' = edits + 1
  /\ content' = [content EXCEPT ![p] = @ + 1]
  /\ editLog' = Append(editLog, BlockSet(p, content[p] + 1))
  /\ UNCHANGED <<terrain, encoderVars, hostVars, down, up, clientVars>>

Load(p) ==
  /\ terrain[p] = "loading"
  /\ terrain' = [terrain EXCEPT ![p] = "prepared"]
  /\ UNCHANGED <<content, editLog, edits, encoderVars, hostVars, down, up, clientVars>>

Encode(j) ==
  /\ j \in encoding \ encoded
  /\ encoded' = encoded \cup {j}
  /\ UNCHANGED <<worldVars, revision, encoding, cache, hostVars, down, up, clientVars>>

-----------------------------------------------------------------------------
(* HostChunkJobs: encoding jobs, keyed by position and revision. *)

Job(rev, p) == [pos |-> p, rev |-> rev[p], val |-> content[p]]

Payload(from, rev, p) == {c \in from : c.pos = p /\ c.rev = rev[p]}

InFlight(jobs, rev, p) == Payload(jobs, rev, p) # {}

\* Every way the encoder may take requests for ps, up to its budget.
Requested(jobs, rev, ps) ==
  LET new  == {p \in ps : ~InFlight(jobs, rev, p)}
      room == EncodeLimit - Cardinality(jobs)
      size == IF room < Cardinality(new) THEN room ELSE Cardinality(new)
  IN  {jobs \cup {Job(rev, p) : p \in s} : s \in {t \in SUBSET new : Cardinality(t) = size}}

-----------------------------------------------------------------------------
(* The host's pump: messages first, then edits out, then the ring. *)

\* on_msg, EntryReady.
HandleEntryReady(g) ==
  /\ up[g] # <<>> /\ Head(up[g]) = EntryReady
  /\ up' = [up EXCEPT ![g] = Tail(@)]
  /\ IF phase[g] = "entering" /\ ToSet(Entry) \subseteq sent[g]
     THEN /\ phase' = [phase EXCEPT ![g] = "ready"]
          /\ down' = [down EXCEPT ![g] = Append(@, EntryAccepted)]
          /\ Room(down'[g])
     ELSE UNCHANGED <<phase, down>>
  /\ UNCHANGED <<worldVars, encoderVars, hostPos, sent, clientVars>>

\* stream_chunk, for one guest and one position.
StreamChunk(g, p) ==
  IF terrain[p] # "resident"
  THEN /\ terrain' = [terrain EXCEPT ![p] = IF @ = "absent" THEN "loading" ELSE @]
       /\ UNCHANGED <<encoding, down, sent>>
  ELSE \/ \E c \in Payload(cache, revision, p) :
            /\ down' = [down EXCEPT ![g] = Append(@, Chunk(p, c.val))]
            /\ sent' = [sent EXCEPT ![g] = @ \cup {p}]
            /\ Room(down'[g])
            /\ UNCHANGED <<terrain, encoding>>
       \/ /\ Payload(cache, revision, p) = {}
          /\ encoding' \in Requested(encoding, revision, {p})
          /\ UNCHANGED <<terrain, down, sent>>

\* on_msg, RequestChunk.
HandleRequest(g) ==
  \E p \in Chunks :
    /\ up[g] # <<>> /\ Head(up[g]) = RequestChunk(p)
    /\ up' = [up EXCEPT ![g] = Tail(@)]
    /\ IF phase[g] = "ready" /\ p \in Keep[hostPos[g]] THEN StreamChunk(g, p)
       ELSE UNCHANGED <<terrain, encoding, down, sent>>
    /\ UNCHANGED <<content, editLog, edits, revision, encoded, cache, phase, hostPos, clientVars>>

\* on_msg, Move: the newest position that got through.
HearMove(g) ==
  /\ phase[g] = "ready" /\ client[g] = "active" /\ hostPos[g] # pos[g]
  /\ hostPos' = [hostPos EXCEPT ![g] = pos[g]]
  /\ UNCHANGED <<worldVars, encoderVars, phase, sent, down, up, clientVars>>

\* Fault: ground under a guest still entering is nobody's.
WantedByPlayers(p) == \E g \in Guests : phase[g] = "ready" /\ p \in ToSet(View[hostPos[g]])

Wanted(p) ==
  \E g \in Guests :
    \/ phase[g] \in {"pending", "entering"} /\ p \in ToSet(Entry)
    \/ phase[g] = "ready" /\ p \in ToSet(View[hostPos[g]])

\* Fault: an edit leaves the payloads of its chunk current.
NothingAged == revision

\* pump_delivery: each edit ages its chunk's payloads ...
Invalidated == [p \in Chunks |->
                  revision[p] + Cardinality({i \in DOMAIN editLog : editLog[i].pos = p})]

\* Fault: an edit is told only to guests recorded as holding its chunk.
BroadcastToHolders(g) ==
  IF phase[g] = "ready" THEN Only(editLog, {m \in ToSet(editLog) : m.pos \in sent[g]}) ELSE <<>>

\* Fault: the journal is told newest first.
BroadcastReversed(g) == IF phase[g] = "ready" THEN Reverse(editLog) ELSE <<>>

\* ... and is told to the guests that are playing.
Broadcast(g) == IF phase[g] = "ready" THEN editLog ELSE <<>>

\* drain_into: what the cache holds once finished encodings are collected.
Drained(rev) == {c \in cache \cup encoded : Wanted(c.pos) /\ c.rev = rev[c.pos]}

\* cancel_queued, the entry requests, and the adoption of prepared terrain.
Adopted(cancelled) ==
  [p \in Chunks |->
    CASE terrain[p] = "prepared" -> IF Wanted(p) THEN "resident" ELSE "absent"
      [] p \in cancelled         -> "absent"
      [] terrain[p] = "absent" /\ p \in ToSet(Entry)
           /\ (\E g \in Guests : phase[g] = "pending") -> "loading"
      [] OTHER                   -> terrain[p]]

Prepared(g, land) == phase[g] = "pending" /\ \A p \in ToSet(Entry) : land[p] = "resident"

\* A guest that walked away has dropped these.
Remembered(g) == IF phase[g] = "ready" THEN sent[g] \cap Keep[hostPos[g]] ELSE sent[g]

\* Fault: the pace is spent on the nearest chunks, sent or not.
NeededNearest(g, land) ==
  LET ring == CASE phase[g] = "ready" -> View[hostPos[g]]
                [] phase[g] = "entering" \/ Prepared(g, land) -> Entry
                [] OTHER -> <<>>
  IN  Only(First(Pace, ring), Chunks \ Remembered(g))

\* The nearest chunks a guest lacks, paced.
Needed(g, land) ==
  LET ring == CASE phase[g] = "ready" -> View[hostPos[g]]
                [] phase[g] = "entering" \/ Prepared(g, land) -> Entry
                [] OTHER -> <<>>
  IN  First(Pace, Only(ring, Chunks \ Remembered(g)))

Recorded(was, due, went) == was \cup went

\* The rest of one pump: pump_delivery, then stream_chunks.
Pump ==
  \E cancelled \in SUBSET {p \in Chunks : terrain[p] = "loading" /\ ~Wanted(p)},
     dropped \in SUBSET {j \in encoding \ encoded : ~Wanted(j.pos)} :
  \E rev \in {Invalidated}, land \in {Adopted(cancelled)} :
  \E store \in {Drained(rev)}, needed \in {[g \in Guests |-> Needed(g, land)]} :
    LET Asked == UNION {ToSet(needed[g]) : g \in Guests}
        Ready(p) == land[p] = "resident" /\ Payload(store, rev, p) # {}
        ChunkOf(p) == Chunk(p, (CHOOSE c \in Payload(store, rev, p) : TRUE).val)
        Burst(g) == LET ps == Only(needed[g], {p \in Chunks : Ready(p)})
                    IN  [i \in 1..Len(ps) |-> ChunkOf(ps[i])]
    IN
    /\ revision' = rev /\ editLog' = <<>>
    /\ cache' = store /\ encoded' = {}
    /\ encoding' \in Requested(encoding \ (encoded \cup dropped), rev,
                       {p \in Asked : land[p] = "resident" /\ ~Ready(p)})
    /\ terrain' = [p \in Chunks |-> IF land[p] = "absent" /\ p \in Asked
                                    THEN "loading" ELSE land[p]]
    /\ phase' = [g \in Guests |-> IF Prepared(g, land) THEN "entering" ELSE phase[g]]
    /\ sent' = [g \in Guests |-> Recorded(Remembered(g), ToSet(needed[g]),
                                       {p \in ToSet(needed[g]) : Ready(p)})]
    /\ down' = [g \in Guests |-> down[g] \o Broadcast(g)
                 \o (IF Prepared(g, land) THEN <<Manifest>> ELSE <<>>) \o Burst(g)]
    /\ \A g \in Guests : Room(down'[g])
    /\ UNCHANGED <<content, edits, hostPos, up, clientVars>>

-----------------------------------------------------------------------------
(* Coming and going. *)

\* on_join: an authenticated connection waits for its terrain.
Join(g) ==
  /\ phase[g] = "away"
  /\ phase' = [phase EXCEPT ![g] = "pending"]
  /\ client' = [client EXCEPT ![g] = "joining"]
  /\ UNCHANGED <<worldVars, encoderVars, hostPos, sent, down, up,
                 pos, replica, inbox, wants>>

\* The connection ends, from either side or by a timeout; nothing survives it.
Leave(g) ==
  /\ phase[g] # "away"
  /\ phase' = [phase EXCEPT ![g] = "away"] /\ hostPos' = [hostPos EXCEPT ![g] = Spawn]
  /\ sent' = [sent EXCEPT ![g] = {}]
  /\ down' = [down EXCEPT ![g] = <<>>] /\ up' = [up EXCEPT ![g] = <<>>]
  /\ client' = [client EXCEPT ![g] = "idle"] /\ pos' = [pos EXCEPT ![g] = Spawn]
  /\ replica' = [replica EXCEPT ![g] = Nowhere]
  /\ inbox' = [inbox EXCEPT ![g] = <<>>] /\ wants' = [wants EXCEPT ![g] = {}]
  /\ UNCHANGED <<worldVars, encoderVars>>

-----------------------------------------------------------------------------
(* The client. *)

Holds(g, p) == replica[g][p] # None

\* Positions of the chunks in a batch of messages.
ChunksOf(q) == {m.pos : m \in {x \in ToSet(q) : x.kind = "Chunk"}}

\* One message off the stream, taken into the client's half of a guest.
Receive(s, m) ==
  CASE m.kind = "Manifest" ->
         [client |-> "receiving", replica |-> Nowhere, inbox |-> <<>>, wants |-> {}]
    [] m.kind = "EntryAccepted" -> [s EXCEPT !.client = "active"]
    [] m.kind = "BlockSet" -> [s EXCEPT !.inbox = Append(@, m)]
    [] m.kind = "Chunk" ->
         IF s.replica[m.pos] # None \/ m.pos \in ChunksOf(s.inbox) THEN s
         ELSE [s EXCEPT !.inbox = Append(@, m), !.wants = @ \cup {m.pos}]

\* A replica takes a whole chunk, or an edit of a chunk it holds.
Apply(r, m) == IF m.kind = "Chunk" \/ r[m.pos] # None
               THEN [r EXCEPT ![m.pos] = m.val] ELSE r

\* How much of the inbox one frame applies: what is behind the first chunk
\* over budget waits.
Paced(q) ==
  LET Spent(n) == Cardinality({i \in 1..n : q[i].kind = "Chunk"}) IN
  {n \in 0..Len(q) : Spent(n) <= FrameChunks /\ (n < Len(q) => Spent(n + 1) > FrameChunks)}

\* The client once the first k messages under way are taken in.
Polled(g) ==
  LET upTo[k \in 0..Len(down[g])] ==
        IF k = 0 THEN [client |-> client[g], replica |-> replica[g],
                       inbox |-> inbox[g], wants |-> wants[g]]
        ELSE Receive(upTo[k - 1], down[g][k])
  IN  upTo

\* A replica once the first n of these are applied to it.
Applied(r, q) ==
  LET upTo[n \in 0..Len(q)] == IF n = 0 THEN r ELSE Apply(upTo[n - 1], q[n])
  IN  upTo

\* Fault: readiness is claimed with the manifest.
DecodedAtOnce(shown) == TRUE

Decoded(shown) == \A p \in ToSet(Entry) : shown[p] # None

\* One frame: the k messages that arrived, remote_entry_terrain, remote_upstream
\* from where the player now is, and letting go of what is far from there.
Frame(g, k, here) ==
  \E s \in {Polled(g)[k]} :
  \E n \in Paced(s.inbox) :
  \E shown \in {Applied(s.replica, s.inbox)[n]} :
  \E waiting \in {s.wants \ ChunksOf(SubSeq(s.inbox, 1, n))} :
  LET ready   == s.client = "receiving" /\ Decoded(shown)
      active  == s.client = "active"
      missing == IF ~active THEN <<>>
                 ELSE Only(View[here], {p \in Chunks \ waiting : shown[p] = None})
      asks    == [i \in 1..Len(missing) |-> RequestChunk(missing[i])]
  IN
  /\ client[g] # "idle" /\ (here = pos[g] \/ client[g] = "active")
  /\ pos' = [pos EXCEPT ![g] = here]
  /\ down' = [down EXCEPT ![g] = SubSeq(@, k + 1, Len(@))]
  /\ inbox' = [inbox EXCEPT ![g] = SubSeq(s.inbox, n + 1, Len(s.inbox))]
  /\ replica' = [replica EXCEPT ![g] =
                   [p \in Chunks |-> IF active /\ p \notin Keep[here] THEN None ELSE shown[p]]]
  /\ wants' = [wants EXCEPT ![g] = waiting \cup ToSet(missing)]
  /\ client' = [client EXCEPT ![g] = IF ready THEN "readySent" ELSE s.client]
  /\ up' = [up EXCEPT ![g] = @ \o (IF ready THEN <<EntryReady>> ELSE <<>>) \o asks]
  /\ Room(up'[g])
  /\ UNCHANGED <<worldVars, encoderVars, hostVars>>

-----------------------------------------------------------------------------
HostStep  == Pump \/ \E g \in Guests : HandleEntryReady(g) \/ HandleRequest(g) \/ HearMove(g)
WorldStep == \/ \E p \in Chunks : Edit(p) \/ Load(p)
             \/ \E j \in encoding : Encode(j)
GuestStep == \E g \in Guests :
               \/ Join(g) \/ Leave(g)
               \/ \E k \in 0..Len(down[g]), pl \in Places : Frame(g, k, pl)

Next == HostStep \/ WorldStep \/ GuestStep

\* A frame that takes something if something has arrived, the player standing still.
Draw(g) == \E k \in 0..Len(down[g]) : (k = 0 => down[g] = <<>>) /\ Frame(g, k, pos[g])

\* The host pumps and handles its messages, the workers work, the stream
\* delivers, frames are drawn, and of the moves a client repeats twenty times a
\* second one gets through.
Fairness ==
  /\ WF_vars(Pump)
  /\ WF_vars(\E p \in Chunks : Load(p)) /\ WF_vars(\E j \in encoding : Encode(j))
  /\ \A g \in Guests : /\ WF_vars(HandleEntryReady(g) \/ HandleRequest(g))
                       /\ WF_vars(HearMove(g)) /\ WF_vars(Draw(g))

Spec == Init /\ [][Next]_vars /\ Fairness

-----------------------------------------------------------------------------
(* Properties. *)

Jobs == [pos : Chunks, rev : 0..MaxEdits, val : 0..MaxEdits]
Mutations == [kind : {"Chunk", "BlockSet"}, pos : Chunks, val : 0..MaxEdits]
Downward  == Mutations \cup {Manifest, EntryAccepted}
Upward    == [kind : {"RequestChunk"}, pos : Chunks] \cup {EntryReady}

\* Every variable keeps its type; the in-flight encodings respect their budget
\* and their keys are distinct.
TypeOK ==
  /\ terrain \in [Chunks -> {"absent", "loading", "prepared", "resident"}]
  /\ content \in [Chunks -> 0..MaxEdits] /\ editLog \in Seq(Mutations)
  /\ edits \in 0..MaxEdits
  /\ revision \in [Chunks -> 0..MaxEdits]
  /\ encoding \subseteq Jobs /\ encoded \subseteq encoding /\ cache \subseteq Jobs
  /\ Cardinality(encoding) <= EncodeLimit
  /\ \A i, j \in encoding : i.pos = j.pos /\ i.rev = j.rev => i = j
  /\ phase \in [Guests -> {"away", "pending", "entering", "ready"}]
  /\ hostPos \in [Guests -> Places] /\ pos \in [Guests -> Places]
  /\ sent \in [Guests -> SUBSET Chunks] /\ wants \in [Guests -> SUBSET Chunks]
  /\ client \in [Guests -> {"idle", "joining", "receiving", "readySent", "active"}]
  /\ replica \in [Guests -> [Chunks -> 0..MaxEdits \cup {None}]]
  /\ inbox \in [Guests -> Seq(Mutations)]
  /\ down \in [Guests -> Seq(Downward)] /\ up \in [Guests -> Seq(Upward)]
  /\ \A g \in Guests : Room(down[g]) /\ Room(up[g])

\* chunk_jobs.rs: a payload of the current revision is the chunk as of the edits
\* already broadcast; nothing older and nothing newer can be sent.
PayloadsCurrent ==
  \A c \in cache \cup encoding :
    c.rev = revision[c.pos] /\ ~(\E m \in ToSet(editLog) : m.pos = c.pos)
      => c.val = content[c.pos]

\* What the host holds to send is well formed, within budget, and current.
StreamInv == TypeOK /\ PayloadsCurrent

\* What a guest will hold once everything under way to it has arrived.
Pipeline(g) == inbox[g] \o down[g] \o Broadcast(g)
TakeIn(v, p, m) ==
  IF m \in Mutations /\ m.pos = p /\ (m.kind = "Chunk") = (v = None) THEN m.val ELSE v
Settled(g, p) ==
  LET upTo[n \in 0..Len(Pipeline(g))] ==
        IF n = 0 THEN replica[g][p] ELSE TakeIn(upTo[n - 1], p, Pipeline(g)[n])
  IN  upTo[Len(Pipeline(g))]

\* A playing guest's ground, outside the set it entered with, is the host's
\* ground: no edit falls between the snapshot it was sent and the broadcasts that follow.
RingTerrainCoherent ==
  \A g \in Guests, p \in Chunks \ ToSet(Entry) :
    phase[g] = "ready" => Settled(g, p) \in {None, content[p]}

\* The same of the ground it entered with (multiplayer/host/replies.rs:9-11).  The code
\* does not keep it: edits made before the guest is accepted are not broadcast to it.
EntryTerrainCoherent ==
  \A g \in Guests, p \in ToSet(Entry) :
    phase[g] = "ready" => Settled(g, p) \in {None, content[p]}

\* A guest never sees an edit undone: snapshots, paced behind the edits queued
\* before them, never take a held chunk back.
NoRewind ==
  [][\A g \in Guests, p \in Chunks :
       replica[g][p] # None /\ replica'[g][p] # None => replica'[g][p] >= replica[g][p]]_vars

\* A guest becomes an actor only standing on ground it has decoded.
EntersOnGround ==
  [][\A g \in Guests : phase[g] = "entering" /\ phase'[g] = "ready"
       => \A p \in ToSet(Entry) : replica[g][p] # None]_vars

\* A connection that stays up is admitted.
EntryCompletes == \A g \in Guests : phase[g] = "pending" ~> client[g] \in {"active", "idle"}

\* Ground in view that the host has not sent reaches a guest that stands still.
Still(g, p) == client[g] = "active" /\ p \in ToSet(View[pos[g]]) /\ hostPos[g] = pos[g]
RingFills ==
  \A g \in Guests, p \in Chunks :
    (Still(g, p) /\ p \notin sent[g]) ~> (~Still(g, p) \/ Holds(g, p))

\* Ground in view that the guest does not hold reaches it
\* (game/remote/terrain_requests.rs:11-15: the request "is what closes the hole").  The
\* code does not keep it: a request whose payload is not cached is answered by nobody.
HolesAreFilled ==
  \A g \in Guests, p \in Chunks :
    (client[g] = "active" /\ p \in ToSet(View[pos[g]]) /\ ~Holds(g, p))
      ~> (client[g] # "active" \/ p \notin ToSet(View[pos[g]]) \/ Holds(g, p))
=============================================================================
