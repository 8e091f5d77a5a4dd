---------------------------------- MODULE Layout ----------------------------------
(***************************************************************************)
(* Where things are placed in a round (shared/layout.cjs): the fragments drawn     *)
(* from the stream of the round seed, the respawns of a rarity that go on drawing   *)
(* from it (server/src/game/soloRounds.js, lobbyFrags.js), the copy of them that     *)
(* the server and a client keep.                                                  *)
(*                                                                             *)
(* A stream is a fixed sequence of draws, of which some are blocked by an obstacle; *)
(* a place stands for the draw it was made from, as two draws never coincide.        *)
(*                                                                             *)
(* The client (client/index.html) is the one of a lobby, connected since round:start: it *)
(* computes the layout itself, collects at once whatever fragment it stands at, asks the  *)
(* server afterwards, and applies what the server tells it, which arrives in order.  The   *)
(* server may take its word, reject it, or drop it without an answer.                  *)
(***************************************************************************)
EXTENDS Integers, Sequences, FiniteSets, FiniteSetsExt, SequencesExt, Functions

CONSTANTS
    FragIds,          \* 1 .. the number of fragments, in the order of createLayout
    FragRarity,       \* which rise with the id (FRAG_N)
    Attempts,         \* ATTEMPTS
    Free,             \* claimedBy null
    Viewer,           \* the seat of the client
    Claimers,         \* the other seats
    MaxDraws, MaxBlocked, MaxRespawns, MaxWire \* bounds of a run

ASSUME LayoutAssumption ==
    /\ IsFiniteSet(FragIds) /\ FragIds = 1 .. Cardinality(FragIds)
    /\ \A i, j \in FragIds : i <= j => FragRarity[i] <= FragRarity[j]
    /\ {Attempts, MaxDraws, MaxBlocked, MaxRespawns, MaxWire} \subseteq Nat
    /\ Free \notin Claimers \cup {Viewer}

VARIABLES
    blocked,     \* the draws of the stream that hit an obstacle
    cursor,      \* the next draw
    placed,      \* layout.fragments: where each is
    copy,        \* lobby.frags: at and by
    respawns,    \* the rarities respawned, in order
    wire,        \* the events on their way to the client
    screen,      \* the client's fragments: at, and taken (its `collected`)
    asked,       \* its frag:collected on their way to the server
    lost,        \* asked for and dropped since they were last placed
    refused      \* asked for and rejected since another claimed them

streamVars == <<blocked, cursor, placed, respawns>>
askVars == <<asked, lost, refused>>
layoutVars == <<streamVars, copy, wire, screen, askVars>>

(* safePos: the first draw of ATTEMPTS that is clear, or the one after them.  It   *)
(* is used up to there.                                                          *)
SafePos(draws, from) ==
    LET clear == {n \in from .. from + Attempts - 1 : n \notin draws}
    IN  IF clear = {} THEN from + Attempts ELSE Min(clear)

(* The loop over the fragments: those of ids are placed, the others passed over. *)
Placing(draws, ids, acc, f) ==
    LET at == SafePos(draws, acc.cursor)
    IN  IF f \notin ids THEN acc
        ELSE [cursor |-> at + 1, places |-> [acc.places EXCEPT ![f] = at], moved |-> Append(acc.moved, f)]
PlaceAll(draws, from, places, ids) ==
    FoldLeft(LAMBDA acc, f : Placing(draws, ids, acc, f),
             [cursor |-> from, places |-> places, moved |-> <<>>],
             [i \in 1 .. Cardinality(FragIds) |-> i])

OfRarity(r) == {f \in FragIds : FragRarity[f] = r}
NoPlaces == [f \in FragIds |-> -1]
CreateLayout(draws) == PlaceAll(draws, 0, NoPlaces, FragIds)

-----------------------------------------------------------------------------
Notice(kind, f, at) == [kind |-> kind, id |-> f, at |-> at]
Tell(events) == wire' = wire \o events

(* respawn, and respawnRarity with the broadcast of what moved. *)
Freed(moved, f) == [at |-> moved[f], by |-> Free]
CopyAfter(moved, r) == [f \in FragIds |-> IF FragRarity[f] = r THEN Freed(moved, f) ELSE copy[f]]

FromStart == 0  \* slip: a respawn rewinds the stream
RespawnFrom == cursor

Respawned(r) ==
    LET after == PlaceAll(blocked, RespawnFrom, placed, OfRarity(r))
    IN  /\ after.cursor <= MaxDraws
        /\ cursor' = after.cursor
        /\ placed' = after.places
        /\ respawns' = Append(respawns, r)
        /\ copy' = CopyAfter(after.places, r)
        /\ Tell([i \in DOMAIN after.moved |-> Notice("respawn", after.moved[i], after.places[after.moved[i]])])
        /\ lost' = lost \ OfRarity(r) /\ refused' = refused \ OfRarity(r)
        /\ UNCHANGED <<blocked, screen, asked>>

RespawnRarity(r) ==
    /\ Len(respawns) < MaxRespawns /\ Len(wire) < MaxWire
    /\ Respawned(r)

(* A claim, and frag:taken to every seat, the claimer's included. *)
TakeFragment(f, s) ==
    /\ copy[f].by = Free /\ Len(wire) < MaxWire
    /\ copy' = [copy EXCEPT ![f].by = s]
    /\ Tell(<<Notice("taken", f, copy[f].at)>>)
    /\ UNCHANGED <<streamVars, screen, lost, refused>>

OtherTakes(f, s) == TakeFragment(f, s) /\ UNCHANGED asked

(* The client stands at a fragment it shows: it is collected before the server hears. *)
ClientCollects(f) ==
    /\ ~ screen[f].taken /\ Len(asked) < MaxWire
    /\ screen' = [screen EXCEPT ![f].taken = TRUE]
    /\ asked' = Append(asked, f)
    /\ UNCHANGED <<streamVars, copy, wire, lost, refused>>

(* The server hears of it: it takes the fragment, rejects it, as it is claimed or the    *)
(* seat is in shadow or out of range, or the rate limit or the cap drops it silently.    *)
AskTaken ==
    /\ asked # <<>> /\ asked' = Tail(asked)
    /\ TakeFragment(Head(asked), Viewer)

AskRejected ==
    /\ asked # <<>> /\ asked' = Tail(asked) /\ Len(wire) < MaxWire
    /\ LET f == Head(asked)
       IN  /\ Tell(<<Notice("rejected", f, copy[f].at)>>)
           /\ refused' = IF copy[f].by = Free THEN refused ELSE refused \cup {f}
    /\ UNCHANGED <<streamVars, copy, screen, lost>>

AskDropped ==
    /\ asked # <<>> /\ asked' = Tail(asked)
    /\ lost' = lost \cup {Head(asked)}
    /\ UNCHANGED <<streamVars, copy, wire, screen, refused>>

(* The client applies the next event: it places what moved, hides what was taken, and      *)
(* shows again what it was refused, wherever it has it now.                             *)
Applied(view, ev) ==
    [view EXCEPT ![ev.id] = [at |-> IF ev.kind = "respawn" THEN ev.at ELSE @.at,
                             taken |-> ev.kind = "taken"]]
ClientApplies ==
    /\ wire # <<>>
    /\ screen' = Applied(screen, Head(wire))
    /\ wire' = Tail(wire)
    /\ UNCHANGED <<streamVars, copy, askVars>>

LayoutInit ==
    /\ blocked \in UNION {kSubset(k, 0 .. MaxDraws - 1) : k \in 0 .. MaxBlocked}
    /\ LET layout == CreateLayout(blocked)
       IN  /\ layout.cursor <= MaxDraws
           /\ cursor = layout.cursor
           /\ placed = layout.places
           /\ copy = [f \in FragIds |-> [at |-> layout.places[f], by |-> Free]]
           /\ screen = [f \in FragIds |-> [at |-> layout.places[f], taken |-> FALSE]]
    /\ respawns = <<>> /\ wire = <<>> /\ asked = <<>> /\ lost = {} /\ refused = {}

LayoutNext ==
    \/ ClientApplies \/ AskTaken \/ AskRejected \/ AskDropped
    \/ \E f \in FragIds : ClientCollects(f)
    \/ \E r \in Range(FragRarity) : RespawnRarity(r)
    \/ \E f \in FragIds, s \in Claimers : OtherTakes(f, s)

LayoutSpec == LayoutInit /\ [][LayoutNext]_layoutVars

-----------------------------------------------------------------------------
(* The type of every variable. *)
LayoutTypeOK ==
    /\ blocked \subseteq 0 .. MaxDraws - 1 /\ cursor \in 0 .. MaxDraws
    /\ placed \in [FragIds -> 0 .. MaxDraws]
    /\ copy \in [FragIds -> [at : 0 .. MaxDraws, by : Claimers \cup {Viewer, Free}]]
    /\ respawns \in Seq(Range(FragRarity))
    /\ wire \in Seq([kind : {"respawn", "taken", "rejected"}, id : FragIds, at : 0 .. MaxDraws])
    /\ screen \in [FragIds -> [at : 0 .. MaxDraws, taken : BOOLEAN]]
    /\ asked \in Seq(FragIds) /\ lost \subseteq FragIds /\ refused \subseteq FragIds

(* The log replayed from the seed, and a view once the events have arrived. *)
Replay(draws, log) ==
    FoldLeft(LAMBDA layout, r : PlaceAll(draws, layout.cursor, layout.places, OfRarity(r)),
             CreateLayout(draws), log)
Arrived(view, events) == FoldLeft(Applied, view, events)

(* soloRounds.js:54 "The order of respawns is kept on the round so the trajectory     *)
(* can be replayed from the seed", and layout.cjs:20 "The server holds the stream      *)
(* and broadcasts the new positions; the client applies what it is told": the places   *)
(* follow from the seed and the log alone, no draw places two fragments, a place on     *)
(* an obstacle had all its attempts blocked, and the server's copy is where the layout   *)
(* is.  So is the client's, once what is on the wire has arrived, however what it         *)
(* collects, is refused and is told overlap; it hides a free fragment only while its      *)
(* own claim of it is under way or was dropped, and shows a claimed one only when it      *)
(* was refused that one.                                                             *)
LayoutReplays ==
    LET replay == Replay(blocked, respawns)
        seen == Arrived(screen, wire)
    IN  /\ placed = replay.places /\ cursor = replay.cursor
        /\ IsInjective(placed) /\ \A f \in FragIds : placed[f] < cursor
        /\ \A f \in FragIds : placed[f] \in blocked => placed[f] - Attempts .. placed[f] \subseteq blocked
        /\ \A f \in FragIds :
              /\ copy[f].at = placed[f] /\ seen[f].at = placed[f]
              /\ seen[f].taken /\ copy[f].by = Free => f \in Range(asked) \cup lost
              /\ ~ seen[f].taken /\ copy[f].by # Free => f \in refused
=============================================================================
