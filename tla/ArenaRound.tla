------------------------------ MODULE ArenaRound ------------------------------
(***************************************************************************)
(* A round in play: the fragments of a lobby, who claimed them, and the chests *)
(* and mints they earn (server/src/game/lobbyFrags.js, lobbyActions.js), driven *)
(* by the sockets of the humans and, on every tick, by the bots                 *)
(* (server/src/game/botDriver.js, driveBots in server/src/ws/gameSocket.js).     *)
(*                                                                             *)
(* A tick runs to its end before the next socket event, but the bots in it act  *)
(* one after the other on one snapshot of the round: turn is what is left of    *)
(* the tick, and while it is not empty nothing else happens.  A place stands    *)
(* for all positions within COLLECT_RANGE of each other; how far a seat may      *)
(* move at once is the business of the movement judge (module Movement), here    *)
(* it moves anywhere.                                                          *)
(***************************************************************************)
EXTENDS Integers, Sequences, FiniteSets, FiniteSetsExt

CONSTANTS
    Humans, Bots,
    BotOrder,        \* the bots in the order of the lobby's Map
    Frags, RarityOf, \* the layout's fragments
    Places,
    NoOne,           \* claimedBy null
    MaxFrags,        \* maxFrags of a seat
    FragsPerChest, MintLimit, FragPoints, MintPoints, MintDurations, MintGrace,
    Reports,         \* fragment counts a client may report in pos
    RoundTime        \* ROUND_DURATION, in ticks; it bounds the clock

Seats == Humans \cup Bots
Rarities == {RarityOf[f] : f \in Frags}

ASSUME RoundAssumption ==
    /\ IsFiniteSet(Humans) /\ IsFiniteSet(Bots) /\ IsFiniteSet(Frags)
    /\ BotOrder \in Seq(Bots)
    /\ NoOne \notin Seats /\ Humans \cap Bots = {}
    /\ Rarities \subseteq Nat
    /\ MaxFrags \in Nat /\ FragsPerChest \in Nat \ {0} /\ MintLimit \in Nat
    /\ FragPoints \in Nat /\ MintPoints \in [Rarities -> Nat]
    /\ MintDurations \in [Rarities -> Nat] /\ MintGrace \in Nat
    /\ Reports \subseteq 0 .. MaxFrags
    /\ RoundTime \in Nat

VARIABLES
    status,     \* "active" or "ended"
    now,
    live,       \* the seats in the lobby; whoever left plays on in departed
    pos, shadow,
    frags,      \* per fragment: at, and by (claimedBy)
    bag,        \* per seat and rarity: seat.fragments
    fragCount, score,
    mint,       \* per seat: chests, since (fragsSinceChest) and minted
    turn,       \* the rest of the tick: <<bot, "move">>, <<bot, "mint">> and <<NoOne, "end">>
    world,      \* the unclaimed fragments as the bots of this tick see them
    refusal     \* the refusal the last handler sent, or NoRefusal

placeVars == <<pos, shadow>>
seatVars == <<bag, fragCount, score, mint>>
roundVars == <<status, now, live, placeVars, frags, seatVars, turn, world, refusal>>

NoRefusal == [to |-> NoOne, reason |-> "none"]
Refuse(s, reason) == refusal' = [to |-> s, reason |-> reason]

Unclaimed(fs) == {[id |-> f, at |-> fs[f].at] : f \in {g \in Frags : fs[g].by = NoOne}}

-----------------------------------------------------------------------------
(* The one collection path and the one mint path. *)

(* tryCollect checks in this order. *)
RefusalOfTwice(s, f) == IF shadow[s] = 1 THEN "shadow" ELSE "none"  \* slip: no claimed check
RefusalOf(s, f) ==
    IF frags[f].by # NoOne THEN "claimed"
    ELSE IF shadow[s] = 1 THEN "shadow"
    ELSE IF pos'[s] # frags[f].at THEN "range" ELSE "none"

(* noteCollect. *)
NotedNoReset(m, r) ==  \* slip: the count is not emptied when the chest appears
    [m EXCEPT !.since[r] = @ + 1,
              !.chests = IF m.since[r] + 1 < FragsPerChest THEN @ ELSE Append(@, [rarity |-> r, since |-> now])]
Noted(m, r) ==
    IF m.since[r] + 1 < FragsPerChest THEN [m EXCEPT !.since[r] = @ + 1]
    ELSE [m EXCEPT !.since[r] = 0, !.chests = Append(@, [rarity |-> r, since |-> now])]

Claim(s, f) ==
    /\ frags' = [frags EXCEPT ![f].by = s]
    /\ bag' = [bag EXCEPT ![s][RarityOf[f]] = @ + 1]
    /\ fragCount' = [fragCount EXCEPT ![s] = @ + 1]
    /\ score' = [score EXCEPT ![s] = @ + FragPoints]
    /\ mint' = [mint EXCEPT ![s] = Noted(@, RarityOf[f])]

Full(s) == fragCount[s] >= MaxFrags
Claimable(s, f) == ~Full(s) /\ RefusalOf(s, f) = "none"

(* collectFragment; a full seat is refused silently. *)
Collect(s, f) ==
    \/ Claimable(s, f) /\ Claim(s, f) /\ refusal' = NoRefusal
    \/ Full(s) /\ refusal' = NoRefusal /\ UNCHANGED <<frags, seatVars>>
    \/ /\ ~Full(s) /\ RefusalOf(s, f) # "none" /\ Refuse(s, RefusalOf(s, f))
       /\ UNCHANGED <<frags, seatVars>>

(* The chest a mint consumes: of the highest rarity pending, the first. *)
Top(chests) ==
    CHOOSE i \in DOMAIN chests :
        \A j \in DOMAIN chests :
            /\ chests[j].rarity <= chests[i].rarity
            /\ chests[j].rarity = chests[i].rarity => i <= j
Ripe(chest) == now - chest.since + MintGrace >= MintDurations[chest.rarity]

MintRefusal(m) ==
    IF m.minted >= MintLimit THEN "mint_cap"
    ELSE IF m.chests = <<>> THEN "mint_no_chest"
    ELSE IF ~Ripe(m.chests[Top(m.chests)]) THEN "mint_early" ELSE "none"

(* hasMintableChest: what a bot asks before it mints. *)
HasMintableChest(m) ==
    /\ m.minted < MintLimit
    /\ m.chests # <<>>
    /\ Ripe(m.chests[Top(m.chests)])

Without(seq, i) == SubSeq(seq, 1, i - 1) \o SubSeq(seq, i + 1, Len(seq))

(* respawnRarity: every fragment of the rarity gets a place and is free again. *)
Respawn(r) ==
    \E place \in [{f \in Frags : RarityOf[f] = r} -> Places] :
        frags' = [f \in Frags |-> IF RarityOf[f] = r THEN [at |-> place[f], by |-> NoOne] ELSE frags[f]]
MintKeepsChest(s) ==  \* slip: the chest is not taken out
    LET r == mint[s].chests[Top(mint[s].chests)].rarity
    IN  /\ mint' = [mint EXCEPT ![s].minted = @ + 1]
        /\ score' = [score EXCEPT ![s] = @ + MintPoints[r]]
        /\ Respawn(r)
        /\ UNCHANGED <<bag, fragCount>>
MintTop(s) ==
    LET i == Top(mint[s].chests)
        r == mint[s].chests[i].rarity
    IN  /\ mint' = [mint EXCEPT ![s].minted = @ + 1, ![s].chests = Without(@, i)]
        /\ score' = [score EXCEPT ![s] = @ + MintPoints[r]]
        /\ Respawn(r)
        /\ UNCHANGED <<bag, fragCount>>

(* completeMint. *)
Mint(s) ==
    \/ MintRefusal(mint[s]) = "none" /\ MintTop(s) /\ refusal' = NoRefusal
    \/ /\ MintRefusal(mint[s]) # "none" /\ Refuse(s, MintRefusal(mint[s]))
       /\ UNCHANGED <<frags, seatVars>>

-----------------------------------------------------------------------------
(* The sockets.  frag:collected and mint:done do not look at lobby.status. *)

Between == turn = <<>>

(* pos: the client's count of fragments replaces the server's. *)
Pos(h, place, sh, fc) ==
    /\ Between /\ h \in live
    /\ pos' = [pos EXCEPT ![h] = place]
    /\ shadow' = [shadow EXCEPT ![h] = sh]
    /\ fragCount' = [fragCount EXCEPT ![h] = fc]
    /\ refusal' = NoRefusal
    /\ UNCHANGED <<status, now, live, frags, bag, score, mint, turn, world>>

FragCollected(h, f) ==
    /\ Between /\ h \in live
    /\ UNCHANGED <<status, now, live, placeVars, turn, world>>
    /\ Collect(h, f)

MintDone(h) ==
    /\ Between /\ h \in live
    /\ Mint(h)
    /\ UNCHANGED <<status, now, live, placeVars, turn, world>>

(* leaveSeat in a live round: the seat keeps its record, in departed; when no    *)
(* human is left the round ends, bots or not.                                   *)
Leave(h) ==
    /\ Between /\ h \in live
    /\ status = "active"
    /\ live' = live \ {h}
    /\ status' = IF live' \subseteq Bots THEN "ended" ELSE status
    /\ refusal' = NoRefusal
    /\ UNCHANGED <<now, placeVars, frags, seatVars, turn, world>>

-----------------------------------------------------------------------------
(* The tick. *)

Turns(order) ==
    [i \in 1 .. 2 * Len(order) + 1 |->
        IF i > 2 * Len(order) THEN <<NoOne, "end">>
        ELSE <<order[(i + 1) \div 2], IF i % 2 = 1 THEN "move" ELSE "mint">>]

RoundTick ==
    /\ Between /\ status = "active"
    /\ now' = now + 1
    /\ turn' = Turns(BotOrder)
    /\ world' = Unclaimed(frags)
    /\ refusal' = NoRefusal
    /\ UNCHANGED <<status, live, placeVars, frags, seatVars>>

(* Where a bot wants to go is its brain's business (stepBot): to a fragment it  *)
(* sees, which it claims once it would stand on it, or somewhere else.  The      *)
(* judge may leave it short of it.                                             *)
DropFromWorld(w) == world \ {w}

(* decide, and the way there. *)
BotGoes(b) ==
    /\ \E place \in Places : pos' = [pos EXCEPT ![b] = place]
    /\ refusal' = NoRefusal
    /\ UNCHANGED <<frags, seatVars, world>>

BotClaims(b, w) ==
    /\ \E short \in BOOLEAN : pos' = IF short THEN pos ELSE [pos EXCEPT ![b] = w.at]
    /\ Collect(b, w.id)
    /\ world' = IF Claimable(b, w.id) THEN DropFromWorld(w) ELSE world

BotMove(b) ==
    /\ turn # <<>> /\ Head(turn) = <<b, "move">>
    /\ BotGoes(b) \/ \E w \in world : BotClaims(b, w)
    /\ turn' = Tail(turn)
    /\ UNCHANGED <<status, now, live, shadow>>

SeenAfterMintStale == world  \* slip: no second snapshot
SeenAfterMint == Unclaimed(frags')

BotMint(b) ==
    /\ turn # <<>> /\ Head(turn) = <<b, "mint">>
    /\ \/ HasMintableChest(mint[b]) /\ Mint(b) /\ world' = SeenAfterMint
       \/ ~HasMintableChest(mint[b]) /\ refusal' = NoRefusal /\ UNCHANGED <<frags, seatVars, world>>
    /\ turn' = Tail(turn)
    /\ UNCHANGED <<status, now, live, placeVars>>

(* The end of the tick, and of the round when its time is up (endRound). *)
RoundEnd ==
    /\ turn # <<>> /\ Head(turn) = <<NoOne, "end">>
    /\ status' = IF now >= RoundTime THEN "ended" ELSE status
    /\ turn' = <<>>
    /\ world' = {}
    /\ refusal' = NoRefusal
    /\ UNCHANGED <<now, live, placeVars, frags, seatVars>>

-----------------------------------------------------------------------------
NewSeatMint == [chests |-> <<>>, since |-> [r \in Rarities |-> 0], minted |-> 0]

(* startRound. *)
RoundInit ==
    /\ status = "active" /\ now = 0
    /\ live = Seats
    /\ pos \in [Seats -> Places] /\ shadow = [s \in Seats |-> 0]
    /\ frags \in [Frags -> [at : Places, by : {NoOne}]]
    /\ bag = [s \in Seats |-> [r \in Rarities |-> 0]]
    /\ fragCount = [s \in Seats |-> 0] /\ score = [s \in Seats |-> 0]
    /\ mint = [s \in Seats |-> NewSeatMint]
    /\ turn = <<>> /\ world = {}
    /\ refusal = NoRefusal

HumanNext ==
    \E h \in Humans :
        \/ \E place \in Places, sh \in {0, 1}, fc \in Reports : Pos(h, place, sh, fc)
        \/ \E f \in Frags : FragCollected(h, f)
        \/ MintDone(h)
        \/ Leave(h)

RoundNext ==
    \/ HumanNext
    \/ RoundTick \/ RoundEnd
    \/ \E b \in Bots : BotMove(b) \/ BotMint(b)

RoundSpec == RoundInit /\ [][RoundNext]_roundVars

-----------------------------------------------------------------------------
(* Invariants. *)

Chest == [rarity : Rarities, since : Nat]

(* The type of every variable. *)
RoundTypeOK ==
    /\ status \in {"active", "ended"} /\ now \in Nat
    /\ live \subseteq Seats
    /\ pos \in [Seats -> Places] /\ shadow \in [Seats -> {0, 1}]
    /\ frags \in [Frags -> [at : Places, by : Seats \cup {NoOne}]]
    /\ bag \in [Seats -> [Rarities -> Nat]]
    /\ fragCount \in [Seats -> 0 .. MaxFrags] /\ score \in [Seats -> Nat]
    /\ mint \in [Seats -> [chests : Seq(Chest), since : [Rarities -> 0 .. FragsPerChest - 1], minted : 0 .. MintLimit]]
    /\ turn \in Seq((Bots \X {"move", "mint"}) \cup {<<NoOne, "end">>})
    /\ world \subseteq [id : Frags, at : Places]
    /\ refusal.to \in Seats \cup {NoOne}

Pending(s, r) == Cardinality({i \in DOMAIN mint[s].chests : mint[s].chests[i].rarity = r})
Earned(s, r) == (bag[s][r] - mint[s].since[r]) \div FragsPerChest
Minted(s, r) == Earned(s, r) - Pending(s, r)

(* A score is what was really done: lobbyFrags.js:117 "the player's real        *)
(* collections bound what that can be".  Every chest is three fragments of its   *)
(* rarity, every mint consumed one such chest, and the score is the fragments    *)
(* and the mints at their prices, whatever the order of claims and mints and     *)
(* whatever count the client reports.                                          *)
ScoreIsEarned ==
    \A s \in Seats :
        /\ \A r \in Rarities :
              /\ (bag[s][r] - mint[s].since[r]) % FragsPerChest = 0
              /\ Minted(s, r) >= 0
        /\ mint[s].minted = SumFunction([r \in Rarities |-> Minted(s, r)])
        /\ score[s] = SumFunction([r \in Rarities |->
                          FragPoints * bag[s][r] + MintPoints[r] * Minted(s, r)])

(* Each placement of a fragment is credited to at most one seat: of a rarity     *)
(* the seats hold, together, no more than its fragments once over and once more   *)
(* for every mint that put them out again, and each holds what is marked as its   *)
(* claim, also after it left.                                                    *)
ClaimsAreCredited ==
    \A r \in Rarities :
        LET supply == {f \in Frags : RarityOf[f] = r}
        IN  /\ SumFunction([s \in Seats |-> bag[s][r]])
                  <= Cardinality(supply) * (1 + SumFunction([s \in Seats |-> Minted(s, r)]))
            /\ \A s \in Seats : Cardinality({f \in supply : frags[f].by = s}) <= bag[s][r]

(* gameSocket.js:338 and :343: in a tick every bot sees the round as the bots     *)
(* before it left it, so none is refused but for standing too far off: not for a  *)
(* fragment already claimed, not for a mint that is early or over the limit.      *)
BotsSeeTheRound ==
    /\ turn # <<>> => world = Unclaimed(frags)
    /\ refusal.to \in Bots => refusal.reason = "range"
=============================================================================
