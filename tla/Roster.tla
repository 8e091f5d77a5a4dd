---------------------------------- MODULE Roster ----------------------------------
(***************************************************************************)
(* From the scores of a staked round to the money: the seats are ranked, those that   *)
(* left among them (server/src/game/settlementRoster.js), and written row by row       *)
(* (saveResults in server/src/ws/gameSocket.js); the settlement worker reads the rows   *)
(* there are and keeps who entered on chain (services/settler/settle.js); the signer    *)
(* (services/signer/sign.js) and the escrow (contracts/src/ArenaEscrow.sol) check the     *)
(* list.  Module Settlement has the same steps with a result for whoever was there;      *)
(* here are the places.                                                            *)
(*                                                                             *)
(* Players may enter on chain until the round is settled, seated or not, and the owner   *)
(* may change the tiers at any time.                                                 *)
(***************************************************************************)
EXTENDS Integers, Sequences, FiniteSets, SequencesExt, Functions

CONSTANTS
    SeatList,       \* the seats in the order of the lobby's Map
    Wallets,        \* addresses: the staked humans, and others who enter
    TierTables,     \* tables setTiers may be called with
    RoundCap,       \* maxPayoutPerRound
    MostPlacements, \* MAX_PLACEMENTS of signer and escrow
    MostPlace,      \* a place is a uint8
    MaxPoints       \* bounds the scores of a run

ASSUME RosterAssumption ==
    /\ SeatList \in Seq(Range(SeatList)) /\ IsInjective(SeatList) /\ Len(SeatList) <= MostPlacements
    /\ TierTables \subseteq Seq(Nat)
    /\ MostPlacements <= MostPlace
    /\ {RoundCap, MostPlacements, MostPlace, MaxPoints} \subseteq Nat

VARIABLES
    stage,      \* of the round: "playing", then "completed", then "settled"
    points, gone,   \* scores; who left, in order
    ranking,    \* the seats in placement order, once ranked
    written,    \* how many rows of them are in the database
    onchain,    \* who entered the round
    tiers,
    step,       \* of the worker: "idle", "rows", "listed"
    rows, list  \* what it has read and built

roundPart == <<points, gone, ranking, written>>
workPart == <<step, rows, list>>
rosterVars == <<stage, roundPart, onchain, tiers, workPart>>

SeatSet == Range(SeatList)
Seated == SeatSet \cap Wallets
TableSum(seq) == SumFunction(seq)

(* What is at the indices of ix, in order: a filter. *)
Picked(seq, ix) ==
    [n \in 1 .. Cardinality(ix) |-> seq[CHOOSE i \in ix : Cardinality({j \in ix : j <= i}) = n]]

-----------------------------------------------------------------------------
(* The round and its results. *)

ScorePoint(s) ==
    /\ stage = "playing" /\ s \notin Range(gone) /\ points[s] < MaxPoints
    /\ points' = [points EXCEPT ![s] = @ + 1]
    /\ UNCHANGED <<stage, gone, ranking, written, onchain, tiers, workPart>>

(* departedSnapshot: the score stays as it was. *)
DepartSeat(w) ==
    /\ stage = "playing" /\ w \in Seated \ Range(gone)
    /\ gone' = Append(gone, w)
    /\ UNCHANGED <<stage, points, ranking, written, onchain, tiers, workPart>>

(* rankSeats: a stable sort of the live seats, then the departed. *)
PlaceLowFirst(seats, i) ==  \* slip: a.score - b.score
    1 + Cardinality({j \in DOMAIN seats : \/ points[seats[j]] < points[seats[i]]
                                          \/ points[seats[j]] = points[seats[i]] /\ j < i})
PlaceAt(seats, i) ==
    1 + Cardinality({j \in DOMAIN seats : \/ points[seats[j]] > points[seats[i]]
                                          \/ points[seats[j]] = points[seats[i]] /\ j < i})
Standing == Picked(SeatList, {i \in DOMAIN SeatList : SeatList[i] \notin Range(gone)}) \o gone
Ranked ==
    [p \in DOMAIN Standing |->
        [who |-> Standing[CHOOSE i \in DOMAIN Standing : PlaceAt(Standing, i) = p], place |-> p]]

FinishRound ==
    /\ stage = "playing"
    /\ stage' = "completed"
    /\ ranking' = Ranked
    /\ UNCHANGED <<points, gone, written, onchain, tiers, workPart>>

(* saveResults, a row at a time, in placement order; an INSERT that fails ends it. *)
InsertRow ==
    /\ stage # "playing" /\ written < Len(ranking)
    /\ written' = written + 1
    /\ UNCHANGED <<stage, points, gone, ranking, onchain, tiers, workPart>>

-----------------------------------------------------------------------------
(* The chain. *)

EnterRound(w) ==
    /\ stage # "settled" /\ w \notin onchain
    /\ onchain' = onchain \cup {w}
    /\ UNCHANGED <<stage, roundPart, tiers, workPart>>

ChangeTiers(t) ==
    /\ t # tiers /\ TableSum(t) <= RoundCap
    /\ tiers' = t
    /\ UNCHANGED <<stage, roundPart, onchain, workPart>>

PrizeIn(table, place) == IF place <= Len(table) THEN table[place] ELSE 0

(* validateSettlement of the signer. *)
SignerAccepts(ps) ==
    /\ Len(ps) <= MostPlacements
    /\ \A i, j \in DOMAIN ps : ps[i].player = ps[j].player => i = j
    /\ \A i \in DOMAIN ps : ps[i].place \in 1 .. MostPlace

(* settleRound of the escrow, on the list. *)
EscrowAccepts(ps) ==
    /\ Len(ps) <= MostPlacements
    /\ \A i \in DOMAIN ps : ps[i].place # 0 /\ ps[i].player \in onchain
    /\ \A i, j \in DOMAIN ps : ps[i].player = ps[j].player => i = j
    /\ TableSum([i \in DOMAIN ps |-> PrizeIn(tiers, ps[i].place)]) <= RoundCap

-----------------------------------------------------------------------------
(* The worker. *)

ReadRows ==
    /\ step = "idle" /\ stage = "completed"
    /\ step' = "rows" /\ rows' = SubSeq(ranking, 1, written)
    /\ UNCHANGED <<stage, roundPart, onchain, tiers, list>>

(* buildPlacements. *)
Listed(who) == who \in Wallets \cap onchain
BuildPlacements ==
    /\ step = "rows"
    /\ step' = "listed"
    /\ LET kept == Picked(rows, {i \in DOMAIN rows : Listed(rows[i].who)})
       IN  list' = [i \in DOMAIN kept |-> [player |-> kept[i].who, place |-> kept[i].place]]
    /\ UNCHANGED <<stage, roundPart, onchain, tiers, rows>>

(* settleRound mines. *)
SettleListed ==
    /\ step = "listed" /\ stage = "completed"
    /\ SignerAccepts(list) /\ EscrowAccepts(list)
    /\ stage' = "settled" /\ step' = "idle"
    /\ UNCHANGED <<roundPart, onchain, tiers, rows, list>>

RetryLater ==
    /\ step # "idle"
    /\ step' = "idle"
    /\ UNCHANGED <<stage, roundPart, onchain, tiers, rows, list>>

RosterInit ==
    /\ stage = "playing"
    /\ points = [s \in SeatSet |-> 0] /\ gone = <<>>
    /\ ranking = <<>> /\ written = 0
    /\ onchain = Seated
    /\ tiers \in {t \in TierTables : TableSum(t) <= RoundCap}
    /\ step = "idle" /\ rows = <<>> /\ list = <<>>

RosterNext ==
    \/ \E s \in SeatSet : ScorePoint(s)
    \/ \E w \in Wallets : DepartSeat(w) \/ EnterRound(w)
    \/ \E t \in TierTables : ChangeTiers(t)
    \/ FinishRound \/ InsertRow
    \/ ReadRows \/ BuildPlacements \/ SettleListed \/ RetryLater

RosterSpec == RosterInit /\ [][RosterNext]_rosterVars

-----------------------------------------------------------------------------
Placing == [who : SeatSet, place : Nat]

(* The type of every variable. *)
RosterTypeOK ==
    /\ stage \in {"playing", "completed", "settled"} /\ step \in {"idle", "rows", "listed"}
    /\ points \in [SeatSet -> 0 .. MaxPoints] /\ gone \in Seq(Seated)
    /\ ranking \in Seq(Placing) /\ written \in 0 .. Len(ranking)
    /\ Seated \subseteq onchain /\ onchain \subseteq Wallets /\ tiers \in TierTables
    /\ rows \in Seq(Placing) /\ list \in Seq([player : Wallets, place : Nat])

(* settlementRoster.js:4 "The escrow can credit only address shaped participants     *)
(* that entered the round on chain", and ArenaEscrow.sol:379 the table "must fit the   *)
(* round cap": the list of whatever rows were there is one that signer and escrow     *)
(* accept, whatever table stands by then, so ties, bots among the places, leavers     *)
(* and late entrants never make a settlement revert on the list; and                  *)
(* the places are those of the whole round, by score.                              *)
SettlementIsAcceptable ==
    step = "listed" /\ stage = "completed" =>
        /\ SignerAccepts(list) /\ EscrowAccepts(list)
        /\ \A i \in DOMAIN list :
              LET better == {s \in SeatSet : points[s] > points[list[i].player]}
                  equal == {s \in SeatSet : points[s] = points[list[i].player]}
              IN  list[i].place \in Cardinality(better) + 1 .. Cardinality(better) + Cardinality(equal)
=============================================================================
