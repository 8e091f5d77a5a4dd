---------------------------- MODULE MCArenaEscrow ----------------------------
(***************************************************************************)
(* A small instance of the escrow for TLC.  Amounts are single units; the    *)
(* tables, caps and settlements are chosen so that the round cap, the window  *)
(* cap, the pool, a duplicate and an unseated player each refuse some         *)
(* settlement, and each accepts some other.  A behaviour looks at one of three: *)
(* the money of two players and two rounds in two blocks, the owner leaving     *)
(* the parameters alone; one player's window, with its three rounds and three    *)
(* blocks; or the parameters and roles, with one player, round and block.       *)
(***************************************************************************)
EXTENDS ArenaEscrowHistory, TLC

CONSTANTS p1, p2, k1, k2, k3, k4, escrow, house, r1, r2, r3, s1, none, zero

MCTwoPlayers == {p1, p2}
MCPurse == (escrow :> 0) @@ (house :> 2) @@ (p1 :> 2) @@ (p2 :> 1)

MCPl(p, n) == [player |-> p, place |-> n]
MCSettlements ==
    {<<>>, <<MCPl(p1, 1)>>, <<MCPl(p1, 1), MCPl(p2, 2)>>,
     <<MCPl(p1, 2)>>, <<MCPl(p1, 1), MCPl(p1, 2)>>, <<MCPl(p1, 3), MCPl(p2, 0)>>, <<MCPl(p1, 1), MCPl(p2, 1)>>}

MCTable == <<2, 1>>
MCCap == [round |-> 3, player |-> 3, blocks |-> 2]

MCWindowCap == [round |-> 3, player |-> 2, blocks |-> 2]

MCTiers == {MCTable, <<1>>, <<1, 1, 1>>, <<2, 0>>, <<>>}
MCCaps ==
    {MCCap, MCWindowCap, [round |-> 2, player |-> 3, blocks |-> 2], [round |-> 1, player |-> 1, blocks |-> 1],
     [round |-> 3, player |-> 4, blocks |-> 1], [round |-> 3, player |-> 0, blocks |-> 1]}

VARIABLE looksAt  \* "money", "window" or "parameters"

Opened == {r \in RoundIds : rounds'[r].seedCommit # NoSeed}
OwnerRests == UNCHANGED <<roleVars, paramVars>>
SecondRests == usdc'[p2] = usdc[p2] /\ p2 \notin blocked'

MoneyInit == tiers = MCTable /\ caps = MCCap
MoneyNext == OwnerRests /\ HNext /\ block' <= 2 /\ Cardinality(Opened) <= 2

WindowInit == tiers = MCTable /\ caps = MCWindowCap /\ entryAmount = 1
WindowNext == OwnerRests /\ UNCHANGED <<paused, blocked>> /\ HNext /\ SecondRests

ParameterNext ==
    /\ UNCHANGED block /\ HNext
    /\ SecondRests /\ usdc'[house] = usdc[house] /\ Cardinality(Opened) <= 1

MCInit ==
    /\ HInit
    /\ \/ looksAt = "money" /\ MoneyInit
       \/ looksAt = "window" /\ WindowInit
       \/ looksAt = "parameters"

MCNext ==
    /\ UNCHANGED looksAt
    /\ \/ looksAt = "money" /\ MoneyNext
       \/ looksAt = "window" /\ WindowNext
       \/ looksAt = "parameters" /\ ParameterNext

MCSpec == MCInit /\ [][MCNext]_<<vars, creditedAt, looksAt>>

Symmetry == Permutations(RoundIds) \cup Permutations(Seeds) \cup Permutations(Keys)
=============================================================================
