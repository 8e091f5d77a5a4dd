------------------------------ MODULE MCServices ------------------------------
(***************************************************************************)
(* What surrounds a round (Services) for TLC: a few addresses, requests, wallets and   *)
(* scores.                                                                       *)
(***************************************************************************)
EXTENDS Services, TLC

CONSTANTS
    a1, a2, q1, q2,      \* addresses and requests
    w1, w2, w3, bot      \* wallets and a bot

-----------------------------------------------------------------------------
(* A bot in a round with two wallets, and a third wallet that only enters on chain.  *)
MCSeatList == <<w1, bot, w2>>
MCTierTables == {<<3, 2, 1>>, <<4, 1>>, <<5, 5>>}

Symmetry == Permutations({a1, a2}) \cup Permutations({q1, q2})
=============================================================================
