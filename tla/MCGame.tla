-------------------------------- MODULE MCGame --------------------------------
(***************************************************************************)
(* The rules of the game (Game) for TLC: a small round, field, layout, collection     *)
(* and hall.                                                                     *)
(***************************************************************************)
EXTENDS Game, TLC

CONSTANTS
    h, b, c, f1, f2, g1, g2, l1, l2, \* seats, fragments and places of a round
    p, q, x1, x2,                    \* collectors and assets
    w1, w2, n1, n2, wallet, guest1, guest2 \* connections, and whom they are seated as

-----------------------------------------------------------------------------
(* One human and two bots, two fragments of each of two rarities, two to a chest:   *)
(* the low rarity mints at once and the high one needs a tick, so that a chest may    *)
(* be pending that is not ripe.                                                   *)
MCBotOrder == <<b, c>>
MCRarityOf == (f1 :> 0) @@ (f2 :> 0) @@ (g1 :> 1) @@ (g2 :> 1)
MCMintPoints == (0 :> 10) @@ (1 :> 25)
MCMintDurations == (0 :> 1) @@ (1 :> 3)

MCSeatOrder == <<"a", "b">>
MCPwDuration == ("speed" :> 4) @@ ("shield" :> 1)

MCFragRarity == <<0, 1>>

MCRarityTable == <<[weight |-> 60, points |-> 10, duration |-> 1],
                   [weight |-> 40, points |-> 25, duration |-> 2]>>

(* Two connections of one wallet, and two guests. *)
MCIdOf == (w1 :> wallet) @@ (w2 :> wallet) @@ (n1 :> guest1) @@ (n2 :> guest2)

Symmetry == Permutations({f1, f2}) \cup Permutations({g1, g2}) \cup Permutations({l1, l2})
=============================================================================
