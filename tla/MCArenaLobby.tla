----------------------------- MODULE MCArenaLobby -----------------------------
(***************************************************************************)
(* Small instances of the lobby for TLC: p1 may connect twice (a reload or a   *)
(* second tab), p2 once, p3 once.                                             *)
(***************************************************************************)
EXTENDS ArenaLobby, TLC

CONSTANTS p1, p2, p3, a1, a2, b1, c1

MCOwner2 == (a1 :> p1) @@ (a2 :> p1) @@ (b1 :> p2)
MCOwner3 == (a1 :> p1) @@ (b1 :> p2) @@ (c1 :> p3)
MCOwner4 == (a1 :> p1) @@ (a2 :> p1) @@ (b1 :> p2) @@ (c1 :> p3)
=============================================================================
