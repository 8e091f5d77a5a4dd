----------------------------- MODULE RoundLedger -----------------------------
(***************************************************************************)
(* What the escrow promises everyone else (contracts/src/IArenaSettlement.sol *)
(* and the head comment of ArenaEscrow.sol), with no roles, caps, tables or   *)
(* windows: a round opens once, seats players while it is open, settles once   *)
(* for players it seated, and what is owed is always in the pool.              *)
(*                                                                             *)
(* ArenaEscrow implements it, money included.  Settlement implements it with   *)
(* the money left out: the worker and the game server rely on no more of the   *)
(* chain than this.                                                            *)
(***************************************************************************)
EXTENDS Integers

CONSTANTS Players, RoundIds

VARIABLES
    phase,          \* per round: "none", "open" or "settled"
    seated, placed, \* per round: who entered, who its settlement names
    owed,           \* per player: what it may pull
    promised,       \* owed to all players together
    pool            \* what the escrow holds

roundVars == <<phase, seated, placed>>
moneyVars == <<owed, promised, pool>>
vars == <<roundVars, moneyVars>>

Init ==
    /\ phase = [r \in RoundIds |-> "none"]
    /\ seated = [r \in RoundIds |-> {}] /\ placed = [r \in RoundIds |-> {}]
    /\ owed = [p \in Players |-> 0] /\ promised = 0
    /\ pool \in Nat

Open(r) ==
    /\ phase[r] = "none"
    /\ phase' = [phase EXCEPT ![r] = "open"]
    /\ UNCHANGED <<seated, placed, moneyVars>>

Enter(r, p) ==
    /\ phase[r] = "open" /\ p \notin seated[r]
    /\ seated' = [seated EXCEPT ![r] = @ \cup {p}]
    /\ pool' \in Nat /\ pool' >= pool
    /\ UNCHANGED <<phase, placed, owed, promised>>

(* Only the players placed may be owed more, and all of it is in the pool. *)
Settle(r) ==
    /\ phase[r] = "open"
    /\ phase' = [phase EXCEPT ![r] = "settled"]
    /\ \E winners \in SUBSET seated[r] :
          /\ placed' = [placed EXCEPT ![r] = winners]
          /\ \A p \in Players : IF p \in winners THEN owed'[p] >= owed[p] ELSE owed'[p] = owed[p]
    /\ owed' \in [Players -> Nat]
    /\ promised' \in promised .. pool
    /\ UNCHANGED <<seated, pool>>

Pull(p) ==
    /\ owed[p] > 0
    /\ owed' = [owed EXCEPT ![p] = 0]
    /\ promised' = promised - owed[p]
    /\ pool' = pool - owed[p]
    /\ UNCHANGED roundVars

(* The pool is funded, or the owner takes from what is not promised. *)
Fund == pool' \in Nat /\ pool' >= pool /\ UNCHANGED <<roundVars, owed, promised>>
Skim == pool' \in promised .. pool /\ UNCHANGED <<roundVars, owed, promised>>

Next ==
    \/ \E r \in RoundIds : Open(r) \/ Settle(r) \/ (\E p \in Players : Enter(r, p))
    \/ \E p \in Players : Pull(p)
    \/ Fund \/ Skim

Spec == Init /\ [][Next]_vars
=============================================================================
