-------------------------- MODULE ArenaEscrowHistory --------------------------
(***************************************************************************)
(* ArenaEscrow with one history variable: what each settlement credited to   *)
(* each player, by the block it was mined in (the Credited events, read back  *)
(* from the chain).  It states what the per-player cap means over any span of *)
(* blocks, which the contract's own Window record no longer knows.            *)
(***************************************************************************)
EXTENDS ArenaEscrow

ASSUME MaxBlockAssumption == MaxBlock \in Nat \ {0}

VARIABLE creditedAt

Blocks == 1 .. MaxBlock

Gain(p) == IF claimable'[p] > claimable[p] THEN claimable'[p] - claimable[p] ELSE 0

HInit ==
    /\ Init
    /\ creditedAt = [p \in Players |-> [b \in Blocks |-> 0]]

HNext ==
    /\ Next
    /\ creditedAt' = [p \in Players |-> [creditedAt[p] EXCEPT ![block] = @ + Gain(p)]]

HSpec == HInit /\ [][HNext]_<<vars, creditedAt>>

CreditedIn(p, span) == SumFunctionOnSet(creditedAt[p], span)

Span(from) == {b \in Blocks : from <= b /\ b < from + caps.blocks}

(* What _chargeWindow does guarantee while the caps stand: a span can meet at *)
(* most two of its windows, so it credits at most twice the cap.               *)
TwoWindowsPerSpan ==
    \A p \in Players, from \in Blocks : CreditedIn(p, Span(from)) <= 2 * caps.player

(* The Window record is the truth about the events: while it is running, it    *)
(* holds exactly what has been credited since it started.                      *)
WindowCountsCredits ==
    \A p \in Players :
        LET w == windows[p] IN
        w.startBlock # 0 => w.paid = CreditedIn(p, {b \in Blocks : b >= w.startBlock})

(* What the per-player cap of _chargeWindow amounts to: the record of the window *)
(* is true, and so no span of blocks credits more than two windows allow.         *)
CapBoundsCredits == WindowCountsCredits /\ TwoWindowsPerSpan
=============================================================================
