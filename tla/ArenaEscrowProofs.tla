-------------------------- MODULE ArenaEscrowProofs --------------------------
(***************************************************************************)
(* What ArenaEscrow promises for every set of players, keys and rounds, every *)
(* choice of tables and caps the owner may make and every settlement that may *)
(* be signed; that the contract implements RoundLedger; and, of the contract     *)
(* with its history of credits, what the per-player cap bounds over any span of  *)
(* blocks.  Most proofs use no more of Total and CreditTo than the range the      *)
(* contract checks them against; that Total is the sum of the credits is the     *)
(* lemmas' about sums (Sums).                                                    *)
(***************************************************************************)
EXTENDS ArenaEscrowHistory, Sums

USE AddressAssumption, ChoiceAssumption
USE DEF Sum, SumFunction

(* A transfer moves the amount and keeps every balance a natural number.       *)
LEMMA TransferMoves ==
    ASSUME usdc \in [Accounts -> Nat],
           NEW from \in Accounts, NEW to \in Accounts, NEW amount \in Nat,
           CanTransfer(from, to, amount), Transfer(from, to, amount)
    PROVE  /\ usdc' \in [Accounts -> Nat]
           /\ from # to => /\ usdc'[from] = usdc[from] - amount
                           /\ usdc'[to] = usdc[to] + amount
           /\ from = to => usdc'[to] = usdc[to]
           /\ \A a \in Accounts \ {from, to} : usdc'[a] = usdc[a]
BY DEF CanTransfer, Transfer

(* The contract has an account of its own. *)
LEMMA EscrowIsAnAccount == Escrow \in Accounts /\ Players \subseteq Accounts \ {Escrow}
BY DEF Accounts

(* The free pool is a natural number and, with what is owed, never more than    *)
(* what is held (freePool).                                                     *)
LEMMA FreePoolRange ==
    ASSUME TypeOK
    PROVE  /\ FreePool \in Nat
           /\ totalClaimable <= usdc[Escrow] => totalClaimable + FreePool <= usdc[Escrow]
BY EscrowIsAnAccount DEF FreePool, TypeOK

(* The window record stays well typed through a charge (_chargeWindow).         *)
LEMMA ChargedType ==
    ASSUME block \in Nat, caps \in [round : Nat, player : Nat, blocks : Nat],
           NEW w \in [startBlock : Nat, paid : Nat], NEW amount \in Nat
    PROVE  /\ Charged(w, amount) \in [startBlock : Nat, paid : Nat]
           /\ Charged(w, amount).paid <= Uint192Max
<1>1. PaidWith(w, amount) \in Nat
  BY DEF PaidWith
<1>2. AsUint192(PaidWith(w, amount)) \in 0 .. Uint192Max
  BY <1>1 DEF AsUint192
<1> QED BY <1>2 DEF Charged

RoundRecord == [seedCommit : Seeds \cup {NoSeed}, settled : BOOLEAN]

(* Opening and settling change one field of one round's record.                 *)
LEMMA RoundUpdates ==
    ASSUME rounds \in [RoundIds -> RoundRecord], NEW r \in RoundIds, NEW seed \in Seeds
    PROVE  /\ [rounds EXCEPT ![r].seedCommit = seed] \in [RoundIds -> RoundRecord]
           /\ [rounds EXCEPT ![r].settled = TRUE] \in [RoundIds -> RoundRecord]
<1>1. rounds[r] \in RoundRecord
  OBVIOUS
<1>2. [rounds[r] EXCEPT !.seedCommit = seed] \in RoundRecord
  BY <1>1, Zenon DEF RoundRecord
<1>3. [rounds[r] EXCEPT !.settled = TRUE] \in RoundRecord
  BY <1>1, Zenon DEF RoundRecord
<1> QED BY <1>2, <1>3, Zenon

-----------------------------------------------------------------------------
(* Type correctness. *)

LEMMA InitType == Init => TypeOK
<1> SUFFICES ASSUME Init PROVE TypeOK
  OBVIOUS
<1>1. rounds \in [RoundIds -> RoundRecord]
  BY Zenon DEF Init, RoundRecord
<1>2. windows \in [Players -> [startBlock : Nat, paid : Nat]]
  BY DEF Init
<1>3. caps \in [round : Nat, player : Nat, blocks : Nat] /\ tiers \in Seq(Nat)
  BY DEF Init
<1> QED BY <1>1, <1>2, <1>3 DEF Init, TypeOK, RoundRecord

(* What players do keeps the types. *)
LEMMA PlayerType == TypeOK /\ PlayerNext => TypeOK'
<1> SUFFICES ASSUME TypeOK, PlayerNext PROVE TypeOK'
  OBVIOUS
<1>1. ASSUME NEW p \in Players, NEW r \in RoundIds, Seat(r, p) PROVE TypeOK'
  <2>1. usdc' \in [Accounts -> Nat]
    BY <1>1, EscrowIsAnAccount, TransferMoves DEF Seat, TypeOK
  <2>2. entered' \in [RoundIds -> SUBSET Players]
    BY <1>1 DEF Seat, TypeOK
  <2> QED BY <1>1, <2>1, <2>2 DEF Seat, TypeOK, paramVars, roleVars, creditVars
<1>2. ASSUME NEW p \in Players, Withdraw(p) PROVE TypeOK'
  <2>1. claimable[p] \in Nat
    BY DEF TypeOK
  <2>2. usdc' \in [Accounts -> Nat]
    BY <1>2, <2>1, EscrowIsAnAccount, TransferMoves DEF Withdraw, TypeOK
  <2>3. claimable' \in [Players -> Nat] /\ totalClaimable' \in Nat
    BY <1>2, <2>1 DEF Withdraw, TypeOK
  <2> QED BY <1>2, <2>2, <2>3 DEF Withdraw, TypeOK, paramVars, roleVars, roundVars
<1> QED BY <1>1, <1>2 DEF PlayerNext, Enter, EnterWithPermit2

(* A settlement keeps the types. *)
LEMMA SettleType ==
    ASSUME TypeOK, NEW caller \in Keys, NEW r \in RoundIds, NEW pl \in PlacementLists,
           NEW seed \in Seeds, NEW by \in Keys, SettleRound(caller, r, pl, seed, by)
    PROVE  TypeOK'
<1>1. \A p \in Players : CreditTo(pl, p) \in Nat
  BY DEF SettleRound, WithinRoundCap, TypeOK
<1>2. Total(pl) \in Nat
  BY DEF SettleRound, WithinRoundCap, TypeOK
<1>3. PlacedBy(pl) \subseteq Players
  BY DEF SettleRound, AllSeated, TypeOK
<1>4. windows' \in [Players -> [startBlock : Nat, paid : Nat]]
  <2>1. ASSUME NEW p \in Players
        PROVE Charged(windows[p], CreditTo(pl, p)) \in [startBlock : Nat, paid : Nat]
    BY <1>1, ChargedType DEF TypeOK
  <2> QED BY <2>1 DEF SettleRound, TypeOK
<1>5. claimable' \in [Players -> Nat] /\ totalClaimable' \in Nat
  BY <1>1, <1>2 DEF SettleRound, TypeOK
<1>6. placed' \in [RoundIds -> SUBSET Players]
  BY <1>3 DEF SettleRound, TypeOK
<1>7. rounds' \in [RoundIds -> [seedCommit : Seeds \cup {NoSeed}, settled : BOOLEAN]]
  BY RoundUpdates, Zenon DEF SettleRound, TypeOK, RoundRecord
<1> QED BY <1>4, <1>5, <1>6, <1>7 DEF SettleRound, TypeOK, chainVars, roleVars, paramVars

(* What the operator does keeps the types. *)
LEMMA OperatorType == TypeOK /\ OperatorNext => TypeOK'
<1> SUFFICES ASSUME TypeOK, NEW caller \in Keys, NEW r \in RoundIds, NEW seed \in Seeds,
                    \/ OpenRound(caller, r, seed)
                    \/ \E pl \in PlacementLists, by \in Keys : SettleRound(caller, r, pl, seed, by)
             PROVE  TypeOK'
  BY DEF OperatorNext
<1>1. CASE OpenRound(caller, r, seed)
  <2>1. rounds' \in [RoundIds -> [seedCommit : Seeds \cup {NoSeed}, settled : BOOLEAN]]
    BY <1>1, RoundUpdates, Zenon DEF OpenRound, TypeOK, RoundRecord
  <2> QED BY <1>1, <2>1 DEF OpenRound, TypeOK, chainVars, roleVars, paramVars, creditVars
<1>2. CASE \E pl \in PlacementLists, by \in Keys : SettleRound(caller, r, pl, seed, by)
  BY <1>2, SettleType
<1> QED BY <1>1, <1>2

(* What the owner does keeps the types. *)
LEMMA OwnerType == TypeOK /\ OwnerNext => TypeOK'
<1> SUFFICES ASSUME TypeOK, NEW caller \in Keys,
                    \/ \E k \in Keys \cup {NoKey} : SetOperator(caller, k) \/ SetSigner(caller, k)
                    \/ \E amount \in EntryChoices : SetEntryAmount(caller, amount)
                    \/ \E table \in TierChoices : SetTiers(caller, table)
                    \/ \E c \in CapChoices : SetCaps(caller, c)
                    \/ Pause(caller) \/ Unpause(caller)
                    \/ \E heir \in HeirChoices : TransferOwnership(caller, heir)
                    \/ AcceptOwnership(caller)
                    \/ HeirChoices # {} /\ RenounceOwnership(caller)
                    \/ \E to \in Accounts : \E amount \in 0 .. FreePool : WithdrawPool(caller, to, amount)
             PROVE  TypeOK'
  BY DEF OwnerNext
<1> USE DEF TypeOK, chainVars, roleVars, paramVars, roundVars, creditVars
<1>1. ASSUME NEW k \in Keys \cup {NoKey}, SetOperator(caller, k) \/ SetSigner(caller, k) PROVE TypeOK'
  BY <1>1 DEF SetOperator, SetSigner, SetRoles, RolesOk
<1>2. ASSUME NEW amount \in EntryChoices, SetEntryAmount(caller, amount) PROVE TypeOK'
  BY <1>2 DEF SetEntryAmount
<1>3. ASSUME NEW table \in TierChoices, SetTiers(caller, table) PROVE TypeOK'
  BY <1>3 DEF SetTiers
<1>4. ASSUME NEW c \in CapChoices, SetCaps(caller, c) PROVE TypeOK'
  BY <1>4 DEF SetCaps
<1>5. ASSUME Pause(caller) \/ Unpause(caller) PROVE TypeOK'
  BY <1>5 DEF Pause, Unpause
<1>6. ASSUME NEW heir \in HeirChoices, TransferOwnership(caller, heir) PROVE TypeOK'
  BY <1>6 DEF TransferOwnership
<1>7. ASSUME AcceptOwnership(caller) \/ RenounceOwnership(caller) PROVE TypeOK'
  BY <1>7 DEF AcceptOwnership, RenounceOwnership
<1>8. ASSUME NEW to \in Accounts, NEW amount \in 0 .. FreePool, WithdrawPool(caller, to, amount)
      PROVE  TypeOK'
  <2>1. amount \in Nat
    BY FreePoolRange
  <2>2. usdc' \in [Accounts -> Nat]
    BY <1>8, <2>1, EscrowIsAnAccount, TransferMoves DEF WithdrawPool
  <2> QED BY <1>8, <2>2 DEF WithdrawPool
<1> QED BY <1>1, <1>2, <1>3, <1>4, <1>5, <1>6, <1>7, <1>8

(* What the chain and the token do keeps the types. *)
LEMMA WorldType == TypeOK /\ WorldNext => TypeOK'
<1> SUFFICES ASSUME TypeOK, WorldNext PROVE TypeOK'
  OBVIOUS
<1> USE DEF TypeOK, chainVars, roleVars, paramVars, roundVars, creditVars
<1>1. CASE Mine
  BY <1>1 DEF Mine
<1>2. ASSUME NEW p \in Players, Blocklist(p) PROVE TypeOK'
  BY <1>2 DEF Blocklist
<1>3. ASSUME NEW from \in Accounts \ {Escrow}, NEW amount \in 0 .. usdc[from], FundPool(from, amount)
      PROVE  TypeOK'
  <2>1. usdc' \in [Accounts -> Nat]
    BY <1>3, EscrowIsAnAccount, TransferMoves DEF FundPool
  <2> QED BY <1>3, <2>1 DEF FundPool
<1> QED BY <1>1, <1>2, <1>3 DEF WorldNext

(* No step, no change of type. *)
LEMMA StutterType == TypeOK /\ UNCHANGED vars => TypeOK'
BY DEF TypeOK, vars, chainVars, roleVars, paramVars, roundVars, creditVars

(* Every variable keeps its type, so no subtraction of the contract goes below  *)
(* zero: not in settleRound, withdraw or withdrawPool.                          *)
THEOREM TypeCorrect == Spec => []TypeOK
<1>1. TypeOK /\ [Next]_vars => TypeOK'
  BY PlayerType, OperatorType, OwnerType, WorldType, StutterType DEF Next
<1> QED BY InitType, <1>1, PTL DEF Spec

-----------------------------------------------------------------------------
(* Solvency. *)

LEMMA SolventStep == TypeOK /\ Solvent /\ [Next]_vars => Solvent'
<1> SUFFICES ASSUME TypeOK, Solvent, [Next]_vars PROVE Solvent'
  OBVIOUS
<1> USE EscrowIsAnAccount
<1>1. ASSUME NEW p \in Players, NEW r \in RoundIds, Seat(r, p) PROVE Solvent'
  <2>1. usdc'[Escrow] = usdc[Escrow] + entryAmount
    BY <1>1, TransferMoves DEF Seat, TypeOK
  <2> QED BY <1>1, <2>1 DEF Seat, Solvent, TypeOK, creditVars
<1>2. ASSUME NEW p \in Players, Withdraw(p) PROVE Solvent'
  <2>1. claimable[p] \in Nat
    BY DEF TypeOK
  <2>2. usdc'[Escrow] = usdc[Escrow] - claimable[p]
    BY <1>2, <2>1, TransferMoves DEF Withdraw, TypeOK
  <2> QED BY <1>2, <2>1, <2>2 DEF Withdraw, Solvent, TypeOK
<1>3. ASSUME NEW caller \in Keys, NEW r \in RoundIds, NEW pl \in PlacementLists,
             NEW seed \in Seeds, NEW by \in Keys, SettleRound(caller, r, pl, seed, by)
      PROVE  Solvent'
  BY <1>3 DEF SettleRound, Solvent, chainVars
<1>4. ASSUME NEW caller \in Keys, NEW to \in Accounts, NEW amount \in 0 .. FreePool,
             WithdrawPool(caller, to, amount)
      PROVE  Solvent'
  <2>1. amount \in Nat /\ totalClaimable + amount <= usdc[Escrow]
    BY FreePoolRange DEF Solvent, TypeOK
  <2>2. CanTransfer(Escrow, to, amount) /\ Transfer(Escrow, to, amount)
    BY <1>4 DEF WithdrawPool
  <2>3. usdc'[Escrow] \in {usdc[Escrow], usdc[Escrow] - amount}
    BY <2>1, <2>2, TransferMoves DEF TypeOK
  <2>4. totalClaimable' = totalClaimable /\ usdc[Escrow] \in Nat
    BY <1>4 DEF WithdrawPool, creditVars, TypeOK
  <2> QED BY <2>1, <2>3, <2>4 DEF Solvent, TypeOK
<1>5. ASSUME NEW from \in Accounts \ {Escrow}, NEW amount \in 0 .. usdc[from], FundPool(from, amount)
      PROVE  Solvent'
  <2>1. usdc'[Escrow] = usdc[Escrow] + amount /\ amount \in Nat
    BY <1>5, TransferMoves DEF FundPool, TypeOK
  <2> QED BY <1>5, <2>1 DEF FundPool, Solvent, TypeOK, creditVars
<1>6. ASSUME UNCHANGED <<usdc, totalClaimable>> PROVE Solvent'
  BY <1>6 DEF Solvent
<1>7. ASSUME NEW caller \in Keys, NEW r \in RoundIds, NEW seed \in Seeds, OpenRound(caller, r, seed)
      PROVE  Solvent'
  BY <1>6, <1>7 DEF OpenRound, chainVars, creditVars
<1>8. CASE PlayerNext
  BY <1>8, <1>1, <1>2 DEF PlayerNext, Enter, EnterWithPermit2
<1>9. CASE OperatorNext
  BY <1>9, <1>3, <1>7 DEF OperatorNext
<1>10. CASE OwnerNext
  BY <1>10, <1>4, <1>6 DEF OwnerNext, SetOperator, SetSigner, SetRoles, SetEntryAmount, SetTiers,
     SetCaps, Pause, Unpause, TransferOwnership, AcceptOwnership, RenounceOwnership, chainVars, creditVars
<1>11. CASE WorldNext
  BY <1>11, <1>5, <1>6 DEF WorldNext, Mine, Blocklist, creditVars
<1>12. CASE UNCHANGED vars
  BY <1>12, <1>6 DEF vars, chainVars, creditVars
<1> QED BY <1>8, <1>9, <1>10, <1>11, <1>12 DEF Next

(* ArenaEscrow.sol:31: the contract never owes more than it holds, whatever    *)
(* the owner takes out of the pool and whoever is paid first.                   *)
THEOREM Solvency == Spec => []Solvent
<1>1. Init => Solvent
  BY EscrowIsAnAccount DEF Init, Solvent
<1> QED BY TypeCorrect, SolventStep, <1>1, PTL DEF Spec

-----------------------------------------------------------------------------
(* The owner's parameters. *)

LEMMA ParamStep ==
    ASSUME [Next]_vars
    PROVE  \/ UNCHANGED <<tiers, caps>>
           \/ \E caller \in Keys, table \in TierChoices : SetTiers(caller, table)
           \/ \E caller \in Keys, c \in CapChoices : SetCaps(caller, c)
BY DEF Next, PlayerNext, OperatorNext, OwnerNext, WorldNext, Enter, EnterWithPermit2, Seat, Withdraw,
   OpenRound, SettleRound, SetOperator, SetSigner, SetRoles, SetEntryAmount, Pause, Unpause,
   TransferOwnership, AcceptOwnership, RenounceOwnership, WithdrawPool, Mine, Blocklist, FundPool,
   vars, paramVars

(* ArenaEscrow.sol:379: no order of setTiers and setCaps leaves a table whose    *)
(* payouts together pass the round cap.                                          *)
THEOREM TableAlwaysFits == Spec => []TableFitsCap
<1>1. Init => TableFitsCap
  BY DEF Init, TableOk, TableFitsCap
<1>2. TableFitsCap /\ [Next]_vars => TableFitsCap'
  BY ParamStep DEF SetTiers, SetCaps, TableOk, TiersFit, TableFitsCap
<1> QED BY <1>1, <1>2, PTL DEF Spec

(* A step leaves both roles or leaves them different. *)
LEMMA RoleStep ==
    ASSUME [Next]_vars
    PROVE  UNCHANGED <<operator, signer>> \/ operator' # signer'
BY DEF Next, PlayerNext, OperatorNext, OwnerNext, WorldNext, Enter, EnterWithPermit2, Seat, Withdraw,
   OpenRound, SettleRound, SetOperator, SetSigner, SetRoles, RolesOk, SetEntryAmount, SetTiers, SetCaps,
   Pause, Unpause, TransferOwnership, AcceptOwnership, RenounceOwnership, WithdrawPool, Mine,
   Blocklist, FundPool, vars, roleVars

(* ArenaEscrow.sol:25: whatever the owner rotates and whoever the owner becomes, *)
(* the operator and the signer stay two keys.                                    *)
THEOREM TwoKeysAlways == Spec => []TwoKeysSettle
<1>1. Init => TwoKeysSettle
  BY DEF Init, RolesOk, TwoKeysSettle
<1>2. TwoKeysSettle /\ [Next]_vars => TwoKeysSettle'
  BY RoleStep DEF TwoKeysSettle
<1> QED BY <1>1, <1>2, PTL DEF Spec

-----------------------------------------------------------------------------
(* Rounds. *)

(* The only steps that touch a round's record, seats or placements.              *)
LEMMA RoundStep ==
    ASSUME [Next]_vars
    PROVE  \/ UNCHANGED roundVars
           \/ \E p \in Players, r \in RoundIds : ~paused /\ Seat(r, p)
           \/ \E caller \in Keys, r \in RoundIds, seed \in Seeds : OpenRound(caller, r, seed)
           \/ \E caller \in Keys, r \in RoundIds, pl \in PlacementLists, seed \in Seeds, by \in Keys :
                  SettleRound(caller, r, pl, seed, by)
BY DEF Next, PlayerNext, OperatorNext, OwnerNext, WorldNext, Enter, EnterWithPermit2, Withdraw,
   SetOperator, SetSigner, SetRoles, SetEntryAmount, SetTiers, SetCaps, Pause, Unpause,
   TransferOwnership, AcceptOwnership, RenounceOwnership, WithdrawPool, Mine, Blocklist, FundPool, vars

(* Every step keeps the placed among the seated. *)
LEMMA PlacedStep == TypeOK /\ PlacedWereSeated /\ [Next]_vars => PlacedWereSeated'
<1> SUFFICES ASSUME TypeOK, PlacedWereSeated, [Next]_vars PROVE PlacedWereSeated'
  OBVIOUS
<1>1. CASE UNCHANGED roundVars
  BY <1>1 DEF roundVars, PlacedWereSeated, IsOpen
<1>2. ASSUME NEW p \in Players, NEW r \in RoundIds, Seat(r, p) PROVE PlacedWereSeated'
  BY <1>2 DEF Seat, Seatable, PlacedWereSeated, IsOpen, TypeOK
<1>3. ASSUME NEW caller \in Keys, NEW r \in RoundIds, NEW seed \in Seeds, OpenRound(caller, r, seed)
      PROVE  PlacedWereSeated'
  <2>1. \A q \in RoundIds : /\ rounds'[q].settled = rounds[q].settled
                            /\ IsOpen(q) => rounds'[q].seedCommit # NoSeed
    BY <1>3 DEF OpenRound, IsOpen, TypeOK
  <2> QED BY <1>3, <2>1 DEF OpenRound, PlacedWereSeated, IsOpen
<1>4. ASSUME NEW caller \in Keys, NEW r \in RoundIds, NEW pl \in PlacementLists,
             NEW seed \in Seeds, NEW by \in Keys, SettleRound(caller, r, pl, seed, by)
      PROVE  PlacedWereSeated'
  <2>1. \A q \in RoundIds : /\ rounds'[q].seedCommit = rounds[q].seedCommit
                            /\ rounds[q].settled => rounds'[q].settled
                            /\ rounds'[q].settled /\ q # r => rounds[q].settled
    <3>1. rounds' = [rounds EXCEPT ![r].settled = TRUE]
      BY <1>4 DEF SettleRound
    <3>2. \A q \in RoundIds \ {r} : rounds'[q] = rounds[q]
      BY <3>1 DEF TypeOK
    <3>3. rounds'[r] = [rounds[r] EXCEPT !.settled = TRUE]
      BY <3>1 DEF TypeOK
    <3>4. rounds'[r].seedCommit = rounds[r].seedCommit /\ rounds'[r].settled
      <4>1. rounds[r] \in RoundRecord
        BY DEF TypeOK, RoundRecord
      <4> QED BY <3>3, <4>1 DEF RoundRecord
    <3> QED BY <3>2, <3>4, Zenon
  <2>4. rounds'[r].settled
    BY <1>4, <2>1 DEF SettleRound, TypeOK
  <2>2. \A q \in RoundIds : placed'[q] = IF q = r THEN placed[q] \cup PlacedBy(pl) ELSE placed[q]
    BY <1>4 DEF SettleRound, TypeOK
  <2>3. entered' = entered /\ PlacedBy(pl) \subseteq entered[r] /\ IsOpen(r)
    BY <1>4 DEF SettleRound, AllSeated
  <2> QED BY <2>1, <2>2, <2>3, <2>4 DEF PlacedWereSeated, IsOpen
<1> QED BY <1>1, <1>2, <1>3, <1>4, RoundStep

(* settleRound never places, and so never pays, an address that did not enter    *)
(* the round (docs/phase3-escrow.md:63).                                         *)
THEOREM OnlySeatedArePlaced == Spec => []PlacedWereSeated
<1>1. Init => PlacedWereSeated
  BY DEF Init, PlacedWereSeated
<1> QED BY TypeCorrect, PlacedStep, <1>1, PTL DEF Spec

(* IArenaSettlement.sol:29: a commitment never changes, and a settled round       *)
(* never changes at all.                                                         *)
THEOREM RoundFinality == Spec => RoundsAreFinal
<1> DEFINE Final(r) ==
       /\ IsOpen(r) => rounds'[r].seedCommit = rounds[r].seedCommit
       /\ rounds[r].settled => /\ rounds'[r] = rounds[r]
                               /\ entered'[r] = entered[r]
                               /\ placed'[r] = placed[r]
<1>1. ASSUME TypeOK, PlacedWereSeated, [Next]_vars, NEW r \in RoundIds PROVE Final(r)
  <2>1. CASE UNCHANGED roundVars
    BY <2>1 DEF roundVars
  <2>2. ASSUME NEW p \in Players, NEW q \in RoundIds, Seat(q, p) PROVE Final(r)
    BY <1>1, <2>2 DEF Seat, Seatable, TypeOK
  <2>3. ASSUME NEW caller \in Keys, NEW q \in RoundIds, NEW seed \in Seeds, OpenRound(caller, q, seed)
        PROVE  Final(r)
    BY <1>1, <2>3 DEF OpenRound, IsOpen, TypeOK, PlacedWereSeated
  <2>4. ASSUME NEW caller \in Keys, NEW q \in RoundIds, NEW pl \in PlacementLists,
               NEW seed \in Seeds, NEW by \in Keys, SettleRound(caller, q, pl, seed, by)
        PROVE  Final(r)
    BY <1>1, <2>4 DEF SettleRound, TypeOK
  <2> QED BY <1>1, <2>1, <2>2, <2>3, <2>4, RoundStep
<1>2. TypeOK /\ PlacedWereSeated /\ [Next]_vars => [\A r \in RoundIds : Final(r)]_vars
  BY <1>1
<1> QED BY TypeCorrect, OnlySeatedArePlaced, <1>2, PTL DEF Spec, RoundsAreFinal

-----------------------------------------------------------------------------
(* Pause and windows. *)

LEMMA PausedStep ==
    ASSUME paused, [Next]_vars
    PROVE  UNCHANGED <<roundVars, creditVars>>
BY DEF Next, PlayerNext, OperatorNext, OwnerNext, WorldNext, Enter, EnterWithPermit2, Withdraw,
   OpenRound, SettleRound, SetOperator, SetSigner, SetRoles, SetEntryAmount, SetTiers, SetCaps,
   Pause, Unpause, TransferOwnership, AcceptOwnership, RenounceOwnership, WithdrawPool, Mine,
   Blocklist, FundPool, vars

(* ArenaEscrow.sol:32: the pause reaches every player path, and the pool that    *)
(* still moves under it leaves what players are owed.                            *)
THEOREM PauseFreezes == Spec => PauseFreezesPlayers
<1>1. TypeOK /\ Solvent /\ [Next]_vars
      => [paused => UNCHANGED <<roundVars, creditVars>> /\ usdc'[Escrow] >= totalClaimable]_vars
  <2> SUFFICES ASSUME TypeOK, Solvent, [Next]_vars, paused
               PROVE  UNCHANGED <<roundVars, creditVars>> /\ usdc'[Escrow] >= totalClaimable
    OBVIOUS
  <2>1. UNCHANGED <<roundVars, creditVars>>
    BY PausedStep
  <2>2. Solvent' /\ TypeOK'
    BY SolventStep, PlayerType, OperatorType, OwnerType, WorldType, StutterType DEF Next
  <2> QED BY <2>1, <2>2, EscrowIsAnAccount DEF creditVars, Solvent, TypeOK
<1> QED BY TypeCorrect, Solvency, <1>1, PTL DEF Spec, PauseFreezesPlayers

(* Windows change in settlements and caps in setCaps, and nothing else *)
(* changes either.                                                     *)
LEMMA WindowStep ==
    ASSUME [Next]_vars
    PROVE  \/ UNCHANGED <<windows, caps>>
           \/ windows' = windows /\ \E caller \in Keys, c \in CapChoices : SetCaps(caller, c)
           \/ caps' = caps /\ \E caller \in Keys, r \in RoundIds, pl \in PlacementLists,
                                seed \in Seeds, by \in Keys : SettleRound(caller, r, pl, seed, by)
BY DEF Next, PlayerNext, OperatorNext, OwnerNext, WorldNext, Enter, EnterWithPermit2, Seat, Withdraw,
   OpenRound, SettleRound, SetOperator, SetSigner, SetRoles, SetEntryAmount, SetTiers, SetCaps,
   Pause, Unpause, TransferOwnership, AcceptOwnership, RenounceOwnership, WithdrawPool, Mine,
   Blocklist, FundPool, vars, paramVars, creditVars

(* ArenaEscrow.sol:273: the cast of the window total to uint192 never truncates.  *)
THEOREM WindowsFit == Spec => []WindowFits
<1>1. Init => WindowFits
  BY DEF Init, CapsOk, WindowFits
<1>2. TypeOK /\ WindowFits /\ [Next]_vars => WindowFits'
  <2> SUFFICES ASSUME TypeOK, WindowFits, [Next]_vars PROVE WindowFits'
    OBVIOUS
  <2>1. CASE UNCHANGED <<windows, caps>>
    BY <2>1 DEF WindowFits
  <2>2. ASSUME windows' = windows, NEW caller \in Keys, NEW c \in CapChoices, SetCaps(caller, c)
        PROVE  WindowFits'
    BY <2>2 DEF SetCaps, CapsOk, WindowFits
  <2>3. ASSUME caps' = caps, NEW caller \in Keys, NEW r \in RoundIds, NEW pl \in PlacementLists,
               NEW seed \in Seeds, NEW by \in Keys, SettleRound(caller, r, pl, seed, by)
        PROVE  WindowFits'
    <3>1. ASSUME NEW p \in Players PROVE windows'[p].paid <= Uint192Max
      <4>1. CreditTo(pl, p) \in Nat
        BY <2>3 DEF SettleRound, WithinRoundCap, TypeOK
      <4>2. Charged(windows[p], CreditTo(pl, p)).paid <= Uint192Max
        BY <4>1, ChargedType DEF TypeOK
      <4>3. windows'[p] = IF CreditTo(pl, p) # 0 THEN Charged(windows[p], CreditTo(pl, p)) ELSE windows[p]
        BY <2>3 DEF SettleRound
      <4> QED BY <4>2, <4>3 DEF WindowFits
    <3> QED BY <2>3, <3>1 DEF WindowFits
  <2> QED BY <2>1, <2>2, <2>3, WindowStep
<1> QED BY TypeCorrect, <1>1, <1>2, PTL DEF Spec

(* Whatever the owner reconfigures and in whatever order, the table stays payable  *)
(* within the round cap, the window within its 192 bits, and the two keys two.     *)
THEOREM ParametersAlwaysFit == Spec => []ParametersFit
BY TableAlwaysFits, WindowsFit, TwoKeysAlways, PTL DEF ParametersFit

-----------------------------------------------------------------------------
(* Sums of credits. *)

(* A settlement has finitely many entries, each worth a natural number.           *)
LEMMA PrizesType ==
    ASSUME TypeOK, NEW pl \in PlacementLists
    PROVE  /\ IsFiniteSet(DOMAIN pl)
           /\ DOMAIN Prizes(pl) = DOMAIN pl
           /\ \A i \in DOMAIN pl : Prizes(pl)[i] = Prize(pl[i].place) /\ Prizes(pl)[i] \in Nat
<1>1. pl \in Seq([player : Players, place : Nat])
  OBVIOUS
<1>2. IsFiniteSet(DOMAIN pl)
  BY <1>1, FS_Interval
<1>3. \A n : Prize(n) \in Nat
  BY DEF Prize, TypeOK
<1> QED BY <1>2, <1>3 DEF Prizes

(* What a settlement credits, player by player, is what it adds to the total: no   *)
(* entry is left out and none counted for two.                                     *)
LEMMA CreditsAddUp ==
    ASSUME TypeOK, NEW pl \in PlacementLists
    PROVE  SumFunction([p \in Players |-> CreditTo(pl, p)]) = Total(pl)
<1> DEFINE f == Prizes(pl)
           k == [i \in DOMAIN pl |-> pl[i].player]
           D == DOMAIN pl
           g == [p \in Players |-> CreditTo(pl, p)]
<1>1. IsFiniteSet(D) /\ DOMAIN f = D /\ \A i \in D : f[i] \in Int
  BY PrizesType
<1>2. \A i \in D : k[i] \in Players
  <2> DEFINE R == [player : Players, place : Nat]
  <2>1. pl \in Seq(R)
    OBVIOUS
  <2> HIDE DEF R
  <2>2. DOMAIN pl = 1 .. Len(pl) /\ \A i \in 1 .. Len(pl) : pl[i] \in R
    BY <2>1
  <2> QED BY <2>2 DEF R
<1>3. \A p : {i \in D : k[i] = p} = {i \in DOMAIN pl : pl[i].player = p}
  OBVIOUS
<1>4. \A p \in Players : g[p] = Sum(f, {i \in D : k[i] = p})
  BY <1>3 DEF CreditTo
<1>5. Total(pl) = Sum(f, D)
  BY <1>1 DEF Total
<1>6. DOMAIN g = Players /\ IsFiniteSet(Players)
  OBVIOUS
<1> HIDE DEF f, k, D, g
<1>7. Sum(g, Players) = Sum(f, D)
  BY <1>1, <1>2, <1>4, <1>6, SumByOwner
<1> QED BY <1>5, <1>6, <1>7 DEF g

(* The only steps that touch a credit.                                            *)
LEMMA CreditStep ==
    ASSUME [Next]_vars
    PROVE  \/ UNCHANGED <<claimable, totalClaimable>>
           \/ \E p \in Players : Withdraw(p)
           \/ \E caller \in Keys, r \in RoundIds, pl \in PlacementLists, seed \in Seeds, by \in Keys :
                  SettleRound(caller, r, pl, seed, by)
BY DEF Next, PlayerNext, OperatorNext, OwnerNext, WorldNext, Enter, EnterWithPermit2, Seat, OpenRound,
   SetOperator, SetSigner, SetRoles, SetEntryAmount, SetTiers, SetCaps, Pause, Unpause,
   TransferOwnership, AcceptOwnership, RenounceOwnership, WithdrawPool, Mine, Blocklist, FundPool,
   vars, creditVars

(* Every step keeps the total the sum of what is claimable. *)
LEMMA TotalStep == TypeOK /\ TotalIsSum /\ [Next]_vars => TotalIsSum'
<1> SUFFICES ASSUME TypeOK, TotalIsSum, [Next]_vars PROVE TotalIsSum'
  OBVIOUS
<1>0. claimable \in [Players -> Nat] /\ totalClaimable = Sum(claimable, Players)
  BY DEF TypeOK, TotalIsSum
<1>1. CASE UNCHANGED <<claimable, totalClaimable>>
  BY <1>1 DEF TotalIsSum
<1>2. ASSUME NEW p \in Players, Withdraw(p) PROVE TotalIsSum'
  <2>1. claimable' = [claimable EXCEPT ![p] = 0] /\ totalClaimable' = totalClaimable - claimable[p]
    BY <1>2 DEF Withdraw
  <2>2. /\ \A q \in Players : claimable[q] \in Int /\ claimable'[q] \in Int
        /\ \A q \in Players \ {p} : claimable[q] = claimable'[q]
        /\ claimable'[p] = 0 /\ DOMAIN claimable' = Players
    BY <1>0, <2>1
  <2>3. Sum(claimable', Players) = Sum(claimable, Players) - claimable[p] + claimable'[p]
    BY <2>2, SumChange
  <2>4. Sum(claimable, Players) \in Int
    BY <2>2, SumType
  <2> QED BY <1>0, <2>1, <2>2, <2>3, <2>4 DEF TotalIsSum
<1>3. ASSUME NEW caller \in Keys, NEW r \in RoundIds, NEW pl \in PlacementLists,
             NEW seed \in Seeds, NEW by \in Keys, SettleRound(caller, r, pl, seed, by)
      PROVE  TotalIsSum'
  <2> DEFINE g == [p \in Players |-> CreditTo(pl, p)]
  <2>1. /\ claimable' = [p \in Players |-> claimable[p] + CreditTo(pl, p)]
        /\ totalClaimable' = totalClaimable + Total(pl)
        /\ \A p \in Players : CreditTo(pl, p) \in Int
    BY <1>3 DEF SettleRound, WithinRoundCap, TypeOK
  <2>2. DOMAIN g = Players /\ DOMAIN claimable' = Players
    BY <2>1
  <2>3. Sum(g, Players) = Total(pl)
    BY <2>2, CreditsAddUp
  <2>4. \A p \in Players : claimable[p] \in Int /\ g[p] \in Int /\ claimable'[p] = claimable[p] + g[p]
    BY <1>0, <2>1
  <2> HIDE DEF g
  <2>5. Sum(claimable', Players) = Sum(claimable, Players) + Sum(g, Players)
    BY <2>4, SumOfSums
  <2> QED BY <1>0, <2>1, <2>2, <2>3, <2>5 DEF TotalIsSum
<1> QED BY <1>1, <1>2, <1>3, CreditStep

(* The total the contract checks its balance against is the sum of what it owes,   *)
(* after any settlement and any withdrawal: with Solvency, everybody can be paid.   *)
THEOREM TotalAlwaysSums == Spec => []TotalIsSum
<1>1. Init => TotalIsSum
  <2> SUFFICES ASSUME Init PROVE TotalIsSum
    OBVIOUS
  <2>1. claimable = [p \in Players |-> 0] /\ totalClaimable = 0
    BY DEF Init
  <2>2. \A p \in Players : claimable[p] = 0
    BY <2>1
  <2>3. Sum(claimable, Players) = 0
    BY <2>2, SumOfNothing
  <2> QED BY <2>1, <2>3 DEF TotalIsSum
<1> QED BY TypeCorrect, TotalStep, <1>1, PTL DEF Spec

(* What one player gets from a settlement: nothing when it is not named, and the   *)
(* prize of its one entry when it is named once.                                   *)
LEMMA OneCredit ==
    ASSUME TypeOK, NEW pl \in PlacementLists, NEW p \in Players
    PROVE  /\ p \notin PlacedBy(pl) => CreditTo(pl, p) = 0
           /\ \A i \in DOMAIN pl :
                  /\ pl[i].player = p
                  /\ \A j \in DOMAIN pl : pl[j].player = p => j = i
                  => CreditTo(pl, p) = Prize(pl[i].place)
<1> DEFINE mine == {i \in DOMAIN pl : pl[i].player = p}
<1>1. CreditTo(pl, p) = Sum(Prizes(pl), mine)
  BY DEF CreditTo
<1>2. ASSUME p \notin PlacedBy(pl) PROVE CreditTo(pl, p) = 0
  <2>1. mine = {}
    BY <1>2 DEF PlacedBy
  <2> QED BY <1>1, <2>1, SumEmpty
<1>3. ASSUME NEW i \in DOMAIN pl, pl[i].player = p,
             \A j \in DOMAIN pl : pl[j].player = p => j = i
      PROVE  CreditTo(pl, p) = Prize(pl[i].place)
  <2>1. mine = {i}
    BY <1>3
  <2>2. Prizes(pl)[i] = Prize(pl[i].place) /\ Prizes(pl)[i] \in Int
    BY PrizesType
  <2> QED BY <1>1, <2>1, <2>2, SumOfOne
<1> QED BY <1>2, <1>3

(* A credit moves only when its player pulls all of it, or when an open round that  *)
(* seated the player settles and pays it one entry of the tier table.               *)
THEOREM BalancesMoveTwoWays == Spec => BalanceMoves
<1>1. ASSUME TypeOK, [Next]_vars, NEW p \in Players, claimable'[p] # claimable[p]
      PROVE  PulledBy(p) \/ WonBy(p)
  <2>1. ASSUME NEW q \in Players, Withdraw(q) PROVE PulledBy(p)
    <3>1. claimable' = [claimable EXCEPT ![q] = 0]
      BY <2>1 DEF Withdraw
    <3>2. p = q /\ claimable'[p] = 0
      BY <1>1, <3>1 DEF TypeOK
    <3>3. CanTransfer(Escrow, p, claimable[p]) /\ Transfer(Escrow, p, claimable[p])
      BY <2>1, <3>2 DEF Withdraw
    <3>4. claimable[p] \in Nat /\ usdc \in [Accounts -> Nat]
      BY <1>1 DEF TypeOK
    <3> QED BY <3>2, <3>3, <3>4, EscrowIsAnAccount, TransferMoves DEF PulledBy
  <2>2. ASSUME NEW caller \in Keys, NEW r \in RoundIds, NEW pl \in PlacementLists,
               NEW seed \in Seeds, NEW by \in Keys, SettleRound(caller, r, pl, seed, by)
        PROVE  WonBy(p)
    <3>1. claimable'[p] = claimable[p] + CreditTo(pl, p) /\ claimable[p] \in Nat
      BY <1>1, <2>2 DEF SettleRound, TypeOK
    <3>2. p \in PlacedBy(pl)
      BY <1>1, <3>1, OneCredit
    <3>3. PICK i \in DOMAIN pl : pl[i].player = p
      BY <3>2 DEF PlacedBy
    <3>4. \A j \in DOMAIN pl : pl[j].player = p => j = i
      BY <2>2, <3>3 DEF SettleRound, NamedOnce
    <3>5. CreditTo(pl, p) = Prize(pl[i].place)
      BY <1>1, <3>3, <3>4, OneCredit
    <3>6. Prize(pl[i].place) # 0
      BY <1>1, <3>1, <3>5
    <3>7. pl[i].place \in DOMAIN tiers /\ claimable'[p] = claimable[p] + tiers[pl[i].place]
      BY <3>1, <3>5, <3>6 DEF Prize
    <3>8. ~rounds[r].settled /\ rounds'[r].settled
      <4>1. ~rounds[r].settled /\ rounds' = [rounds EXCEPT ![r].settled = TRUE]
        BY <2>2 DEF SettleRound
      <4>2. rounds[r] \in RoundRecord /\ rounds'[r] = [rounds[r] EXCEPT !.settled = TRUE]
        BY <1>1, <4>1 DEF TypeOK, RoundRecord
      <4> QED BY <4>1, <4>2 DEF RoundRecord
    <3>9. p \in entered[r] \ placed[r] /\ p \in placed'[r]
      BY <1>1, <2>2, <3>2 DEF SettleRound, AllSeated, NamedOnce, TypeOK
    <3> QED BY <3>7, <3>8, <3>9 DEF WonBy
  <2>3. ~ UNCHANGED <<claimable, totalClaimable>>
    BY <1>1
  <2> QED BY <1>1, <2>1, <2>2, <2>3, CreditStep
<1>2. TypeOK /\ [Next]_vars
      => [\A p \in Players : claimable'[p] # claimable[p] => PulledBy(p) \/ WonBy(p)]_vars
  BY <1>1
<1> QED BY TypeCorrect, <1>2, PTL DEF Spec, BalanceMoves

-----------------------------------------------------------------------------
(* The refinement: every step of the contract is a step of RoundLedger or leaves  *)
(* it as it is.  TypeOK, Solvent and PlacedWereSeated are what the mapping needs    *)
(* to be right.                                                                  *)

InvL == TypeOK /\ Solvent /\ PlacedWereSeated

(* What the mapping needs holds always. *)
LEMMA InvLAlways == Spec => []InvL
BY TypeCorrect, Solvency, OnlySeatedArePlaced, PTL DEF InvL

(* The phases a step of the round's record leads to.                            *)
LEMMA PhaseOf ==
    ASSUME NEW r \in RoundIds
    PROVE  /\ Phase[r] = "open" <=> IsOpen(r) /\ ~rounds[r].settled
           /\ Phase[r] = "none" <=> ~IsOpen(r) /\ ~rounds[r].settled
           /\ Phase[r] = "settled" <=> rounds[r].settled
BY DEF Phase

(* A seat taken is an Enter of the ledger. *)
LEMMA SeatIsEnter ==
    ASSUME InvL, NEW r \in RoundIds, NEW p \in Players, Seat(r, p)
    PROVE  Ledger!Enter(r, p)
<1>1. usdc'[Escrow] = usdc[Escrow] + entryAmount
  BY EscrowIsAnAccount, TransferMoves DEF Seat, InvL, TypeOK
<1>2. usdc'[Escrow] \in Nat /\ usdc'[Escrow] >= usdc[Escrow]
  BY <1>1, EscrowIsAnAccount DEF InvL, TypeOK
<1>3. Phase[r] = "open" /\ p \notin entered[r]
  BY PhaseOf DEF Seat, Seatable
<1>4. UNCHANGED Phase
  BY DEF Seat, Phase, IsOpen
<1> QED BY <1>2, <1>3, <1>4 DEF Seat, creditVars, Ledger!Enter

(* openRound is an Open of the ledger. *)
LEMMA OpenIsOpen ==
    ASSUME InvL, NEW caller \in Keys, NEW r \in RoundIds, NEW seed \in Seeds,
           OpenRound(caller, r, seed)
    PROVE  Ledger!Open(r)
<1>1. Phase[r] = "none"
  BY PhaseOf DEF OpenRound, InvL, PlacedWereSeated
<1>2. /\ rounds' = [rounds EXCEPT ![r].seedCommit = seed] /\ ~IsOpen(r) /\ seed # NoSeed
      /\ ~rounds[r].settled
  BY <1>1, PhaseOf DEF OpenRound
<1>3. \A q \in RoundIds : /\ rounds'[q].settled = rounds[q].settled
                          /\ rounds'[q].seedCommit = IF q = r THEN seed ELSE rounds[q].seedCommit
  <2>1. \A q \in RoundIds \ {r} : rounds'[q] = rounds[q]
    BY <1>2 DEF InvL, TypeOK
  <2>2. rounds'[r] = [rounds[r] EXCEPT !.seedCommit = seed] /\ rounds[r] \in RoundRecord
    BY <1>2 DEF InvL, TypeOK, RoundRecord
  <2>3. rounds'[r].seedCommit = seed /\ rounds'[r].settled = rounds[r].settled
    BY <2>2 DEF RoundRecord
  <2> QED BY <2>1, <2>3, Zenon
<1>4. Phase' = [Phase EXCEPT ![r] = "open"]
  BY <1>2, <1>3 DEF Phase, IsOpen
<1> QED BY <1>1, <1>4 DEF OpenRound, chainVars, creditVars, Ledger!Open, Ledger!moneyVars

(* settleRound is a Settle of the ledger. *)
LEMMA SettleIsSettle ==
    ASSUME InvL, NEW caller \in Keys, NEW r \in RoundIds, NEW pl \in PlacementLists,
           NEW seed \in Seeds, NEW by \in Keys, SettleRound(caller, r, pl, seed, by)
    PROVE  Ledger!Settle(r)
<1>1. IsOpen(r) /\ ~rounds[r].settled /\ Phase[r] = "open"
  BY PhaseOf DEF SettleRound
<1>2. Phase' = [Phase EXCEPT ![r] = "settled"]
  <2>1. rounds' = [rounds EXCEPT ![r].settled = TRUE]
    BY DEF SettleRound
  <2>2. \A q \in RoundIds \ {r} : rounds'[q] = rounds[q]
    BY <2>1 DEF InvL, TypeOK
  <2>3. rounds'[r] = [rounds[r] EXCEPT !.settled = TRUE] /\ rounds[r] \in RoundRecord
    BY <2>1 DEF InvL, TypeOK, RoundRecord
  <2>4. rounds'[r].settled
    BY <2>3 DEF RoundRecord
  <2> QED BY <2>2, <2>4 DEF Phase, IsOpen
<1>3. placed' = [placed EXCEPT ![r] = PlacedBy(pl)] /\ PlacedBy(pl) \in SUBSET entered[r]
  <2>1. placed[r] = {}
    BY <1>1 DEF InvL, PlacedWereSeated
  <2> QED BY <2>1 DEF SettleRound, AllSeated, InvL, TypeOK
<1>4. \A p \in Players : CreditTo(pl, p) \in Nat
  BY DEF SettleRound, WithinRoundCap, InvL, TypeOK
<1>5. claimable' \in [Players -> Nat] /\ totalClaimable' \in totalClaimable .. usdc[Escrow]
  <2>1. Total(pl) \in Nat
    BY DEF SettleRound, WithinRoundCap, InvL, TypeOK
  <2>2. claimable' \in [Players -> Nat]
    <3>1. claimable' = [p \in Players |-> claimable[p] + CreditTo(pl, p)]
      BY DEF SettleRound
    <3>2. \A p \in Players : claimable[p] + CreditTo(pl, p) \in Nat
      BY <1>4 DEF InvL, TypeOK
    <3> QED BY <3>1, <3>2
  <2>3. totalClaimable' = totalClaimable + Total(pl) /\ totalClaimable' <= usdc[Escrow]
    BY DEF SettleRound
  <2>4. totalClaimable \in Nat /\ usdc[Escrow] \in Nat
    BY EscrowIsAnAccount DEF InvL, TypeOK
  <2> QED BY <2>1, <2>2, <2>3, <2>4
<1>6. ASSUME NEW p \in Players
      PROVE  IF p \in PlacedBy(pl) THEN claimable'[p] >= claimable[p] ELSE claimable'[p] = claimable[p]
  <2>1. claimable'[p] = claimable[p] + CreditTo(pl, p) /\ claimable[p] \in Nat
    BY DEF SettleRound, InvL, TypeOK
  <2>2. CASE p \in PlacedBy(pl)
    BY <1>4, <2>1, <2>2
  <2>3. CASE p \notin PlacedBy(pl)
    <3>1. CreditTo(pl, p) = 0
      BY <2>3, OneCredit DEF InvL
    <3> QED BY <2>1, <2>3, <3>1
  <2> QED BY <2>2, <2>3
<1>7. UNCHANGED <<entered, usdc[Escrow]>>
  BY DEF SettleRound, chainVars
<1> QED BY <1>1, <1>2, <1>3, <1>5, <1>6, <1>7 DEF Ledger!Settle

(* withdraw is a Pull of the ledger. *)
LEMMA WithdrawIsPull ==
    ASSUME InvL, NEW p \in Players, Withdraw(p)
    PROVE  Ledger!Pull(p)
<1>1. claimable[p] \in Nat /\ claimable[p] # 0
  BY DEF Withdraw, InvL, TypeOK
<1>2. usdc'[Escrow] = usdc[Escrow] - claimable[p]
  BY <1>1, EscrowIsAnAccount, TransferMoves DEF Withdraw, InvL, TypeOK
<1>3. UNCHANGED <<Phase, entered, placed>>
  BY DEF Withdraw, roundVars, Phase, IsOpen
<1> QED BY <1>1, <1>2, <1>3 DEF Withdraw, Ledger!Pull, Ledger!roundVars

(* What changes the pool alone is a Fund or a Skim of the ledger. *)
LEMMA PoolStep ==
    ASSUME InvL, InvL', UNCHANGED <<roundVars, claimable, totalClaimable>>
    PROVE  Ledger!Fund \/ Ledger!Skim
<1>1. UNCHANGED <<Phase, entered, placed>>
  BY DEF roundVars, Phase, IsOpen
<1>2. usdc[Escrow] \in Nat /\ usdc'[Escrow] \in Nat /\ totalClaimable \in Nat
  BY EscrowIsAnAccount DEF InvL, TypeOK
<1>3. totalClaimable <= usdc'[Escrow]
  BY DEF InvL, Solvent
<1> QED BY <1>1, <1>2, <1>3 DEF Ledger!Fund, Ledger!Skim, Ledger!roundVars

(* The contract keeps every promise of its interface, for every set of players    *)
(* and rounds: each step of it is one of RoundLedger or a stutter of it.           *)
THEOREM EscrowImplementsLedger == Spec => ImplementsLedger
<1>1. Init => Ledger!Init
  <2> SUFFICES ASSUME Init PROVE Ledger!Init
    OBVIOUS
  <2>1. Phase = [r \in RoundIds |-> "none"]
    BY DEF Init, Phase, IsOpen
  <2>2. usdc[Escrow] \in Nat
    BY EscrowIsAnAccount DEF Init
  <2> QED BY <2>1, <2>2 DEF Init, Ledger!Init
<1>2. InvL /\ InvL' /\ [Next]_vars => [Ledger!Next]_(Ledger!vars)
  <2> SUFFICES ASSUME InvL, InvL', [Next]_vars PROVE Ledger!Next \/ UNCHANGED Ledger!vars
    OBVIOUS
  <2>1. ASSUME NEW p \in Players, NEW r \in RoundIds, Seat(r, p) PROVE Ledger!Next
    BY <2>1, SeatIsEnter DEF Ledger!Next
  <2>2. ASSUME NEW p \in Players, Withdraw(p) PROVE Ledger!Next
    BY <2>2, WithdrawIsPull DEF Ledger!Next
  <2>3. ASSUME NEW caller \in Keys, NEW r \in RoundIds, NEW seed \in Seeds,
               OpenRound(caller, r, seed)
        PROVE  Ledger!Next
    BY <2>3, OpenIsOpen DEF Ledger!Next
  <2>4. ASSUME NEW caller \in Keys, NEW r \in RoundIds, NEW pl \in PlacementLists,
               NEW seed \in Seeds, NEW by \in Keys, SettleRound(caller, r, pl, seed, by)
        PROVE  Ledger!Next
    BY <2>4, SettleIsSettle DEF Ledger!Next
  <2>5. ASSUME UNCHANGED <<roundVars, claimable, totalClaimable>> PROVE Ledger!Next
    BY <2>5, PoolStep DEF Ledger!Next
  <2>6. CASE PlayerNext
    BY <2>6, <2>1, <2>2 DEF PlayerNext, Enter, EnterWithPermit2
  <2>7. CASE OperatorNext
    BY <2>7, <2>3, <2>4 DEF OperatorNext
  <2>8. CASE OwnerNext
    BY <2>8, <2>5 DEF OwnerNext, SetOperator, SetSigner, SetRoles, SetEntryAmount, SetTiers,
       SetCaps, Pause, Unpause, TransferOwnership, AcceptOwnership, RenounceOwnership,
       WithdrawPool, creditVars
  <2>9. CASE WorldNext
    BY <2>9, <2>5 DEF WorldNext, Mine, Blocklist, FundPool, creditVars
  <2>10. CASE UNCHANGED vars
    BY <2>10, <2>5 DEF vars, creditVars
  <2> QED BY <2>6, <2>7, <2>8, <2>9, <2>10 DEF Next
<1> QED BY <1>1, <1>2, InvLAlways, PTL DEF Spec, ImplementsLedger, Ledger!Spec
-----------------------------------------------------------------------------
(* The cap over spans of blocks, for every length of window: the credits a window has   *)
(* counted are the credits of its blocks, and a span that meets two windows holds at    *)
(* most what both allow.                                                            *)

USE MaxBlockAssumption

From(s) == {b \in Blocks : b >= s}
Between(from, to) == {b \in Blocks : from <= b /\ b < to}

(* What is true of one player's window w and credits c at block B under the caps k. *)
(* The last two parts are what an earlier window leaves behind: a span that reaches  *)
(* into the running window meets no window but the one before it.                    *)
Counts(w, c) == w.startBlock # 0 => w.paid = Sum(c, From(w.startBlock))
Running(w, c, B, k) ==
    /\ w.startBlock <= B /\ w.paid <= k.player
    /\ \A b \in Blocks : c[b] # 0 => b <= B /\ w.startBlock # 0 /\ b < w.startBlock + k.blocks
Before(w, c, k) ==
    \A from \in Blocks :
        from + k.blocks > w.startBlock => Sum(c, Between(from, w.startBlock)) <= k.player
Spans(c, k) == \A from \in Blocks : Sum(c, Between(from, from + k.blocks)) <= 2 * k.player
TrueRecord(w, c, B, k) == Counts(w, c) /\ Running(w, c, B, k) /\ Before(w, c, k) /\ Spans(c, k)

Windows == [startBlock : Nat, paid : Nat]
CapRecord == [round : Nat, player : Nat, blocks : Nat]

(* The sets of blocks that are summed over are finite. *)
LEMMA BlockSets ==
    /\ IsFiniteSet(Blocks) /\ Blocks \subseteq Nat \ {0}
    /\ \A s : IsFiniteSet(From(s)) /\ From(s) \subseteq Blocks
    /\ \A s, t : IsFiniteSet(Between(s, t)) /\ Between(s, t) \subseteq Blocks
<1>1. IsFiniteSet(Blocks)
  BY FS_Interval DEF Blocks
<1>2. \A s, t : From(s) \subseteq Blocks /\ Between(s, t) \subseteq Blocks
  BY DEF From, Between
<1> QED BY <1>1, <1>2, FS_Subset DEF Blocks

(* A span that reaches the running window holds what came before it and a part of   *)
(* what the window has counted.                                                     *)
LEMMA SpanSplits ==
    ASSUME NEW c \in [Blocks -> Nat], NEW s \in Nat, NEW from \in Blocks, NEW to \in Nat, s < to,
           NEW m \in Nat, Sum(c, Between(from, s)) <= m, Sum(c, From(s)) <= m
    PROVE  Sum(c, Between(from, to)) <= 2 * m
<1> DEFINE A == Between(from, s)
           C == Between(from, to) \ A
<1>1. IsFiniteSet(A) /\ A \subseteq Blocks /\ IsFiniteSet(From(s)) /\ From(s) \subseteq Blocks
  BY BlockSets
<1>2. C \subseteq From(s) /\ A \subseteq Between(from, to)
  BY DEF Between, From, Blocks
<1>3. IsFiniteSet(C) /\ C \subseteq Blocks
  BY <1>1, <1>2, FS_Subset
<1>4. A \cup C = Between(from, to) /\ A \cap C = {}
  BY <1>2
<1> HIDE DEF A, C
<1>5. \A b \in Blocks : c[b] \in Nat
  OBVIOUS
<1>6. Sum(c, A \cup C) = Sum(c, A) + Sum(c, C)
  BY <1>1, <1>3, <1>4, <1>5, SumOfParts
<1>7. Sum(c, C) <= Sum(c, From(s))
  BY <1>1, <1>2, <1>5, SumOfPart
<1>8. Sum(c, A) \in Nat /\ Sum(c, C) \in Nat /\ Sum(c, From(s)) \in Nat
  BY <1>1, <1>3, <1>5, SumType
<1>9. Sum(c, A) <= m
  BY DEF A
<1>10. Sum(c, Between(from, to)) = Sum(c, A) + Sum(c, C)
  BY <1>4, <1>6
<1>11. Sum(c, From(s)) <= m
  OBVIOUS
<1> QED BY <1>7, <1>8, <1>9, <1>10, <1>11

(* _chargeWindow keeps the record true, whether it goes on with the window or starts  *)
(* it again.                                                                        *)
LEMMA ChargeKeeps ==
    ASSUME NEW w \in Windows, NEW c \in [Blocks -> Nat], NEW k \in CapRecord, k = caps,
           block \in Blocks, k.player <= Uint192Max, k.blocks # 0,
           TrueRecord(w, c, block, k),
           NEW x \in Nat \ {0}, PaidWith(w, x) <= k.player
    PROVE  TrueRecord(Charged(w, x), [c EXCEPT ![block] = @ + x], block, k)
<1> DEFINE v == Charged(w, x)
           d == [c EXCEPT ![block] = @ + x]
           s == w.startBlock
           t == v.startBlock
           again == Fresh(w)
<1>1. /\ s \in Nat /\ w.paid \in Nat /\ k.player \in Nat /\ k.blocks \in Nat \ {0}
      /\ block \in Nat \ {0}
  BY BlockSets DEF Windows, CapRecord
<1>2. /\ d \in [Blocks -> Nat] /\ d[block] = c[block] + x
      /\ \A b \in Blocks \ {block} : d[b] = c[b]
      /\ \A b \in Blocks : c[b] \in Nat /\ d[b] \in Nat
  BY <1>1
<1>3. AsUint192(PaidWith(w, x)) = PaidWith(w, x)
  <2> DEFINE n == PaidWith(w, x)
  <2>1. n \in 0 .. Uint192Max /\ Uint192Max \in Nat
    BY <1>1 DEF PaidWith
  <2> HIDE DEF n
  <2>2. n % (Uint192Max + 1) = n
    BY <2>1
  <2> QED BY <2>2 DEF n, AsUint192
<1>4. /\ v.startBlock = (IF again THEN block ELSE s)
      /\ v.paid = PaidWith(w, x)
  BY <1>3 DEF Charged
<1>5. again <=> s = 0 \/ block >= s + k.blocks
  BY DEF Fresh
<1>6. v.paid = (IF again THEN x ELSE w.paid + x)
  BY <1>1, <1>4 DEF PaidWith
<1>7. /\ Counts(w, c) /\ Running(w, c, block, k) /\ Before(w, c, k) /\ Spans(c, k)
      /\ s <= block
      /\ \A b \in Blocks : c[b] # 0 => b <= block /\ s # 0 /\ b < s + k.blocks
  BY DEF TrueRecord, Running
<1> HIDE DEF again, v, d
<1>8. t \in Nat /\ t # 0 /\ t <= block /\ (again => t = block) /\ (~again => t = s)
  BY <1>1, <1>4, <1>5, <1>7
<1>9. Counts(v, d)
  <2>1. IsFiniteSet(From(t)) /\ From(t) \subseteq Blocks /\ block \in From(t)
    BY <1>1, <1>8, BlockSets DEF From
  <2>2. Sum(d, From(t)) = Sum(c, From(t)) - c[block] + d[block]
    <3> DEFINE S == From(t)
    <3>1. /\ IsFiniteSet(S) /\ block \in S
          /\ \A b \in S : c[b] \in Int /\ d[b] \in Int
          /\ \A b \in S \ {block} : c[b] = d[b]
      BY <1>2, <2>1
    <3> HIDE DEF S
    <3>2. Sum(d, S) = Sum(c, S) - c[block] + d[block]
      BY <3>1, SumChange
    <3> QED BY <3>2 DEF S
  <2>3. CASE again
    <3>1. \A b \in From(t) : c[b] = 0
      BY <1>1, <1>5, <1>7, <1>8, <2>3, BlockSets DEF From
    <3>2. Sum(c, From(t)) = 0
      BY <2>1, <3>1, SumOfNothing
    <3> QED BY <1>1, <1>2, <1>6, <2>1, <2>2, <2>3, <3>1, <3>2 DEF Counts
  <2>4. CASE ~again
    <3>1. w.paid = Sum(c, From(s)) /\ t = s
      BY <1>5, <1>7, <1>8, <2>4 DEF Counts
    <3> QED BY <1>1, <1>2, <1>6, <2>2, <2>4, <3>1 DEF Counts
  <2> QED BY <2>3, <2>4
<1>10. Running(v, d, block, k)
  <2>1. v.paid <= k.player
    BY <1>4
  <2>2. ASSUME NEW b \in Blocks, d[b] # 0 PROVE b <= block /\ t # 0 /\ b < t + k.blocks
    <3>1. b \in Nat
      BY BlockSets
    <3>2. CASE b = block
      BY <1>1, <1>5, <1>8, <3>2
    <3>3. CASE b # block
      BY <1>1, <1>2, <1>5, <1>7, <1>8, <2>2, <3>1, <3>3
    <3> QED BY <3>2, <3>3
  <2> QED BY <1>8, <2>1, <2>2 DEF Running
<1>11. Before(v, d, k)
  <2> SUFFICES ASSUME NEW from \in Blocks, from + k.blocks > t
               PROVE  Sum(d, Between(from, t)) <= k.player
    BY DEF Before
  <2>1. IsFiniteSet(Between(from, t)) /\ \A b \in Between(from, t) : b \in Blocks /\ b # block
    <3>1. \A b \in Between(from, t) : b \in Nat /\ b < t
      BY BlockSets DEF Between
    <3>2. \A b \in Between(from, t) : b # block
      BY <1>1, <1>8, <3>1
    <3> QED BY <3>2, BlockSets
  <2>2. Sum(d, Between(from, t)) = Sum(c, Between(from, t))
    <3> DEFINE S == Between(from, t)
    <3>1. IsFiniteSet(S) /\ \A b \in S : d[b] \in Int /\ d[b] = c[b]
      BY <1>2, <2>1
    <3> HIDE DEF S
    <3>2. Sum(d, S) = Sum(c, S)
      BY <3>1, SumSame
    <3> QED BY <3>2 DEF S
  <2>3. CASE ~again
    BY <1>7, <1>8, <2>2, <2>3 DEF Before
  <2>4. CASE again /\ s = 0
    <3>1. \A b \in Between(from, t) : c[b] = 0
      BY <1>7, <2>1, <2>4
    <3> QED BY <1>1, <2>1, <2>2, <3>1, SumOfNothing
  <2>5. CASE again /\ s # 0
    <3>1. Between(from, t) \subseteq From(s)
      <4>1. from \in Nat /\ from >= s
        BY <1>1, <1>5, <1>8, <2>5, BlockSets
      <4>2. \A b \in Between(from, t) : b \in Blocks /\ b \in Nat /\ b >= from
        BY BlockSets DEF Between
      <4> QED BY <1>1, <4>1, <4>2 DEF From
    <3>2. IsFiniteSet(From(s)) /\ \A b \in From(s) : c[b] \in Nat
      BY <1>2, BlockSets
    <3>3. Sum(c, Between(from, t)) <= Sum(c, From(s))
      BY <3>1, <3>2, SumOfPart
    <3>4. w.paid = Sum(c, From(s)) /\ w.paid <= k.player
      BY <1>7, <2>5 DEF Counts, Running
    <3>5. Sum(c, Between(from, t)) \in Nat
      BY <1>2, <2>1, SumType
    <3> QED BY <1>1, <2>2, <3>3, <3>4, <3>5
  <2> QED BY <2>3, <2>4, <2>5
<1>12. Spans(d, k)
  <2> SUFFICES ASSUME NEW from \in Blocks
               PROVE  Sum(d, Between(from, from + k.blocks)) <= 2 * k.player
    BY DEF Spans
  <2> DEFINE span == Between(from, from + k.blocks)
  <2>1. from \in Nat /\ IsFiniteSet(span) /\ span \subseteq Blocks
    BY BlockSets
  <2>2. CASE block \notin span
    <3> HIDE DEF span
    <3>1. \A b \in span : d[b] \in Int /\ d[b] = c[b]
      BY <1>2, <2>1, <2>2
    <3>2. IsFiniteSet(span)
      BY <2>1
    <3>3. Sum(d, span) = Sum(c, span)
      BY <3>1, <3>2, SumSame
    <3> QED BY <1>7, <3>3 DEF span, Spans
  <2>3. CASE block \in span
    <3>1. t < from + k.blocks /\ from + k.blocks \in Nat
      BY <1>1, <1>8, <2>1, <2>3 DEF Between
    <3>2. Sum(d, Between(from, t)) <= k.player
      BY <1>11, <3>1 DEF Before
    <3>3. Sum(d, From(t)) <= k.player
      BY <1>4, <1>8, <1>9 DEF Counts
    <3> QED BY <1>1, <1>2, <1>8, <3>1, <3>2, <3>3, SpanSplits
  <2> QED BY <2>2, <2>3
<1> QED BY <1>9, <1>10, <1>11, <1>12 DEF TrueRecord, v, d

-----------------------------------------------------------------------------
(* The record through a behaviour in which the owner leaves the caps alone. *)

HistInv ==
    /\ TypeOK /\ WindowFits
    /\ caps.blocks # 0
    /\ block \in Blocks
    /\ creditedAt \in [Players -> [Blocks -> Nat]]
    /\ \A p \in Players : TrueRecord(windows[p], creditedAt[p], block, caps)

(* The history only watches. *)
LEMMA HistoryIsEscrow == HSpec => Spec
<1>1. HInit => Init
  BY DEF HInit
<1>2. [HNext]_<<vars, creditedAt>> => [Next]_vars
  BY DEF HNext
<1> QED BY <1>1, <1>2, PTL DEF HSpec, Spec

(* Before the first settlement nothing is credited and every record is true. *)
LEMMA InitHist == HInit => caps.blocks # 0 /\ block \in Blocks
                    /\ creditedAt \in [Players -> [Blocks -> Nat]]
                    /\ \A p \in Players : TrueRecord(windows[p], creditedAt[p], block, caps)
<1> SUFFICES ASSUME HInit
             PROVE  /\ caps.blocks # 0 /\ block \in Blocks
                    /\ creditedAt \in [Players -> [Blocks -> Nat]]
                    /\ \A p \in Players : TrueRecord(windows[p], creditedAt[p], block, caps)
  OBVIOUS
<1>1. block = 1 /\ caps \in CapRecord /\ CapsOk(caps)
  BY DEF HInit, Init, CapRecord
<1>2. block \in Blocks /\ caps.blocks # 0 /\ caps.player \in Nat
  BY <1>1 DEF Blocks, CapsOk, CapRecord
<1>3. creditedAt = [p \in Players |-> [b \in Blocks |-> 0]]
  BY DEF HInit
<1>4. creditedAt \in [Players -> [Blocks -> Nat]]
  BY <1>3
<1>5. ASSUME NEW p \in Players PROVE TrueRecord(windows[p], creditedAt[p], block, caps)
  <2> DEFINE c == creditedAt[p]
             w == windows[p]
  <2>1. w.startBlock = 0 /\ w.paid = 0
    BY DEF HInit, Init
  <2>2. \A b \in Blocks : c[b] = 0
    BY <1>3
  <2> HIDE DEF c, w
  <2>3. \A from, to : Sum(c, Between(from, to)) = 0
    <3> SUFFICES ASSUME NEW from, NEW to PROVE Sum(c, Between(from, to)) = 0
      OBVIOUS
    <3>1. IsFiniteSet(Between(from, to)) /\ \A b \in Between(from, to) : c[b] = 0
      BY <2>2, BlockSets
    <3> QED BY <3>1, SumOfNothing
  <2>4. Counts(w, c) /\ Running(w, c, block, caps)
    BY <1>1, <1>2, <2>1, <2>2 DEF Counts, Running
  <2>5. Before(w, c, caps) /\ Spans(c, caps)
    BY <1>2, <2>3 DEF Before, Spans
  <2> QED BY <2>4, <2>5 DEF TrueRecord, c, w
<1> QED BY <1>2, <1>4, <1>5

(* The only steps that open a window or raise a balance are settlements.            *)
LEMMA GainStep ==
    ASSUME TypeOK, block \in Blocks, [Next]_vars
    PROVE  \/ /\ windows' = windows
              /\ \A p \in Players : claimable'[p] <= claimable[p]
              /\ block' \in Blocks /\ block <= block'
           \/ /\ block' = block
              /\ \E caller \in Keys, r \in RoundIds, pl \in PlacementLists, seed \in Seeds, by \in Keys :
                     SettleRound(caller, r, pl, seed, by)
<1>1. \/ UNCHANGED <<claimable, totalClaimable>> /\ windows' = windows
      \/ \E p \in Players : Withdraw(p)
      \/ \E caller \in Keys, r \in RoundIds, pl \in PlacementLists, seed \in Seeds, by \in Keys :
             SettleRound(caller, r, pl, seed, by)
  BY DEF Next, PlayerNext, OperatorNext, OwnerNext, WorldNext, Enter, EnterWithPermit2, Seat, OpenRound,
     SetOperator, SetSigner, SetRoles, SetEntryAmount, SetTiers, SetCaps, Pause, Unpause,
     TransferOwnership, AcceptOwnership, RenounceOwnership, WithdrawPool, Mine, Blocklist, FundPool,
     vars, creditVars
<1>2. block' = block \/ Mine
  BY DEF Next, PlayerNext, OperatorNext, OwnerNext, WorldNext, Enter, EnterWithPermit2, Seat, OpenRound,
     SettleRound, Withdraw, SetOperator, SetSigner, SetRoles, SetEntryAmount, SetTiers, SetCaps, Pause,
     Unpause, TransferOwnership, AcceptOwnership, RenounceOwnership, WithdrawPool, Blocklist,
     FundPool, vars, chainVars
<1>3. block' \in Blocks /\ block <= block'
  BY <1>2 DEF Mine, Blocks
<1>4. \A p \in Players : claimable[p] \in Nat
  BY DEF TypeOK
<1>5. ASSUME NEW p \in Players, Withdraw(p)
      PROVE  windows' = windows /\ \A q \in Players : claimable'[q] <= claimable[q]
  <2>1. windows' = windows /\ claimable' = [claimable EXCEPT ![p] = 0]
    BY <1>5 DEF Withdraw
  <2> QED BY <1>4, <2>1 DEF TypeOK
<1>6. ASSUME NEW caller \in Keys, NEW r \in RoundIds, NEW pl \in PlacementLists,
             NEW seed \in Seeds, NEW by \in Keys, SettleRound(caller, r, pl, seed, by)
      PROVE  block' = block
  BY <1>6 DEF SettleRound, chainVars
<1>7. CASE UNCHANGED <<claimable, totalClaimable>> /\ windows' = windows
  BY <1>3, <1>4, <1>7
<1> QED BY <1>1, <1>3, <1>5, <1>6, <1>7

(* Every step that leaves the caps keeps every record true. *)
LEMMA HistStep ==
    ASSUME HistInv, TypeOK', WindowFits', [HNext]_<<vars, creditedAt>>, caps' = caps
    PROVE  HistInv'
<1>1. /\ caps \in CapRecord /\ caps.player <= Uint192Max /\ caps.blocks # 0
      /\ block \in Blocks /\ block \in Nat
      /\ \A p \in Players : windows[p] \in Windows /\ claimable[p] \in Nat
      /\ \A p \in Players : creditedAt[p] \in [Blocks -> Nat]
      /\ \A p \in Players : TrueRecord(windows[p], creditedAt[p], block, caps)
  BY BlockSets DEF HistInv, TypeOK, WindowFits, CapRecord, Windows
<1>2. ASSUME creditedAt' = creditedAt, windows' = windows, block' \in Blocks, block <= block'
      PROVE  HistInv'
  <2>1. ASSUME NEW p \in Players PROVE TrueRecord(windows'[p], creditedAt'[p], block', caps')
    <3> DEFINE w == windows[p]
               c == creditedAt[p]
    <3>1. TrueRecord(w, c, block, caps) /\ w \in Windows
      BY <1>1
    <3>2. block' \in Nat /\ \A b \in Blocks : b \in Nat
      BY <1>2, BlockSets
    <3> HIDE DEF w, c
    <3>3. Running(w, c, block', caps)
      BY <1>1, <1>2, <3>1, <3>2 DEF TrueRecord, Running, Windows
    <3>4. TrueRecord(w, c, block', caps)
      BY <3>1, <3>3 DEF TrueRecord
    <3> QED BY <1>2, <3>4 DEF w, c
  <2> QED BY <1>1, <1>2, <2>1 DEF HistInv
<1>3. CASE UNCHANGED <<vars, creditedAt>>
  BY <1>1, <1>2, <1>3 DEF vars, chainVars, creditVars
<1>4. CASE HNext
  <2>1. /\ [Next]_vars /\ TypeOK
        /\ \A p \in Players : creditedAt'[p] = [creditedAt[p] EXCEPT ![block] = @ + Gain(p)]
        /\ creditedAt' = [p \in Players |-> creditedAt'[p]]
    BY <1>4 DEF HNext, HistInv
  <2>2. CASE /\ windows' = windows
             /\ \A p \in Players : claimable'[p] <= claimable[p]
             /\ block' \in Blocks /\ block <= block'
    <3>1. ASSUME NEW p \in Players PROVE creditedAt'[p] = creditedAt[p]
      <4>1. claimable'[p] \in Nat /\ claimable[p] \in Nat /\ claimable'[p] <= claimable[p]
        BY <1>1, <2>2 DEF TypeOK
      <4>2. Gain(p) = 0
        BY <4>1 DEF Gain
      <4> DEFINE c == creditedAt[p]
      <4>3. c \in [Blocks -> Nat] /\ creditedAt'[p] = [c EXCEPT ![block] = @ + 0]
        BY <1>1, <2>1, <4>2
      <4> HIDE DEF c
      <4>4. [c EXCEPT ![block] = @ + 0] = c
        BY <4>3
      <4> QED BY <4>3, <4>4 DEF c
    <3>2. creditedAt = [p \in Players |-> creditedAt[p]]
      BY DEF HistInv
    <3>3. creditedAt' = creditedAt
      BY <2>1, <3>1, <3>2
    <3> QED BY <1>2, <2>2, <3>3
  <2>3. ASSUME NEW caller \in Keys, NEW r \in RoundIds, NEW pl \in PlacementLists,
               NEW seed \in Seeds, NEW by \in Keys, SettleRound(caller, r, pl, seed, by),
               block' = block
        PROVE  HistInv'
    <3>1. ASSUME NEW p \in Players
          PROVE  /\ creditedAt'[p] \in [Blocks -> Nat]
                 /\ TrueRecord(windows'[p], creditedAt'[p], block, caps)
      <4> DEFINE x == CreditTo(pl, p)
                 w == windows[p]
                 c == creditedAt[p]
      <4>1. /\ claimable'[p] = claimable[p] + x /\ x \in Nat
            /\ windows'[p] = IF x # 0 THEN Charged(w, x) ELSE w
            /\ x # 0 => PaidWith(w, x) <= caps.player
        BY <1>1, <2>1, <2>3 DEF SettleRound, WithinRoundCap, WithinWindowCap, TypeOK
      <4>2. Gain(p) = x
        BY <1>1, <4>1 DEF Gain
      <4>3. creditedAt'[p] = [c EXCEPT ![block] = @ + x]
        BY <2>1, <4>2
      <4>4. w \in Windows /\ c \in [Blocks -> Nat] /\ TrueRecord(w, c, block, caps)
        BY <1>1
      <4> HIDE DEF x, w, c
      <4>5. creditedAt'[p] \in [Blocks -> Nat]
        BY <1>1, <4>1, <4>3, <4>4
      <4>6. CASE x = 0
        <5>1. [c EXCEPT ![block] = @ + x] = c
          BY <4>4, <4>6
        <5> QED BY <4>1, <4>3, <4>4, <4>5, <4>6, <5>1
      <4>7. CASE x # 0
        <5>1. TrueRecord(Charged(w, x), [c EXCEPT ![block] = @ + x], block, caps)
          BY <1>1, <4>1, <4>4, <4>7, ChargeKeeps
        <5> QED BY <4>1, <4>3, <4>5, <4>7, <5>1
      <4> QED BY <4>6, <4>7
    <3>2. creditedAt' \in [Players -> [Blocks -> Nat]]
      BY <2>1, <3>1
    <3> QED BY <1>1, <2>3, <3>1, <3>2 DEF HistInv
  <2> QED BY <1>1, <2>1, <2>2, <2>3, GainStep
<1> QED BY <1>3, <1>4

(* While the owner leaves the caps alone, what _chargeWindow has counted is what was   *)
(* credited since its window started, and no span of as many blocks credits a player   *)
(* more than two windows allow: twice the cap, not the cap.                            *)
THEOREM WindowsBoundCredits ==
    HSpec /\ [][UNCHANGED caps]_<<vars, creditedAt>> => []CapBoundsCredits
<1>1. HSpec => [](TypeOK /\ WindowFits)
  BY HistoryIsEscrow, TypeCorrect, WindowsFit, PTL
<1>2. HInit /\ TypeOK /\ WindowFits => HistInv
  BY InitHist DEF HistInv
<1>3. /\ HistInv /\ TypeOK' /\ WindowFits' /\ [HNext]_<<vars, creditedAt>>
      /\ [UNCHANGED caps]_<<vars, creditedAt>>
      => HistInv'
  <2>1. [UNCHANGED caps]_<<vars, creditedAt>> => caps' = caps
    BY DEF vars, paramVars
  <2> QED BY <2>1, HistStep
<1>4. HistInv => CapBoundsCredits
  <2> SUFFICES ASSUME HistInv, NEW p \in Players
               PROVE  /\ Counts(windows[p], creditedAt[p])
                      /\ \A from \in Blocks : CreditedIn(p, Span(from)) <= 2 * caps.player
    BY DEF CapBoundsCredits, WindowCountsCredits, TwoWindowsPerSpan, Counts, CreditedIn, From
  <2>1. TrueRecord(windows[p], creditedAt[p], block, caps)
    BY DEF HistInv
  <2>2. \A from \in Blocks : Span(from) = Between(from, from + caps.blocks)
    BY DEF Span, Between
  <2> QED BY <2>1, <2>2 DEF TrueRecord, Spans, CreditedIn
<1> QED BY <1>1, <1>2, <1>3, <1>4, PTL DEF HSpec
=============================================================================
