----------------------------- MODULE ArenaEscrow -----------------------------
(***************************************************************************)
(* contracts/src/ArenaEscrow.sol: the house-backed escrow that takes the    *)
(* stakes of a round, credits the placements the signer signed, and lets    *)
(* every player pull its own credit.  One action is one transaction: it     *)
(* takes effect as a whole or, when a guard fails, reverts and is a         *)
(* stutter.  USDC (an ERC-20 with a blocklist), Permit2 and OpenZeppelin's  *)
(* Ownable2Step and Pausable are outside the repository; they are modelled  *)
(* from how the contract uses them.                                         *)
(*                                                                         *)
(* A seed stands for its own commitment (keccak256 is taken to be           *)
(* injective) and a signature for the pair of the key it recovers to and    *)
(* the settlement it was made over, of which only the key is kept: a        *)
(* signature over other placements recovers to some other key.              *)
(***************************************************************************)
EXTENDS Integers, Sequences, FiniteSets, FiniteSetsExt

CONSTANTS
    Players,        \* addresses that enter rounds
    Keys,           \* addresses that may hold a role
    Escrow, House,  \* the contract's own address and the treasury's
    RoundIds, Seeds,
    NoSeed, NoKey,  \* the zero bytes32 and the zero address
    Purse,          \* USDC each address starts with
    EntryChoices,   \* arguments the owner may pass to setEntryAmount,
    TierChoices,    \* setTiers (sequences of payouts),
    CapChoices,     \* setCaps ([round, player, blocks] records),
    HeirChoices,    \* and transferOwnership
    PlacementLists, \* settlements the signer may sign
    MaxTiers, MaxPlacements,  \* MAX_TIERS and MAX_PLACEMENTS
    Uint192Max,     \* type(uint192).max, the width of Window.paid
    MaxBlock        \* bound of a run on block.number

Accounts == Players \cup {Escrow, House}

ASSUME AddressAssumption ==
    /\ IsFiniteSet(Players)
    /\ Escrow \notin Players /\ House \notin Players /\ Escrow # House
    /\ NoKey \notin Keys
    /\ NoSeed \notin Seeds

ASSUME ChoiceAssumption ==
    /\ Purse \in [Accounts -> Nat]
    /\ EntryChoices \subseteq Nat
    /\ TierChoices \subseteq Seq(Nat)
    /\ CapChoices \subseteq [round : Nat, player : Nat, blocks : Nat]
    /\ HeirChoices \subseteq Keys \cup {NoKey}
    /\ PlacementLists \subseteq Seq([player : Players, place : Nat])
    /\ MaxTiers \in Nat /\ MaxPlacements \in Nat
    /\ Uint192Max \in Nat

VARIABLES
    block,      \* block.number
    usdc,       \* USDC balances
    blocked,    \* addresses on the USDC blocklist
    paused,
    owner, pendingOwner, operator, signer,
    entryAmount, tiers, caps,
    rounds,     \* per round: seedCommit and settled
    entered,    \* per round: the players seated
    placed,     \* per round: the players listed by its settlement
    claimable, totalClaimable,
    windows     \* per player: startBlock and paid

chainVars == <<block, usdc, blocked>>
roleVars == <<owner, pendingOwner, operator, signer>>
paramVars == <<entryAmount, tiers, caps>>
roundVars == <<rounds, entered, placed>>
creditVars == <<claimable, totalClaimable, windows>>
vars == <<chainVars, paused, roleVars, paramVars, roundVars, creditVars>>

-----------------------------------------------------------------------------
(* USDC and the chain. *)

CanTransfer(from, to, amount) ==
    /\ usdc[from] >= amount
    /\ from \notin blocked
    /\ to \notin blocked

Transfer(from, to, amount) ==
    usdc' = [[usdc EXCEPT ![from] = @ - amount] EXCEPT ![to] = @ + amount]

Mine ==
    /\ block < MaxBlock
    /\ block' = block + 1
    /\ UNCHANGED <<usdc, blocked, paused, roleVars, paramVars, roundVars, creditVars>>

(* Circle puts a player on the blocklist, or takes it off. *)
Blocklist(p) ==
    /\ blocked' = IF p \in blocked THEN blocked \ {p} ELSE blocked \cup {p}
    /\ UNCHANGED <<block, usdc, paused, roleVars, paramVars, roundVars, creditVars>>

-----------------------------------------------------------------------------
(* The owner's parameters. *)

TierSum(table) == SumFunction(table)

(* _checkTiersAgainstCap: the whole table paid at once must fit the cap. *)
TiersFit(table, roundCap) == TierSum(table) <= roundCap

TableOk(table, roundCap) ==
    /\ Len(table) \in 1 .. MaxTiers
    /\ \A i \in DOMAIN table : table[i] # 0
    /\ TiersFit(table, roundCap)

(* Plausible slips, used to show that the properties notice: no zero check,   *)
(* no table check.                                                            *)
RolesOkZero(own, op, sig) == own # op /\ own # sig /\ op # sig
SetCapsUnchecked(caller, c) ==
    /\ caller = owner
    /\ c.round # 0 /\ c.player # 0 /\ c.blocks # 0 /\ c.player <= Uint192Max
    /\ caps' = c
    /\ UNCHANGED <<entryAmount, tiers, chainVars, paused, roleVars, roundVars, creditVars>>

CapsOk(c) ==
    /\ c.round # 0 /\ c.player # 0 /\ c.blocks # 0
    /\ c.player <= Uint192Max

RolesOk(own, op, sig) ==
    /\ NoKey \notin {own, op, sig}
    /\ own # op /\ own # sig /\ op # sig

SetRoles(caller, op, sig) ==
    /\ caller = owner
    /\ RolesOk(owner, op, sig)
    /\ operator' = op
    /\ signer' = sig
    /\ UNCHANGED <<owner, pendingOwner, chainVars, paused, paramVars, roundVars, creditVars>>

SetOperator(caller, op) == SetRoles(caller, op, signer)
SetSigner(caller, sig) == SetRoles(caller, operator, sig)

SetEntryAmount(caller, amount) ==
    /\ caller = owner
    /\ amount # 0
    /\ entryAmount' = amount
    /\ UNCHANGED <<tiers, caps, chainVars, paused, roleVars, roundVars, creditVars>>

SetTiers(caller, table) ==
    /\ caller = owner
    /\ TableOk(table, caps.round)
    /\ tiers' = table
    /\ UNCHANGED <<entryAmount, caps, chainVars, paused, roleVars, roundVars, creditVars>>

SetCaps(caller, c) ==
    /\ caller = owner
    /\ CapsOk(c)
    /\ TiersFit(tiers, c.round)
    /\ caps' = c
    /\ UNCHANGED <<entryAmount, tiers, chainVars, paused, roleVars, roundVars, creditVars>>

Pause(caller) ==
    /\ caller = owner
    /\ ~paused
    /\ paused' = TRUE
    /\ UNCHANGED <<chainVars, roleVars, paramVars, roundVars, creditVars>>

Unpause(caller) ==
    /\ caller = owner
    /\ paused
    /\ paused' = FALSE
    /\ UNCHANGED <<chainVars, roleVars, paramVars, roundVars, creditVars>>

(* Ownable2Step: the heir has to accept, and nothing compares it with the   *)
(* operator and the signer.                                                 *)
TransferOwnership(caller, heir) ==
    /\ caller = owner
    /\ pendingOwner' = heir
    /\ UNCHANGED <<owner, operator, signer, chainVars, paused, paramVars, roundVars, creditVars>>

AcceptOwnership(caller) ==
    /\ caller = pendingOwner
    /\ owner' = caller
    /\ pendingOwner' = NoKey
    /\ UNCHANGED <<operator, signer, chainVars, paused, paramVars, roundVars, creditVars>>

RenounceOwnership(caller) ==
    /\ caller = owner
    /\ owner' = NoKey
    /\ pendingOwner' = NoKey
    /\ UNCHANGED <<operator, signer, chainVars, paused, paramVars, roundVars, creditVars>>

-----------------------------------------------------------------------------
(* The pool. *)

(* Slip: the balance, without what is owed. *)
FreePoolGross == usdc[Escrow]

FreePool == IF usdc[Escrow] > totalClaimable THEN usdc[Escrow] - totalClaimable ELSE 0

FundPool(from, amount) ==
    /\ CanTransfer(from, Escrow, amount)
    /\ Transfer(from, Escrow, amount)
    /\ UNCHANGED <<block, blocked, paused, roleVars, paramVars, roundVars, creditVars>>

WithdrawPool(caller, to, amount) ==
    /\ caller = owner
    /\ amount <= FreePool
    /\ CanTransfer(Escrow, to, amount)
    /\ Transfer(Escrow, to, amount)
    /\ UNCHANGED <<block, blocked, paused, roleVars, paramVars, roundVars, creditVars>>

-----------------------------------------------------------------------------
(* Rounds. *)

IsOpen(r) == rounds[r].seedCommit # NoSeed

OpenRound(caller, r, seed) ==
    /\ caller = operator
    /\ ~paused
    /\ ~IsOpen(r)
    /\ rounds' = [rounds EXCEPT ![r].seedCommit = seed]
    /\ UNCHANGED <<entered, placed, chainVars, paused, roleVars, paramVars, creditVars>>

(* _seat, then the stake is pulled: from the allowance by enter, from a     *)
(* signed permit by enterWithPermit2.                                       *)
SeatableAfterSettlement(r, p) == IsOpen(r) /\ p \notin entered[r]  \* slip
Seatable(r, p) ==
    /\ IsOpen(r)
    /\ ~rounds[r].settled
    /\ p \notin entered[r]

Seat(r, p) ==
    /\ Seatable(r, p)
    /\ entered' = [entered EXCEPT ![r] = @ \cup {p}]
    /\ CanTransfer(p, Escrow, entryAmount)
    /\ Transfer(p, Escrow, entryAmount)
    /\ UNCHANGED <<block, blocked, paused, roleVars, paramVars, rounds, placed, creditVars>>

Enter(r, p) == ~paused /\ Seat(r, p)

EnterWhilePaused(r, p) == Seat(r, p)  \* slip
EnterWithPermit2(r, p) == ~paused /\ Seat(r, p)

Prize(place) == IF place \in DOMAIN tiers THEN tiers[place] ELSE 0

(* What the settlement loop has added up, in all and for one player. *)
TotalLastOnly(pl) == IF pl = <<>> THEN 0 ELSE Prize(pl[Len(pl)].place)  \* slip
Prizes(pl) == [i \in DOMAIN pl |-> Prize(pl[i].place)]
Total(pl) == SumFunction(Prizes(pl))
CreditTo(pl, p) == SumFunctionOnSet(Prizes(pl), {i \in DOMAIN pl : pl[i].player = p})

PlacedBy(pl) == {pl[i].player : i \in DOMAIN pl}

SeatedAnywhere(pl, r) == PlacedBy(pl) \subseteq UNION {entered[q] : q \in RoundIds}  \* slip
AllSeated(pl, r) == PlacedBy(pl) \subseteq entered[r]

NamedBefore(pl, r) == PlacedBy(pl) \cap placed[r] = {}  \* slip
NamedOnce(pl, r) ==
    /\ \A i, j \in DOMAIN pl : pl[i].player = pl[j].player => i = j
    /\ PlacedBy(pl) \cap placed[r] = {}

WithinRoundCap(pl) ==
    /\ Total(pl) \in 0 .. caps.round
    /\ \A p \in Players : CreditTo(pl, p) \in 0 .. caps.round

(* _chargeWindow: a window that is unset or over starts again at this block. *)
Fresh(w) == w.startBlock = 0 \/ block >= w.startBlock + caps.blocks
PaidWith(w, amount) == (IF Fresh(w) THEN 0 ELSE w.paid) + amount
AsUint192(n) == n % (Uint192Max + 1)

ChargedStaleStart(w, amount) ==  \* slip: the window is emptied, its start is not moved
    [startBlock |-> IF w.startBlock = 0 THEN block ELSE w.startBlock,
     paid       |-> AsUint192(PaidWith(w, amount))]
Charged(w, amount) ==
    [startBlock |-> IF Fresh(w) THEN block ELSE w.startBlock,
     paid       |-> AsUint192(PaidWith(w, amount))]

WithinWindowCap(pl) ==
    \A p \in Players :
        CreditTo(pl, p) # 0 => PaidWith(windows[p], CreditTo(pl, p)) <= caps.player

(* `by` is the key the signature recovers to. *)
SettleRound(caller, r, pl, seed, by) ==
    /\ caller = operator
    /\ ~paused
    /\ IsOpen(r)
    /\ ~rounds[r].settled
    /\ Len(pl) <= MaxPlacements
    /\ seed = rounds[r].seedCommit
    /\ by = signer
    /\ \A i \in DOMAIN pl : pl[i].place # 0
    /\ AllSeated(pl, r)
    /\ NamedOnce(pl, r)
    /\ WithinRoundCap(pl)
    /\ WithinWindowCap(pl)
    /\ totalClaimable + Total(pl) <= usdc[Escrow]
    /\ placed' = [placed EXCEPT ![r] = @ \cup PlacedBy(pl)]
    /\ windows' = [p \in Players |->
          IF CreditTo(pl, p) # 0 THEN Charged(windows[p], CreditTo(pl, p)) ELSE windows[p]]
    /\ claimable' = [p \in Players |-> claimable[p] + CreditTo(pl, p)]
    /\ totalClaimable' = totalClaimable + Total(pl)
    /\ rounds' = [rounds EXCEPT ![r].settled = TRUE]
    /\ UNCHANGED <<entered, chainVars, paused, roleVars, paramVars>>

(* The subtraction from totalClaimable is checked arithmetic. *)
Withdraw(p) ==
    /\ ~paused
    /\ claimable[p] # 0
    /\ claimable[p] <= totalClaimable
    /\ CanTransfer(Escrow, p, claimable[p])
    /\ claimable' = [claimable EXCEPT ![p] = 0]
    /\ totalClaimable' = totalClaimable - claimable[p]
    /\ Transfer(Escrow, p, claimable[p])
    /\ UNCHANGED <<windows, block, blocked, paused, roleVars, paramVars, roundVars>>

-----------------------------------------------------------------------------
(* The constructor runs _setRoles, _setEntryAmount, _setCaps and _setTiers. *)

Init ==
    /\ block = 1
    /\ usdc = Purse
    /\ blocked = {}
    /\ paused = FALSE
    /\ owner \in Keys /\ operator \in Keys /\ signer \in Keys
    /\ RolesOk(owner, operator, signer)
    /\ pendingOwner = NoKey
    /\ entryAmount \in EntryChoices \ {0}
    /\ caps \in {c \in CapChoices : CapsOk(c)}
    /\ tiers \in {t \in TierChoices : TableOk(t, caps.round)}
    /\ rounds = [r \in RoundIds |-> [seedCommit |-> NoSeed, settled |-> FALSE]]
    /\ entered = [r \in RoundIds |-> {}]
    /\ placed = [r \in RoundIds |-> {}]
    /\ claimable = [p \in Players |-> 0]
    /\ totalClaimable = 0
    /\ windows = [p \in Players |-> [startBlock |-> 0, paid |-> 0]]

PlayerNext ==
    \E p \in Players :
        \/ \E r \in RoundIds : Enter(r, p) \/ EnterWithPermit2(r, p)
        \/ Withdraw(p)

OperatorNext ==
    \E caller \in Keys, r \in RoundIds, seed \in Seeds :
        \/ OpenRound(caller, r, seed)
        \/ \E pl \in PlacementLists, by \in Keys : SettleRound(caller, r, pl, seed, by)

OwnerNext ==
    \E caller \in Keys :
        \/ \E k \in Keys \cup {NoKey} : SetOperator(caller, k) \/ SetSigner(caller, k)
        \/ \E amount \in EntryChoices : SetEntryAmount(caller, amount)
        \/ \E table \in TierChoices : SetTiers(caller, table)
        \/ \E c \in CapChoices : SetCaps(caller, c)
        \/ Pause(caller) \/ Unpause(caller)
        \/ \E heir \in HeirChoices : TransferOwnership(caller, heir)
        \/ AcceptOwnership(caller)
        \/ HeirChoices # {} /\ RenounceOwnership(caller)
        \/ \E to \in Accounts : \E amount \in 0 .. FreePool : WithdrawPool(caller, to, amount)

WorldNext ==
    \/ Mine
    \/ \E p \in Players : Blocklist(p)
    \/ \E from \in Accounts \ {Escrow} : \E amount \in 0 .. usdc[from] : FundPool(from, amount)

Next == PlayerNext \/ OperatorNext \/ OwnerNext \/ WorldNext

Spec == Init /\ [][Next]_vars

-----------------------------------------------------------------------------
(* Invariants. *)

(* The type of every variable; in particular every balance stays a natural *)
(* number although settleRound, withdraw and withdrawPool subtract.          *)
TypeOK ==
    /\ block \in Nat
    /\ usdc \in [Accounts -> Nat]
    /\ blocked \subseteq Players
    /\ paused \in BOOLEAN
    /\ owner \in Keys \cup {NoKey} /\ pendingOwner \in Keys \cup {NoKey}
    /\ operator \in Keys /\ signer \in Keys
    /\ entryAmount \in Nat
    /\ tiers \in Seq(Nat)
    /\ caps \in [round : Nat, player : Nat, blocks : Nat]
    /\ rounds \in [RoundIds -> [seedCommit : Seeds \cup {NoSeed}, settled : BOOLEAN]]
    /\ entered \in [RoundIds -> SUBSET Players]
    /\ placed \in [RoundIds -> SUBSET Players]
    /\ claimable \in [Players -> Nat]
    /\ totalClaimable \in Nat
    /\ windows \in [Players -> [startBlock : Nat, paid : Nat]]

(* ArenaEscrow.sol:31 "never more owed in total than the contract holds":   *)
(* whatever order settlements, withdrawals and pool withdrawals come in.     *)
Solvent == totalClaimable <= usdc[Escrow]

(* The running total is the sum of the balances it stands for, so together  *)
(* with Solvent every player can be paid, whoever pulls first and whoever   *)
(* USDC refuses.                                                             *)
TotalIsSum == totalClaimable = SumFunction(claimable)

(* ArenaEscrow.sol:379 "the whole table paid at once must fit the round cap, *)
(* so the cap is the true bound": setTiers and setCaps, in any order, leave  *)
(* a table that fits and that no place can be refused for.                   *)
TableFitsCap == TiersFit(tiers, caps.round)

(* Only a seated player is ever placed, and only a settlement of an open     *)
(* round places anyone.                                                      *)
PlacedWereSeated ==
    \A r \in RoundIds :
        /\ placed[r] \subseteq entered[r]
        /\ placed[r] # {} => rounds[r].settled
        /\ entered[r] # {} \/ rounds[r].settled => IsOpen(r)

(* The window total fits its 192 bits, so the narrowing cast in _chargeWindow *)
(* keeps every unit that was credited.                                       *)
WindowFits == caps.player <= Uint192Max /\ \A p \in Players : windows[p].paid <= Uint192Max

(* The operator that submits is never the signer that signed, through every  *)
(* rotation and handover: a settlement always takes two keys.                 *)
TwoKeysSettle == operator # signer

(* What every reconfiguration keeps, in whatever order the owner's calls, the      *)
(* handovers and the settlements come: a payable table, a window in range, two keys. *)
ParametersFit == TableFitsCap /\ WindowFits /\ TwoKeysSettle

-----------------------------------------------------------------------------
(* Action properties. *)

(* A balance moves in two ways only.  It falls to zero when its own player   *)
(* pulls all of it, USDC in hand; it rises when a round that was open and     *)
(* unsettled settles, by one entry of the tier table, for a player seated in  *)
(* that round and never placed in it before.                                  *)
PulledBy(p) ==
    /\ claimable'[p] = 0
    /\ usdc'[p] = usdc[p] + claimable[p]
    /\ usdc'[Escrow] = usdc[Escrow] - claimable[p]
WonBy(p) ==
    \E r \in RoundIds :
        /\ ~rounds[r].settled /\ rounds'[r].settled
        /\ p \in entered[r] \ placed[r] /\ p \in placed'[r]
        /\ \E i \in DOMAIN tiers : claimable'[p] = claimable[p] + tiers[i]
BalanceMoves == [][\A p \in Players : claimable'[p] # claimable[p] => PulledBy(p) \/ WonBy(p)]_vars

(* IArenaSettlement.sol:29 "A roundId is single use for the life of the       *)
(* contract": a commitment never changes, and a settled round takes no seat,  *)
(* no placement and no second settlement.                                      *)
RoundsAreFinal ==
    [][\A r \in RoundIds :
          /\ IsOpen(r) => rounds'[r].seedCommit = rounds[r].seedCommit
          /\ rounds[r].settled =>
                /\ rounds'[r] = rounds[r]
                /\ entered'[r] = entered[r]
                /\ placed'[r] = placed[r]]_vars

(* ArenaEscrow.sol:32 "a pause switch on every player path": while paused no  *)
(* round opens, seats or settles and no credit moves; only the pool does, and *)
(* it never reaches what players are owed.                                     *)
PauseFreezesPlayers ==
    [][paused => UNCHANGED <<roundVars, creditVars>>
                 /\ usdc'[Escrow] >= totalClaimable]_vars

-----------------------------------------------------------------------------
(* Refinement. *)

Phase ==
    [r \in RoundIds |->
        IF rounds[r].settled THEN "settled" ELSE IF IsOpen(r) THEN "open" ELSE "none"]

Ledger == INSTANCE RoundLedger WITH
    phase <- Phase, seated <- entered, owed <- claimable,
    promised <- totalClaimable, pool <- usdc[Escrow]

(* The contract keeps the promise of its interface, whatever its owner, its    *)
(* operator and USDC do: rounds open and settle once, only seated players are   *)
(* placed, and no step leaves more promised than the pool holds.                *)
ImplementsLedger == Ledger!Spec
=============================================================================
