------------------------------ MODULE Collection ------------------------------
(***************************************************************************)
(* The collection rules (server/src/game/collection.js) on a generated map      *)
(* (server/src/game/mapGenerator.js): collectors discover the assets near them,  *)
(* lock one to mint it, poll until the lock has run out, and interrupt each       *)
(* other; a set of assets of one tag multiplies the score.                      *)
(*                                                                             *)
(* The rules are not wired into a socket yet: the actions are the calls a lobby   *)
(* may make, in any order and at any time.  The plane is a line; a map is any     *)
(* that the generator can roll.                                                *)
(***************************************************************************)
EXTENDS Integers, FiniteSets, FiniteSetsExt, SequencesExt

CONSTANTS
    Collectors, Assets,
    NoCollector,          \* discoveredBy and mintedBy null
    Spots, Tags,          \* places and theme tags a map may use
    Rolls,                \* outcomes of rng() * 100 tried, in whole points
    RarityTable,          \* RARITY_TABLE: weight, points and mint duration of a tier
    DiscoveryRadius, ContestRadius,
    SpeedBonusWindow, SpeedPercent,  \* SPEED_BONUS_MULTIPLIER, of 100
    CollectGrace, CollectLimit, DiscoveryCredit,
    SetSize, SetPercent,  \* calculateSetBonuses
    CollectTime           \* bounds the clock

ASSUME CollectionAssumption ==
    /\ IsFiniteSet(Collectors) /\ IsFiniteSet(Assets)
    /\ NoCollector \notin Collectors
    /\ Spots \subseteq Int
    /\ RarityTable \in Seq([weight : Nat, points : Nat, duration : Nat]) /\ RarityTable # <<>>
    /\ Rolls \subseteq 0 .. 99
    /\ {SpeedPercent, SetPercent, CollectLimit, DiscoveryCredit} \subseteq Nat
    /\ SpeedPercent >= 100 /\ SetPercent >= 100

VARIABLES
    assets,    \* per asset: at, tier, tag, discoveredBy, discoveryTime, mintedBy
    tick,      \* the clock the caller passes
    spot,      \* where a collector is
    lock,      \* mintProgress: asset and endTime, or NoLock; state is "minting" while it is set
    earned,    \* score
    speedBonuses

mapVars == <<assets, tick>>
collectorVars == <<spot, lock, earned, speedBonuses>>
collectionVars == <<mapVars, collectorVars>>

NoLock == [asset |-> "none", endTime |-> 0]
Tier(a) == RarityTable[assets[a].tier]
DiscoveredBy(c) == {a \in Assets : assets[a].discoveredBy = c}
Found(a) == assets[a].discoveredBy # NoCollector
Taken(a) == assets[a].mintedBy # NoCollector
MintedBy(c) == {a \in Assets : assets[a].mintedBy = c}

InRange(p, q, radius) == p - q \in -radius .. radius
Reaches(c, a) == InRange(spot[c], assets[a].at, DiscoveryRadius)

(* rollRarity: the first tier whose cumulated weight the roll is under. *)
Cumulated(i) == MapThenSumSet(LAMBDA j : RarityTable[j].weight, 1 .. i)
RollRarity(roll) ==
    LET under == {i \in DOMAIN RarityTable : roll < Cumulated(i)}
    IN  IF under = {} THEN 1 ELSE Min(under)

-----------------------------------------------------------------------------
Discover(c) ==
    /\ assets' = [a \in Assets |->
          IF ~Found(a) /\ Reaches(c, a)
          THEN [assets[a] EXCEPT !.discoveredBy = c, !.discoveryTime = tick] ELSE assets[a]]
    /\ UNCHANGED <<tick, collectorVars>>

BeginMint(c, a) ==
    /\ lock[c] = NoLock
    /\ Cardinality(MintedBy(c)) < CollectLimit
    /\ Found(a) /\ ~Taken(a) /\ Reaches(c, a)
    /\ lock' = [lock EXCEPT ![c] = [asset |-> a, endTime |-> tick + Tier(a).duration]]
    /\ UNCHANGED <<mapVars, spot, earned, speedBonuses>>

(* The price of a find minted quickly by its discoverer. *)
IsQuick(c, a) ==
    /\ assets[a].discoveredBy = c
    /\ tick - assets[a].discoveryTime <= SpeedBonusWindow + Tier(a).duration
Price(c, a) == IF IsQuick(c, a) THEN (Tier(a).points * SpeedPercent) \div 100 ELSE Tier(a).points

(* finishMint polls; an asset taken in the meantime frees the lock only. *)
AwardsUnlocked(c, a) == TRUE  \* slip: minted is not looked at again
Awards(c, a) == ~Taken(a)

FinishMint(c) ==
    /\ lock[c] # NoLock
    /\ tick >= lock[c].endTime - CollectGrace
    /\ lock' = [lock EXCEPT ![c] = NoLock]
    /\ LET a == lock[c].asset
       IN  \/ /\ Awards(c, a)
              /\ assets' = [assets EXCEPT ![a].mintedBy = c]
              /\ earned' = [earned EXCEPT ![c] = @ + Price(c, a)]
              /\ speedBonuses' = [speedBonuses EXCEPT ![c] = @ + IF IsQuick(c, a) THEN 1 ELSE 0]
           \/ ~Awards(c, a) /\ UNCHANGED <<assets, earned, speedBonuses>>
    /\ UNCHANGED <<tick, spot>>

ContestMint(challenger, target) ==
    /\ lock[target] # NoLock
    /\ InRange(spot[challenger], spot[target], ContestRadius)
    /\ lock' = [lock EXCEPT ![target] = NoLock]
    /\ UNCHANGED <<mapVars, spot, earned, speedBonuses>>

Walk(c, place) ==
    /\ spot' = [spot EXCEPT ![c] = place]
    /\ UNCHANGED <<mapVars, lock, earned, speedBonuses>>

CollectTick ==
    /\ tick < CollectTime
    /\ tick' = tick + 1
    /\ UNCHANGED <<assets, collectorVars>>

(* generateMap and createCollector. *)
RolledAssets ==
    [Assets -> {[at |-> p, tier |-> RollRarity(roll), tag |-> t, discoveredBy |-> NoCollector,
                 discoveryTime |-> 0, mintedBy |-> NoCollector] : p \in Spots, roll \in Rolls, t \in Tags}]

CollectionInit ==
    /\ assets \in RolledAssets
    /\ tick = 0
    /\ spot \in [Collectors -> Spots]
    /\ lock = [c \in Collectors |-> NoLock]
    /\ earned = [c \in Collectors |-> 0] /\ speedBonuses = [c \in Collectors |-> 0]

CollectionNext ==
    \/ CollectTick
    \/ \E c \in Collectors :
          \/ Discover(c) \/ FinishMint(c)
          \/ \E a \in Assets : BeginMint(c, a)
          \/ \E d \in Collectors : ContestMint(c, d)
          \/ \E p \in Spots : Walk(c, p)

CollectionSpec == CollectionInit /\ [][CollectionNext]_collectionVars

-----------------------------------------------------------------------------
(* scoreCollector. *)
HasSet(c) == \E t \in Tags : Cardinality({a \in MintedBy(c) : assets[a].tag = t}) >= SetSize
FinalScore(c) ==
    (earned[c] * (IF HasSet(c) THEN SetPercent ELSE 100)) \div 100
    + DiscoveryCredit * Cardinality(DiscoveredBy(c))

(* The type of every variable. *)
CollectionTypeOK ==
    /\ assets \in [Assets -> [at : Spots, tier : DOMAIN RarityTable, tag : Tags, discoveryTime : Nat,
                              discoveredBy : Collectors \cup {NoCollector},
                              mintedBy : Collectors \cup {NoCollector}]]
    /\ tick \in Nat
    /\ spot \in [Collectors -> Spots]
    /\ lock \in [Collectors -> {NoLock} \cup [asset : Assets, endTime : Nat]]
    /\ earned \in [Collectors -> Nat] /\ speedBonuses \in [Collectors -> Nat]

(* A collector is paid its own mints: the speed bonus on as many of its own finds as  *)
(* it was counted for.                                                            *)
Worth(a, quick) == (Tier(a).points * (IF a \in quick THEN SpeedPercent ELSE 100)) \div 100
PaidFor(c) ==
    \E quick \in SUBSET (MintedBy(c) \cap DiscoveredBy(c)) :
        /\ Cardinality(quick) = speedBonuses[c]
        /\ earned[c] = SumFunction([a \in MintedBy(c) |-> Worth(a, quick)])

(* The most an asset may bring, found and minted. *)
ForFind(a) == IF Found(a) THEN 10000 * DiscoveryCredit ELSE 0
ForMint(a) == IF Taken(a) THEN SetPercent * SpeedPercent * Tier(a).points ELSE 0

(* collection.js:138 "If the asset was taken in the meantime the player's lock is  *)
(* cleared and nothing is awarded": two may hold a lock on one asset, and however   *)
(* they poll, contest and walk, a map pays for every asset once.  A collector's      *)
(* score is its own mints, no more than the limit; the collectors together have no    *)
(* more than the mints at their speed price with the set bonus, and a credit for      *)
(* every discovery.                                                               *)
MapPaysOnce ==
    /\ \A c \in Collectors : PaidFor(c) /\ Cardinality(MintedBy(c)) <= CollectLimit
    /\ 10000 * SumFunction([c \in Collectors |-> FinalScore(c)])
          <= SumFunction([a \in Assets |-> ForFind(a) + ForMint(a)])
=============================================================================
