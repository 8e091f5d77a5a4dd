------------------------------- MODULE GameProofs -------------------------------
(***************************************************************************)
(* What holds of the game's parts for any constants: a round in play (ArenaRound: its *)
(* scores are what was claimed and minted, every claimed fragment is somebody's, no   *)
(* bot plays on a field it has not seen), the free lobby (Sandbox: no row is left open *)
(* without a timer to close it), the collection game (Collection: a map's points are paid   *)
(* once), the powerups (Powerups: what clients were told is the field) and the layout      *)
(* (Layout: the seed and the log of respawns give it).  The parts share no state; each     *)
(* has its inductive invariant and its theorems, those of the movement judge in            *)
(* MovementProofs, and all of them hold side by side (Game).  Sums over seats, rarities     *)
(* and assets, and folds over sequences, change as Sums says they do.                  *)
(***************************************************************************)
EXTENDS Game, MovementProofs

-----------------------------------------------------------------------------
(* A round in play. *)

(* Bots are never shadows, and a seat's mints are counted. *)
MintShape(m) ==
    /\ m = [chests |-> m.chests, since |-> m.since, minted |-> m.minted]
    /\ m.minted \in Nat
RoundFits ==
    /\ frags \in [Frags -> [at : Places, by : Seats \cup {NoOne}]]
    /\ shadow \in [Seats -> {0, 1}] /\ \A b \in Bots : shadow[b] = 0
    /\ mint = [s \in Seats |-> mint[s]] /\ \A s \in Seats : MintShape(mint[s])

RoundInv == RoundFits /\ BotsSeeTheRound

(* Nobody is refused anything by a handler that says so. *)
LEMMA NobodyRefused == NoRefusal.to \notin Bots
BY RoundAssumption DEF NoRefusal, RoundAssumption, Seats

(* A round begins with nothing claimed, and every bot looking at the whole field. *)
LEMMA RoundInitFits == ASSUME RoundInit PROVE RoundInv
<1>1. frags \in [Frags -> [at : Places, by : Seats \cup {NoOne}]]
  BY DEF RoundInit
<1>2. shadow \in [Seats -> {0, 1}] /\ \A b \in Bots : shadow[b] = 0  BY DEF RoundInit, Seats
<1>3. \A s \in Seats : mint[s] = NewSeatMint  BY DEF RoundInit
<1>4. MintShape(NewSeatMint)  BY DEF MintShape, NewSeatMint
<1>5. mint = [s \in Seats |-> mint[s]]  BY DEF RoundInit
<1>6. BotsSeeTheRound  BY NobodyRefused DEF RoundInit, BotsSeeTheRound
<1> QED  BY <1>1, <1>2, <1>3, <1>4, <1>5, <1>6 DEF RoundInv, RoundFits

(* Records of mints stay such. *)
LEMMA MintsShape ==
    ASSUME NEW m, MintShape(m), NEW chests, NEW since
    PROVE  /\ MintShape([m EXCEPT !.since = since])
           /\ MintShape([m EXCEPT !.since = since, !.chests = chests])
           /\ MintShape([m EXCEPT !.minted = @ + 1, !.chests = chests])
<1>1. PICK c, t, n : n \in Nat /\ m = [chests |-> c, since |-> t, minted |-> n]  BY DEF MintShape
<1> DEFINE noted == [m EXCEPT !.since = since]
           counted == [m EXCEPT !.minted = @ + 1]
<1>2. noted = [chests |-> c, since |-> since, minted |-> n]  BY <1>1
<1>3. counted = [chests |-> c, since |-> t, minted |-> n + 1]  BY <1>1
<1> HIDE DEF noted, counted
<1>4. [noted EXCEPT !.chests = chests] = [chests |-> chests, since |-> since, minted |-> n]  BY <1>2
<1>5. [counted EXCEPT !.chests = chests] = [chests |-> chests, since |-> t, minted |-> n + 1]  BY <1>3
<1>6. MintShape(noted) /\ MintShape([noted EXCEPT !.chests = chests])  BY <1>1, <1>2, <1>4 DEF MintShape
<1>7. MintShape([counted EXCEPT !.chests = chests])  BY <1>1, <1>5 DEF MintShape
<1> QED  BY <1>6, <1>7 DEF noted, counted

(* A claim noted keeps the shape of a seat's mints. *)
LEMMA NotedShape ==
    ASSUME NEW m, MintShape(m), NEW r
    PROVE  MintShape(Noted(m, r))
<1> DEFINE more == [m.since EXCEPT ![r] = @ + 1]
           none == [m.since EXCEPT ![r] = 0]
           chests == Append(m.chests, [rarity |-> r, since |-> now])
<1>1. Noted(m, r) = IF m.since[r] + 1 < FragsPerChest THEN [m EXCEPT !.since = more]
                    ELSE [m EXCEPT !.since = none, !.chests = chests]
  BY DEF Noted
<1> HIDE DEF more, none, chests
<1>2. MintShape([m EXCEPT !.since = more])  BY MintsShape
<1>3. MintShape([m EXCEPT !.since = none, !.chests = chests])  BY MintsShape
<1> QED  BY <1>1, <1>2, <1>3

(* A claim marks the fragment and leaves the rest. *)
LEMMA ClaimFits ==
    ASSUME RoundFits, NEW s \in Seats, NEW f \in Frags, Claim(s, f), UNCHANGED shadow
    PROVE  RoundFits'
<1>1. frags' \in [Frags -> [at : Places, by : Seats \cup {NoOne}]]
  BY DEF RoundFits, Claim
<1>2. mint' = [mint EXCEPT ![s] = Noted(mint[s], RarityOf[f])]  BY DEF Claim
<1>3. MintShape(Noted(mint[s], RarityOf[f]))
  <2>1. MintShape(mint[s])  BY DEF RoundFits
  <2> QED  BY <2>1, NotedShape
<1>4. mint' = [q \in Seats |-> mint'[q]] /\ \A q \in Seats : MintShape(mint'[q])
  BY <1>2, <1>3 DEF RoundFits
<1> QED  BY <1>1, <1>4 DEF RoundFits

(* So does whatever comes of an attempt. *)
LEMMA CollectFits ==
    ASSUME RoundFits, NEW s \in Seats, NEW f \in Frags, Collect(s, f), UNCHANGED shadow
    PROVE  RoundFits' /\ refusal'.to \in {s, NoOne}
<1>1. CASE Claimable(s, f) /\ Claim(s, f) /\ refusal' = NoRefusal
  BY <1>1, ClaimFits DEF NoRefusal
<1>2. CASE UNCHANGED <<frags, seatVars>> /\ refusal' = NoRefusal
  BY <1>2 DEF RoundFits, seatVars, NoRefusal
<1>3. CASE UNCHANGED <<frags, seatVars>> /\ Refuse(s, RefusalOf(s, f))
  BY <1>3 DEF RoundFits, seatVars, Refuse
<1> QED  BY <1>1, <1>2, <1>3 DEF Collect

(* A mint puts the fragments of its rarity out again. *)
LEMMA MintFits ==
    ASSUME RoundFits, NEW s \in Seats, Mint(s), UNCHANGED shadow
    PROVE  RoundFits' /\ refusal'.to \in {s, NoOne}
<1>1. CASE MintTop(s) /\ refusal' = NoRefusal
  <2> DEFINE i == Top(mint[s].chests)
             r == mint[s].chests[i].rarity
  <2>1. Respawn(r) /\ mint' = [mint EXCEPT ![s].minted = @ + 1, ![s].chests = Without(@, i)]
    BY <1>1 DEF MintTop
  <2>2. PICK place \in [{f \in Frags : RarityOf[f] = r} -> Places] :
            frags' = [f \in Frags |-> IF RarityOf[f] = r THEN [at |-> place[f], by |-> NoOne] ELSE frags[f]]
    BY <2>1 DEF Respawn
  <2>3. frags' \in [Frags -> [at : Places, by : Seats \cup {NoOne}]]
    BY <2>2 DEF RoundFits
  <2> HIDE DEF i, r
  <2> DEFINE chests == Without(mint[s].chests, i)
             m == [mint[s] EXCEPT !.minted = @ + 1, !.chests = chests]
  <2>4. mint' = [mint EXCEPT ![s] = m]  BY <2>1 DEF RoundFits
  <2> HIDE DEF chests
  <2>5. MintShape(m)  BY MintsShape DEF RoundFits
  <2> HIDE DEF m
  <2>6. mint' = [q \in Seats |-> mint'[q]] /\ \A q \in Seats : MintShape(mint'[q])
    BY <2>4, <2>5 DEF RoundFits
  <2> QED  BY <1>1, <2>3, <2>6 DEF RoundFits, NoRefusal
<1>2. CASE UNCHANGED <<frags, seatVars>> /\ Refuse(s, MintRefusal(mint[s]))
  BY <1>2 DEF RoundFits, seatVars, Refuse
<1> QED  BY <1>1, <1>2 DEF Mint

(* A socket event falls between ticks and refuses its own seat only. *)
LEMMA HumanFits ==
    ASSUME RoundInv, NEW h \in Humans,
           \/ \E place \in Places, sh \in {0, 1}, fc \in Reports : Pos(h, place, sh, fc)
           \/ \E f \in Frags : FragCollected(h, f)
           \/ MintDone(h)
           \/ Leave(h)
    PROVE  RoundInv'
<1>1. h \in Seats /\ h \notin Bots /\ NoOne \notin Bots
  BY RoundAssumption DEF RoundAssumption, Seats
<1>2. turn' = <<>>  BY DEF Pos, FragCollected, MintDone, Leave, Between
<1>3. RoundFits' /\ refusal'.to \in {h, NoOne}
  <2>1. CASE \E place \in Places, sh \in {0, 1}, fc \in Reports : Pos(h, place, sh, fc)
    BY <1>1, <2>1 DEF RoundInv, RoundFits, Pos, NoRefusal
  <2>2. CASE \E f \in Frags : FragCollected(h, f)
    BY <1>1, <2>2, CollectFits DEF RoundInv, FragCollected, placeVars
  <2>3. CASE MintDone(h)
    BY <1>1, <2>3, MintFits DEF RoundInv, MintDone, placeVars
  <2>4. CASE Leave(h)
    BY <2>4 DEF RoundInv, RoundFits, Leave, placeVars, seatVars, NoRefusal
  <2> QED  BY <2>1, <2>2, <2>3, <2>4
<1> QED  BY <1>1, <1>2, <1>3 DEF RoundInv, BotsSeeTheRound

(* A bot that claims goes for a fragment that is free where it sees it. *)
LEMMA BotClaimsFits ==
    ASSUME RoundInv, NEW b \in Bots, NEW w \in world, turn # <<>>, BotClaims(b, w), UNCHANGED shadow
    PROVE  RoundFits' /\ world' = Unclaimed(frags') /\ (refusal'.to \in Bots => refusal'.reason = "range")
<1>1. b \in Seats  BY DEF Seats
<1>2. world = Unclaimed(frags)  BY DEF RoundInv, BotsSeeTheRound
<1>3. PICK f \in Frags : frags[f].by = NoOne /\ w = [id |-> f, at |-> frags[f].at]
  BY <1>2 DEF Unclaimed
<1>4. w.id = f /\ Collect(b, f)  BY <1>3 DEF BotClaims
<1>5. RoundFits'  BY <1>1, <1>4, CollectFits DEF RoundInv
<1>6. RefusalOf(b, f) \in {"range", "none"}
  BY <1>3 DEF RefusalOf, RoundInv, RoundFits
<1>7. CASE Claimable(b, f)
  <2>1. refusal' = NoRefusal /\ Claim(b, f)  BY <1>4, <1>7 DEF Collect, Claimable
  <2>2. frags' = [frags EXCEPT ![f].by = b] /\ world' = world \ {w}
    BY <1>4, <1>7, <2>1 DEF Claim, BotClaims, DropFromWorld
  <2>3. b # NoOne  BY <1>1, RoundAssumption DEF RoundAssumption
  <2>4. \A g \in Frags : /\ frags'[g].at = frags[g].at
                         /\ frags'[g].by = IF g = f THEN b ELSE frags[g].by
    BY <2>2 DEF RoundInv, RoundFits
  <2>5. Unclaimed(frags') = {[id |-> g, at |-> frags[g].at] : g \in {k \in Frags : frags[k].by = NoOne /\ k # f}}
    BY <2>3, <2>4 DEF Unclaimed
  <2>6. Unclaimed(frags') = Unclaimed(frags) \ {w}
    BY <1>3, <2>5 DEF Unclaimed
  <2> QED  BY <1>2, <1>5, <2>1, <2>2, <2>6, NobodyRefused
<1>8. CASE ~Claimable(b, f)
  <2>1. world' = world  BY <1>4, <1>8 DEF BotClaims
  <2>2. /\ UNCHANGED <<frags, seatVars>>
        /\ refusal' = NoRefusal \/ (RefusalOf(b, f) # "none" /\ Refuse(b, RefusalOf(b, f)))
    <3> HIDE DEF seatVars
    <3> QED  BY <1>4, <1>8 DEF Collect
  <2>3. refusal'.to \in Bots => refusal'.reason = "range"
    BY <1>6, <2>2, NobodyRefused DEF Refuse
  <2> QED  BY <1>2, <1>5, <2>1, <2>2, <2>3
<1> QED  BY <1>7, <1>8

(* The bot whose turn it is acts. *)
LEMMA BotFits ==
    ASSUME RoundInv, NEW b \in Bots, BotMove(b) \/ BotMint(b)
    PROVE  RoundInv'
<1>1. b \in Seats /\ turn # <<>>  BY DEF Seats, BotMove, BotMint
<1>2. world = Unclaimed(frags)  BY <1>1 DEF RoundInv, BotsSeeTheRound
<1>3. RoundFits' /\ world' = Unclaimed(frags') /\ (refusal'.to \in Bots => refusal'.reason = "range")
  <2>1. CASE BotMove(b) /\ BotGoes(b)
    BY <1>2, <2>1, NobodyRefused DEF BotMove, BotGoes, RoundInv, RoundFits, seatVars
  <2>2. CASE BotMove(b) /\ \E w \in world : BotClaims(b, w)
    BY <1>1, <2>2, BotClaimsFits DEF BotMove
  <2>3. CASE BotMint(b) /\ HasMintableChest(mint[b]) /\ Mint(b) /\ world' = SeenAfterMint
    <3>1. RoundFits'  BY <1>1, <2>3, MintFits DEF BotMint, placeVars, RoundInv
    <3>2. MintRefusal(mint[b]) = "none"
      BY <1>1, <2>3, RoundAssumption
         DEF HasMintableChest, MintRefusal, RoundInv, RoundFits, MintShape, RoundAssumption
    <3>3. refusal' = NoRefusal  BY <2>3, <3>2 DEF Mint
    <3> QED  BY <2>3, <3>1, <3>3, NobodyRefused DEF SeenAfterMint
  <2>4. CASE BotMint(b) /\ ~HasMintableChest(mint[b]) /\ refusal' = NoRefusal /\ UNCHANGED <<frags, seatVars, world>>
    BY <1>2, <2>4, NobodyRefused DEF BotMint, placeVars, RoundInv, RoundFits, seatVars
  <2> QED  BY <2>1, <2>2, <2>3, <2>4 DEF BotMove, BotMint
<1> QED  BY <1>3 DEF RoundInv, BotsSeeTheRound

(* No step of a round breaks its invariant. *)
LEMMA RoundStep == RoundInv /\ [RoundNext]_roundVars => RoundInv'
<1> SUFFICES ASSUME RoundInv, [RoundNext]_roundVars PROVE RoundInv'
  OBVIOUS
<1>1. CASE HumanNext  BY <1>1, HumanFits DEF HumanNext
<1>2. CASE RoundTick
  <2>1. RoundFits' /\ world' = Unclaimed(frags')
    BY <1>2 DEF RoundTick, RoundInv, RoundFits, placeVars, seatVars
  <2> QED  BY <1>2, <2>1, NobodyRefused DEF RoundTick, RoundInv, BotsSeeTheRound
<1>3. CASE RoundEnd
  <2>1. RoundFits' /\ turn' = <<>>
    BY <1>3 DEF RoundEnd, RoundInv, RoundFits, placeVars, seatVars
  <2> QED  BY <1>3, <2>1, NobodyRefused DEF RoundEnd, RoundInv, BotsSeeTheRound
<1>4. CASE \E b \in Bots : BotMove(b) \/ BotMint(b)  BY <1>4, BotFits
<1>5. CASE UNCHANGED roundVars
  BY <1>5 DEF roundVars, placeVars, seatVars, RoundInv, RoundFits, BotsSeeTheRound, Unclaimed
<1> QED  BY <1>1, <1>2, <1>3, <1>4, <1>5 DEF RoundNext

(* BotsSeeTheRound: every bot of a tick acts on the round as the bots before it left   *)
(* it, and is refused for its distance only.                                        *)
THEOREM BotsAlwaysSee == RoundSpec => []BotsSeeTheRound
<1>1. RoundInit => RoundInv  BY RoundInitFits
<1>2. RoundInv => BotsSeeTheRound  BY DEF RoundInv
<1> QED  BY <1>1, <1>2, RoundStep, PTL DEF RoundSpec

-----------------------------------------------------------------------------
USE DEF Sum, SumFunction

-----------------------------------------------------------------------------
(* Chests. *)

ChestsOf(c, r) == {i \in DOMAIN c : c[i].rarity = r}

(* A seat's chests, and those of one rarity, can be counted. *)
LEMMA ChestsFinite ==
    ASSUME NEW c \in Seq(Chest)
    PROVE  /\ DOMAIN c = 1 .. Len(c) /\ Len(c) \in Nat /\ IsFiniteSet(DOMAIN c)
           /\ \A i \in DOMAIN c : c[i] \in Chest
           /\ \A r : IsFiniteSet(ChestsOf(c, r)) /\ Cardinality(ChestsOf(c, r)) \in Nat
<1>1. DOMAIN c = 1 .. Len(c) /\ Len(c) \in Nat
  OBVIOUS
<1>2. \A i \in DOMAIN c : c[i] \in Chest
  BY <1>1
<1>3. IsFiniteSet(DOMAIN c)
  BY <1>1, FS_Interval
<1>4. \A r : ChestsOf(c, r) \subseteq DOMAIN c
  BY DEF ChestsOf
<1> QED  BY <1>1, <1>2, <1>3, <1>4, FS_Subset, FS_CardinalityType

(* A chest more. *)
LEMMA ChestAppears ==
    ASSUME NEW c \in Seq(Chest), NEW x \in Chest
    PROVE  /\ Append(c, x) \in Seq(Chest)
           /\ \A r : Cardinality(ChestsOf(Append(c, x), r))
                         = Cardinality(ChestsOf(c, r)) + (IF r = x.rarity THEN 1 ELSE 0)
<1> DEFINE d == Append(c, x)
           n == Len(c) + 1
<1>1. d \in Seq(Chest) /\ DOMAIN c = 1 .. Len(c) /\ DOMAIN d = 1 .. n /\ Len(c) \in Nat
  OBVIOUS
<1>2. d[n] = x /\ \A i \in 1 .. Len(c) : d[i] = c[i]
  OBVIOUS
<1> HIDE DEF d
<1>3. ASSUME NEW r
      PROVE  Cardinality(ChestsOf(d, r)) = Cardinality(ChestsOf(c, r)) + (IF r = x.rarity THEN 1 ELSE 0)
  <2> DEFINE S == ChestsOf(c, r)
  <2>1. IsFiniteSet(S) /\ n \notin S /\ Cardinality(S) \in Nat
    <3>1. S \subseteq DOMAIN c /\ n \notin DOMAIN c
      BY <1>1 DEF ChestsOf
    <3> QED  BY <3>1, ChestsFinite
  <2>2. ChestsOf(d, r) = IF r = x.rarity THEN S \cup {n} ELSE S
    BY <1>1, <1>2 DEF ChestsOf
  <2> HIDE DEF S
  <2>3. Cardinality(S \cup {n}) = Cardinality(S) + 1
    BY <2>1, FS_AddElement
  <2> QED  BY <2>1, <2>2, <2>3 DEF S
<1> QED  BY <1>1, <1>3 DEF d

(* A chest less: those behind it move up, and none is lost or doubled. *)
LEMMA ChestGoes ==
    ASSUME NEW c \in Seq(Chest), NEW i \in DOMAIN c
    PROVE  /\ Without(c, i) \in Seq(Chest)
           /\ \A r : Cardinality(ChestsOf(Without(c, i), r))
                         = Cardinality(ChestsOf(c, r)) - (IF r = c[i].rarity THEN 1 ELSE 0)
<1> DEFINE d == Without(c, i)
           n == Len(c)
           a == SubSeq(c, 1, i - 1)
           b == SubSeq(c, i + 1, n)
<1>0. n \in Nat /\ i \in 1 .. n /\ DOMAIN c = 1 .. n /\ \A j \in 1 .. n : c[j] \in Chest
  BY ChestsFinite
<1>1. a \in Seq(Chest) /\ Len(a) = i - 1 /\ \A j \in 1 .. i - 1 : a[j] = c[j]
  <2>1. \A j \in 1 .. i - 1 : c[j] \in Chest
    BY <1>0
  <2>2. /\ SubSeq(c, 1, i - 1) \in Seq(Chest)
        /\ Len(SubSeq(c, 1, i - 1)) = IF 1 <= i - 1 THEN i - 1 - 1 + 1 ELSE 0
        /\ \A j \in 1 .. i - 1 - 1 + 1 : SubSeq(c, 1, i - 1)[j] = c[1 + j - 1]
    BY <1>0, <2>1, SubSeqProperties
  <2> QED  BY <1>0, <2>2
<1>2. b \in Seq(Chest) /\ Len(b) = n - i /\ \A j \in 1 .. n - i : b[j] = c[i + j]
  <2>1. \A j \in i + 1 .. n : c[j] \in Chest
    BY <1>0
  <2>2. /\ SubSeq(c, i + 1, n) \in Seq(Chest)
        /\ Len(SubSeq(c, i + 1, n)) = IF i + 1 <= n THEN n - (i + 1) + 1 ELSE 0
        /\ \A j \in 1 .. n - (i + 1) + 1 : SubSeq(c, i + 1, n)[j] = c[(i + 1) + j - 1]
    BY <1>0, <2>1, SubSeqProperties
  <2>3. /\ (IF i + 1 <= n THEN n - (i + 1) + 1 ELSE 0) = n - i
        /\ n - (i + 1) + 1 = n - i /\ \A j \in 1 .. n - i : (i + 1) + j - 1 = i + j
    BY <1>0
  <2> QED  BY <2>2, <2>3, SMTT(60)
<1> HIDE DEF a, b
<1>3. /\ d \in Seq(Chest) /\ Len(d) = n - 1
      /\ \A j \in 1 .. n - 1 : d[j] = IF j < i THEN c[j] ELSE c[j + 1]
  <2>1. d = a \o b
    BY DEF Without, a, b
  <2>2. /\ a \o b \in Seq(Chest) /\ Len(a \o b) = Len(a) + Len(b)
        /\ \A j \in 1 .. Len(a) + Len(b) : (a \o b)[j] = IF j <= Len(a) THEN a[j] ELSE b[j - Len(a)]
    BY <1>1, <1>2, ConcatProperties
  <2> HIDE DEF d
  <2>3. d \in Seq(Chest) /\ Len(d) = n - 1
    BY <1>0, <1>1, <1>2, <2>1, <2>2
  <2>4. ASSUME NEW j \in 1 .. n - 1 PROVE d[j] = IF j < i THEN c[j] ELSE c[j + 1]
    <3>1. d[j] = IF j <= i - 1 THEN a[j] ELSE b[j - (i - 1)]
      BY <1>0, <1>1, <1>2, <2>1, <2>2
    <3>2. CASE j < i
      BY <1>0, <1>1, <3>1, <3>2
    <3>3. CASE j >= i
      <4>1. j - (i - 1) \in 1 .. n - i /\ i + (j - (i - 1)) = j + 1
        BY <1>0, <3>3
      <4> QED  BY <1>0, <1>2, <3>1, <3>3, <4>1
    <3> QED  BY <1>0, <3>2, <3>3
  <2> QED  BY <2>3, <2>4
<1> HIDE DEF d
<1>4. DOMAIN d = 1 .. n - 1
  BY <1>0, <1>3
<1>5. ASSUME NEW r
      PROVE  Cardinality(ChestsOf(d, r)) = Cardinality(ChestsOf(c, r)) - (IF r = c[i].rarity THEN 1 ELSE 0)
  <2> DEFINE S == ChestsOf(d, r)
             U == ChestsOf(c, r) \ {i}
             f == [j \in S |-> IF j < i THEN j ELSE j + 1]
  <2>1. \A j \in S : j \in 1 .. n - 1 /\ d[j].rarity = r
    BY <1>4 DEF ChestsOf
  <2>2. \A j \in S : f[j] \in U
    BY <1>0, <1>3, <2>1 DEF ChestsOf
  <2>3. \A j, k \in S : f[j] = f[k] => j = k
    BY <1>0, <2>1
  <2>4. ASSUME NEW u \in U PROVE \E j \in S : f[j] = u
    <3>1. u \in 1 .. n /\ u # i /\ c[u].rarity = r
      BY <1>0 DEF ChestsOf
    <3>2. CASE u < i
      <4>1. u \in S
        BY <1>0, <1>3, <1>4, <3>1, <3>2 DEF ChestsOf
      <4> QED  BY <3>2, <4>1
    <3>3. CASE u > i
      <4>1. u - 1 \in S
        BY <1>0, <1>3, <1>4, <3>1, <3>3 DEF ChestsOf
      <4> QED  BY <1>0, <3>1, <3>3, <4>1
    <3> QED  BY <1>0, <3>1, <3>2, <3>3
  <2>5. f \in Bijection(S, U)
    <3>1. f \in [S -> U]
      BY <2>2
    <3> HIDE DEF f, S, U
    <3> QED  BY <2>3, <2>4, <3>1 DEF Bijection, Injection, Surjection, IsInjective
  <2> HIDE DEF f
  <2>6. IsFiniteSet(S) /\ IsFiniteSet(ChestsOf(c, r)) /\ Cardinality(ChestsOf(c, r)) \in Nat
    BY <1>3, ChestsFinite
  <2>7. Cardinality(U) = Cardinality(S)
    <3> HIDE DEF S, U
    <3> QED  BY <2>5, <2>6, FS_Bijection DEF ExistsBijection
  <2>8. Cardinality(U) = IF i \in ChestsOf(c, r) THEN Cardinality(ChestsOf(c, r)) - 1
                         ELSE Cardinality(ChestsOf(c, r))
    BY <2>6, FS_RemoveElement
  <2>9. i \in ChestsOf(c, r) <=> r = c[i].rarity
    BY DEF ChestsOf
  <2> QED  BY <2>6, <2>7, <2>8, <2>9
<1> QED  BY <1>3, <1>5 DEF d

(* Where there is a chest there is one a mint takes. *)
LEMMA TopIsChest ==
    ASSUME NEW c \in Seq(Chest), c # <<>>, Rarities \subseteq Nat
    PROVE  Top(c) \in DOMAIN c
<1>1. /\ DOMAIN c = 1 .. Len(c) /\ Len(c) \in Nat /\ IsFiniteSet(DOMAIN c)
      /\ \A i \in DOMAIN c : c[i] \in Chest
  BY ChestsFinite
<1>2. \A i \in DOMAIN c : c[i].rarity \in Nat
  BY <1>1 DEF Chest
<1>3. DOMAIN c # {}
  <2>1. Len(c) \in Nat \ {0}
    BY EmptySeq
  <2>2. 1 \in DOMAIN c
    BY <1>1, <2>1
  <2> QED  BY <2>2
<1> DEFINE D == DOMAIN c
           Best(s, i) == i \in s /\ \A j \in s : c[j].rarity <= c[i].rarity
           T == {s \in SUBSET D : s = {} \/ \E i \in D : Best(s, i)}
<1>4. {} \in T
  OBVIOUS
<1>5. ASSUME NEW s \in SUBSET D, NEW x \in D \ s, s \in T PROVE s \cup {x} \in T
  <2>1. CASE s = {}
    <3>1. Best(s \cup {x}, x)
      BY <1>2, <2>1
    <3> QED  BY <3>1
  <2>2. ASSUME NEW i \in D, Best(s, i) PROVE s \cup {x} \in T
    <3>1. CASE c[x].rarity <= c[i].rarity
      <4>1. Best(s \cup {x}, i)
        BY <1>2, <2>2, <3>1
      <4> QED  BY <4>1
    <3>2. CASE c[x].rarity > c[i].rarity
      <4>1. Best(s \cup {x}, x)
        BY <1>2, <2>2, <3>2
      <4> QED  BY <4>1
    <3>3. c[x].rarity \in Nat /\ c[i].rarity \in Nat
      BY <1>2, <2>2
    <3>4. c[x].rarity <= c[i].rarity \/ c[x].rarity > c[i].rarity
      BY <3>3
    <3> QED  BY <3>1, <3>2, <3>4, Zenon
  <2> QED  BY <1>5, <2>1, <2>2
<1>6. D \in T
  <2> HIDE DEF T
  <2> QED  BY <1>1, <1>4, <1>5, FiniteInduction
<1>7. PICK h \in D : \A j \in D : c[j].rarity <= c[h].rarity
  BY <1>3, <1>6
<1> DEFINE M == {i \in D : c[i].rarity = c[h].rarity}
           R == OpToRel(<, Nat)
<1>8. PICK i \in M : \A j \in M : ~ (<<j, i>> \in R)
  <2>1. M \subseteq Nat /\ M # {}
    BY <1>1
  <2>2. IsWellFoundedOn(R, Nat)
    BY NatLessThanWellFounded
  <2> HIDE DEF M, R
  <2> QED  BY <2>1, <2>2, WFMin
<1>9. \A j \in M : i <= j
  <2>1. \A j \in M : j \in Nat /\ i \in Nat
    BY <1>1
  <2>2. ASSUME NEW j \in M, j < i PROVE FALSE
    <3>1. <<j, i>> \in R
      BY <2>1, <2>2 DEF OpToRel
    <3> QED  BY <1>8, <3>1
  <2> HIDE DEF M
  <2> QED  BY <2>1, <2>2
<1>10. /\ i \in DOMAIN c
       /\ \A j \in DOMAIN c : /\ c[j].rarity <= c[i].rarity
                              /\ c[j].rarity = c[i].rarity => i <= j
  BY <1>7, <1>9
<1> QED  BY <1>10, Zenon DEF Top

-----------------------------------------------------------------------------
(* What a seat has earned. *)

(* What a division leaves, and one whole more goes once more into it.                *)
LEMMA DivLeaves ==
    ASSUME NEW n \in Nat, n > 0, NEW d \in Int
    PROVE  d = n * (d \div n) + (d % n)
BY Z3

(* A full chest more is one more in the quotient, and leaves the remainder. *)
LEMMA DivStep ==
    ASSUME NEW n \in Nat \ {0}, NEW d \in Int
    PROVE  /\ (d + n) % n = d % n /\ (d + n) \div n = (d \div n) + 1
           /\ d \div n \in Int
<1>1. d \div n \in Int /\ d % n \in Int /\ (d + n) % n \in Int
  OBVIOUS
<1>2. (d + n) \div n = (d \div n) + 1
  OBVIOUS
<1>3. d = n * (d \div n) + (d % n) /\ d + n = n * ((d + n) \div n) + ((d + n) % n)
  BY DivLeaves
<1> DEFINE q == d \div n
           k == d % n
           u == (d + n) % n
<1> HIDE DEF q, k, u
<1>4. q \in Int /\ k \in Int /\ u \in Int /\ d = n * q + k /\ d + n = n * (q + 1) + u
  BY <1>1, <1>2, <1>3 DEF q, k, u
<1>5. n * (q + 1) = n * q + n
  BY <1>4
<1>6. u = k
  BY <1>4, <1>5
<1> QED  BY <1>1, <1>2, <1>6 DEF k, u

MintRec ==
    [chests : Seq(Chest), since : [Rarities -> 0 .. FragsPerChest - 1], minted : 0 .. MintLimit]

(* noteCollect, field by field. *)
LEMMA NotedIs ==
    ASSUME NEW c, NEW t, NEW n, NEW r
    PROVE  Noted([chests |-> c, since |-> t, minted |-> n], r) =
               IF t[r] + 1 < FragsPerChest
               THEN [chests |-> c, since |-> [t EXCEPT ![r] = t[r] + 1], minted |-> n]
               ELSE [chests |-> Append(c, [rarity |-> r, since |-> now]), since |-> [t EXCEPT ![r] = 0],
                     minted |-> n]
<1> DEFINE m == [chests |-> c, since |-> t, minted |-> n]
           more == [t EXCEPT ![r] = t[r] + 1]
           none == [t EXCEPT ![r] = 0]
           d == Append(c, [rarity |-> r, since |-> now])
<1>1. Noted(m, r) = IF t[r] + 1 < FragsPerChest THEN [m EXCEPT !.since = more]
                    ELSE [m EXCEPT !.since = none, !.chests = d]
  BY DEF Noted
<1> HIDE DEF more, none, d
<1>2. [m EXCEPT !.since = more] = [chests |-> c, since |-> more, minted |-> n]
  OBVIOUS
<1> DEFINE k == [m EXCEPT !.since = none]
<1>3. k = [chests |-> c, since |-> none, minted |-> n]
  OBVIOUS
<1>4. [m EXCEPT !.since = none, !.chests = d] = [k EXCEPT !.chests = d]
  OBVIOUS
<1> HIDE DEF k
<1>5. [k EXCEPT !.chests = d] = [chests |-> d, since |-> none, minted |-> n]
  BY <1>3
<1> QED  BY <1>1, <1>2, <1>4, <1>5 DEF more, none, d

(* What a mint leaves, field by field. *)
LEMMA MintedIs ==
    ASSUME NEW c, NEW t, NEW n, NEW d
    PROVE  [[chests |-> c, since |-> t, minted |-> n] EXCEPT !.minted = n + 1, !.chests = d]
               = [chests |-> d, since |-> t, minted |-> n + 1]
<1> DEFINE m == [chests |-> c, since |-> t, minted |-> n]
           k == [m EXCEPT !.minted = n + 1]
<1>1. k = [chests |-> c, since |-> t, minted |-> n + 1]
  OBVIOUS
<1>2. [m EXCEPT !.minted = n + 1, !.chests = d] = [k EXCEPT !.chests = d]
  OBVIOUS
<1> HIDE DEF k
<1>3. [k EXCEPT !.chests = d] = [chests |-> d, since |-> t, minted |-> n + 1]
  BY <1>1
<1> QED  BY <1>2, <1>3

(* The mints of a rarity that bag and chests still tell of, and what a seat with them   *)
(* has a right to.                                                                  *)
Made(b, m, r) == ((b[r] - m.since[r]) \div FragsPerChest) - Cardinality(ChestsOf(m.chests, r))
SeatPrice(b, m, r) == FragPoints * b[r] + MintPoints[r] * Made(b, m, r)
SeatEarned(b, m, p) ==
    /\ \A r \in Rarities : (b[r] - m.since[r]) % FragsPerChest = 0 /\ Made(b, m, r) >= 0
    /\ m.minted = SumFunction([r \in Rarities |-> Made(b, m, r)])
    /\ p = SumFunction([r \in Rarities |-> SeatPrice(b, m, r)])

(* What the sums are over is finite, and what is multiplied are numbers. *)
LEMMA RaritiesFinite ==
    /\ IsFiniteSet(Rarities) /\ Rarities \subseteq Nat
    /\ IsFiniteSet(Seats) /\ FragsPerChest \in Nat \ {0} /\ FragPoints \in Nat
    /\ \A r \in Rarities : MintPoints[r] \in Nat
<1> DEFINE g == [f \in Frags |-> RarityOf[f]]
<1>1. g \in Surjection(Frags, Rarities)
  BY DEF Rarities, Surjection
<1>2. IsFiniteSet(Rarities)
  BY <1>1, FS_Surjection, RoundAssumption DEF RoundAssumption
<1>3. IsFiniteSet(Seats)
  BY FS_Union, RoundAssumption DEF RoundAssumption, Seats
<1> QED  BY <1>2, <1>3, RoundAssumption DEF RoundAssumption

(* What a seat has minted of a rarity, and its price, are integers. *)
LEMMA MadeType ==
    ASSUME NEW b \in [Rarities -> Nat], NEW m \in MintRec, NEW r \in Rarities
    PROVE  /\ b[r] \in Nat /\ m.since[r] \in 0 .. FragsPerChest - 1
           /\ Made(b, m, r) \in Int /\ SeatPrice(b, m, r) \in Int
<1>1. b[r] \in Nat /\ m.since[r] \in 0 .. FragsPerChest - 1
  BY DEF MintRec
<1>2. (b[r] - m.since[r]) \div FragsPerChest \in Int
  BY <1>1, RaritiesFinite
<1>3. Cardinality(ChestsOf(m.chests, r)) \in Nat
  BY ChestsFinite DEF MintRec
<1>4. Made(b, m, r) \in Int
  BY <1>2, <1>3 DEF Made
<1>5. MintPoints[r] * Made(b, m, r) \in Int /\ FragPoints * b[r] \in Int
  BY <1>1, <1>4, RaritiesFinite
<1> QED  BY <1>1, <1>4, <1>5 DEF SeatPrice

(* A mint record is its three fields. *)
LEMMA MintFields ==
    ASSUME NEW m \in MintRec
    PROVE  \E c \in Seq(Chest), t \in [Rarities -> 0 .. FragsPerChest - 1], n \in 0 .. MintLimit :
               m = [chests |-> c, since |-> t, minted |-> n]
BY DEF MintRec

(* A claim earns its fragment, and a chest with every third of a rarity: what has been    *)
(* minted stays what it was.                                                         *)
LEMMA ClaimEarns ==
    ASSUME now \in Nat, NEW b \in [Rarities -> Nat], NEW m \in MintRec, NEW p, NEW r \in Rarities,
           SeatEarned(b, m, p)
    PROVE  /\ Noted(m, r) \in MintRec
           /\ SeatEarned([b EXCEPT ![r] = @ + 1], Noted(m, r), p + FragPoints)
           /\ \A q \in Rarities : Made([b EXCEPT ![r] = @ + 1], Noted(m, r), q) = Made(b, m, q)
<1>1. PICK c \in Seq(Chest), t \in [Rarities -> 0 .. FragsPerChest - 1], n \in 0 .. MintLimit :
          m = [chests |-> c, since |-> t, minted |-> n]
  BY MintFields
<1> DEFINE d == [b EXCEPT ![r] = @ + 1]
           k == Noted(m, r)
           x == [rarity |-> r, since |-> now]
<1>2. /\ d \in [Rarities -> Nat] /\ d[r] = b[r] + 1 /\ \A q \in Rarities \ {r} : d[q] = b[q]
  OBVIOUS
<1>3. /\ FragsPerChest \in Nat \ {0} /\ FragPoints \in Nat /\ IsFiniteSet(Rarities)
      /\ \A q \in Rarities : MintPoints[q] \in Nat
  BY RaritiesFinite
<1>4. x \in Chest /\ x.rarity = r
  BY DEF Chest
<1>5. \A q \in Rarities : b[q] \in Nat /\ t[q] \in 0 .. FragsPerChest - 1
  OBVIOUS
<1>6. /\ k \in MintRec /\ k.minted = n
      /\ \A q \in Rarities : /\ (d[q] - k.since[q]) % FragsPerChest = (b[q] - t[q]) % FragsPerChest
                             /\ Made(d, k, q) = Made(b, m, q)
  <2>1. CASE t[r] + 1 < FragsPerChest
    <3> DEFINE u == [t EXCEPT ![r] = t[r] + 1]
    <3>1. k = [chests |-> c, since |-> u, minted |-> n]
      BY <1>1, <2>1, NotedIs
    <3>2. u \in [Rarities -> 0 .. FragsPerChest - 1]
      BY <1>3, <1>5, <2>1
    <3>3. \A q \in Rarities : d[q] - u[q] = b[q] - t[q]
      BY <1>2, <1>5
    <3> HIDE DEF k, u, d
    <3>4. k \in MintRec /\ k.minted = n /\ k.since = u /\ k.chests = c
      BY <3>1, <3>2 DEF MintRec
    <3> QED  BY <1>1, <3>3, <3>4 DEF Made
  <2>2. CASE ~ (t[r] + 1 < FragsPerChest)
    <3> DEFINE u == [t EXCEPT ![r] = 0]
               e == Append(c, x)
    <3>1. k = [chests |-> e, since |-> u, minted |-> n]
      <4>1. Noted([chests |-> c, since |-> t, minted |-> n], r) =
                IF t[r] + 1 < FragsPerChest
                THEN [chests |-> c, since |-> [t EXCEPT ![r] = t[r] + 1], minted |-> n]
                ELSE [chests |-> e, since |-> u, minted |-> n]
        BY NotedIs
      <4> HIDE DEF u, e
      <4> QED  BY <1>1, <2>2, <4>1
    <3>2. u \in [Rarities -> 0 .. FragsPerChest - 1]
      BY <1>3, <1>5
    <3>3. \A q \in Rarities : d[q] - u[q] = (b[q] - t[q]) + (IF q = r THEN FragsPerChest ELSE 0)
      BY <1>2, <1>3, <1>5, <2>2
    <3>4. /\ e \in Seq(Chest)
          /\ \A q : Cardinality(ChestsOf(e, q)) = Cardinality(ChestsOf(c, q)) + (IF q = r THEN 1 ELSE 0)
      BY <1>4, ChestAppears
    <3> HIDE DEF k, u, d, e
    <3>5. k \in MintRec /\ k.minted = n /\ k.since = u /\ k.chests = e
      BY <3>1, <3>2, <3>4 DEF MintRec
    <3>6. ASSUME NEW q \in Rarities
          PROVE  /\ (d[q] - k.since[q]) % FragsPerChest = (b[q] - t[q]) % FragsPerChest
                 /\ Made(d, k, q) = Made(b, m, q)
      <4> DEFINE diff == b[q] - t[q]
                 size == Cardinality(ChestsOf(c, q))
      <4>1. diff \in Int /\ size \in Nat
        BY <1>5, ChestsFinite
      <4>2. Made(b, m, q) = (diff \div FragsPerChest) - size
        BY <1>1 DEF Made
      <4>3. Made(d, k, q) = ((d[q] - u[q]) \div FragsPerChest) - Cardinality(ChestsOf(e, q))
        BY <3>5 DEF Made
      <4>4. d[q] - u[q] = diff + (IF q = r THEN FragsPerChest ELSE 0)
        BY <3>3
      <4>5. Cardinality(ChestsOf(e, q)) = size + (IF q = r THEN 1 ELSE 0)
        BY <3>4
      <4>6. k.since[q] = u[q]
        BY <3>5
      <4> HIDE DEF diff, size
      <4>7. CASE q = r
        <5>1. /\ (diff + FragsPerChest) % FragsPerChest = diff % FragsPerChest
              /\ (diff + FragsPerChest) \div FragsPerChest = (diff \div FragsPerChest) + 1
              /\ diff \div FragsPerChest \in Int
          BY <1>3, <4>1, DivStep
        <5>2. Made(d, k, q) = Made(b, m, q)
          BY <4>1, <4>2, <4>3, <4>4, <4>5, <4>7, <5>1
        <5>3. (d[q] - k.since[q]) % FragsPerChest = diff % FragsPerChest
          BY <4>4, <4>6, <4>7, <5>1
        <5> QED  BY <5>2, <5>3 DEF diff
      <4>8. CASE q # r
        <5>1. d[q] - u[q] = diff /\ Cardinality(ChestsOf(e, q)) = size
          BY <4>1, <4>4, <4>5, <4>8
        <5> QED  BY <4>2, <4>3, <4>6, <5>1 DEF diff
      <4> QED  BY <4>7, <4>8
    <3> QED  BY <3>5, <3>6
  <2> QED  BY <2>1, <2>2
<1> HIDE DEF d, k
<1>7. /\ \A q \in Rarities : (b[q] - t[q]) % FragsPerChest = 0 /\ Made(b, m, q) >= 0
      /\ n = SumFunction([q \in Rarities |-> Made(b, m, q)])
      /\ p = SumFunction([q \in Rarities |-> SeatPrice(b, m, q)])
  BY <1>1 DEF SeatEarned
<1>8. [q \in Rarities |-> Made(d, k, q)] = [q \in Rarities |-> Made(b, m, q)]
  BY <1>6
<1>9. SumFunction([q \in Rarities |-> SeatPrice(d, k, q)]) = p + FragPoints
  <2> DEFINE f == [q \in Rarities |-> SeatPrice(b, m, q)]
             g == [q \in Rarities |-> SeatPrice(d, k, q)]
  <2>1. \A q \in Rarities : f[q] \in Int /\ g[q] \in Int
    BY <1>2, <1>6, MadeType
  <2>2. \A q \in Rarities \ {r} : f[q] = g[q]
    BY <1>2, <1>6 DEF SeatPrice
  <2>3. g[r] = f[r] + FragPoints
    <3>1. Made(b, m, r) \in Int
      BY MadeType
    <3>2. FragPoints * (b[r] + 1) = FragPoints * b[r] + FragPoints
      BY <1>3, <1>5
    <3>3. MintPoints[r] * Made(b, m, r) \in Int /\ FragPoints * b[r] \in Int
      BY <1>3, <1>5, <3>1
    <3>4. g[r] = FragPoints * (b[r] + 1) + MintPoints[r] * Made(b, m, r)
      BY <1>2, <1>6 DEF SeatPrice
    <3>5. f[r] = FragPoints * b[r] + MintPoints[r] * Made(b, m, r)
      BY DEF SeatPrice
    <3> HIDE DEF f, g
    <3> QED  BY <1>3, <3>2, <3>3, <3>4, <3>5
  <2>4. DOMAIN f = Rarities /\ DOMAIN g = Rarities
    OBVIOUS
  <2> HIDE DEF f, g
  <2>5. Sum(g, Rarities) = Sum(f, Rarities) - f[r] + g[r]
    <3>1. IsFiniteSet(Rarities)
      BY <1>3
    <3> QED  BY <2>1, <2>2, <3>1, SumChange, SMTT(60)
  <2>6. Sum(f, Rarities) \in Int
    BY <1>3, <2>1, SumType
  <2>7. Sum(f, Rarities) = p
    BY <1>7, <2>4 DEF f
  <2> QED  BY <1>3, <2>1, <2>3, <2>4, <2>5, <2>6, <2>7 DEF g
<1>10. SeatEarned(d, k, p + FragPoints)
  <2>1. \A q \in Rarities : (d[q] - k.since[q]) % FragsPerChest = 0 /\ Made(d, k, q) >= 0
    BY <1>6, <1>7
  <2>2. k.minted = SumFunction([q \in Rarities |-> Made(d, k, q)])
    BY <1>6, <1>7, <1>8
  <2> QED  BY <1>9, <2>1, <2>2 DEF SeatEarned
<1> QED  BY <1>6, <1>10 DEF d, k

(* The fields of a record of mints. *)
LEMMA MintOf ==
    ASSUME NEW c, NEW t, NEW n, NEW k, k = [chests |-> c, since |-> t, minted |-> n]
    PROVE  k.chests = c /\ k.since = t /\ k.minted = n
OBVIOUS

TopTaken(m) == [m EXCEPT !.minted = m.minted + 1, !.chests = Without(m.chests, Top(m.chests))]

TopRarity(m) == m.chests[Top(m.chests)].rarity

(* A mint takes one chest, counts once and pays its rarity's price.                 *)
LEMMA MintEarns ==
    ASSUME NEW b \in [Rarities -> Nat], NEW m \in MintRec, NEW p,
           SeatEarned(b, m, p), m.minted < MintLimit, m.chests # <<>>
    PROVE  /\ TopTaken(m) \in MintRec /\ TopRarity(m) \in Rarities
           /\ SeatEarned(b, TopTaken(m), p + MintPoints[TopRarity(m)])
           /\ \A q \in Rarities :
                 Made(b, TopTaken(m), q) = Made(b, m, q) + (IF q = TopRarity(m) THEN 1 ELSE 0)
<1>1. PICK c \in Seq(Chest), t \in [Rarities -> 0 .. FragsPerChest - 1], n \in 0 .. MintLimit :
          m = [chests |-> c, since |-> t, minted |-> n]
  BY MintFields
<1> DEFINE i == Top(c)
           d == Without(c, i)
           k == TopTaken(m)
           r == TopRarity(m)
<1>2. m.chests = c /\ m.since = t /\ m.minted = n
  BY <1>1
<1>3. /\ FragsPerChest \in Nat \ {0} /\ FragPoints \in Nat /\ IsFiniteSet(Rarities)
      /\ \A q \in Rarities : MintPoints[q] \in Nat
  BY RaritiesFinite
<1>4. i \in DOMAIN c
  BY <1>2, RaritiesFinite, TopIsChest
<1>5. r \in Rarities /\ r = c[i].rarity
  BY <1>2, <1>4, ChestsFinite DEF Chest, TopRarity
<1>6. /\ d \in Seq(Chest)
      /\ \A q : Cardinality(ChestsOf(d, q)) = Cardinality(ChestsOf(c, q)) - (IF q = r THEN 1 ELSE 0)
  BY <1>4, <1>5, ChestGoes
<1>7. k = [chests |-> d, since |-> t, minted |-> n + 1]
  <2>1. k = [[chests |-> c, since |-> t, minted |-> n] EXCEPT !.minted = n + 1, !.chests = d]
    BY <1>1, <1>2 DEF TopTaken
  <2> HIDE DEF d, i
  <2> QED  BY <2>1, MintedIs
<1> HIDE DEF d, i, k, r
<1>8. k.chests = d /\ k.since = t /\ k.minted = n + 1
  BY <1>7, MintOf
<1>r. r \in Rarities
  BY <1>5
<1>9. n + 1 \in 0 .. MintLimit
  BY <1>2, RoundAssumption DEF RoundAssumption
<1>10. k \in MintRec
  BY <1>6, <1>7, <1>9 DEF MintRec
<1>11. ASSUME NEW q \in Rarities PROVE Made(b, k, q) = Made(b, m, q) + (IF q = r THEN 1 ELSE 0)
  <2> DEFINE u == (b[q] - t[q]) \div FragsPerChest
             x == Cardinality(ChestsOf(c, q))
             y == Cardinality(ChestsOf(d, q))
  <2>1. u \in Int
    <3>1. b[q] - t[q] \in Int
      OBVIOUS
    <3> QED  BY <1>3, <3>1
  <2>2. x \in Nat /\ y \in Nat
    BY <1>6, ChestsFinite
  <2>3. Made(b, k, q) = u - y /\ Made(b, m, q) = u - x
    BY <1>2, <1>8 DEF Made
  <2>4. y = x - (IF q = r THEN 1 ELSE 0)
    BY <1>6
  <2> HIDE DEF u, x, y
  <2> QED  BY <2>1, <2>2, <2>3, <2>4
<1>12. /\ \A q \in Rarities : (b[q] - t[q]) % FragsPerChest = 0 /\ Made(b, m, q) >= 0
       /\ n = SumFunction([q \in Rarities |-> Made(b, m, q)])
       /\ p = SumFunction([q \in Rarities |-> SeatPrice(b, m, q)])
  BY <1>2 DEF SeatEarned
<1>13. \A q \in Rarities : Made(b, m, q) \in Int /\ Made(b, k, q) \in Int
  BY <1>10, MadeType
<1>14. n + 1 = SumFunction([q \in Rarities |-> Made(b, k, q)])
  <2> DEFINE f == [q \in Rarities |-> Made(b, m, q)]
             g == [q \in Rarities |-> Made(b, k, q)]
  <2>1. \A q \in Rarities : f[q] \in Int /\ g[q] \in Int
    BY <1>13
  <2>2. \A q \in Rarities \ {r} : f[q] = g[q]
    BY <1>11, <1>13
  <2>3. g[r] = f[r] + 1
    BY <1>5, <1>11
  <2>4. DOMAIN f = Rarities /\ DOMAIN g = Rarities
    OBVIOUS
  <2>5. Sum(f, Rarities) = n
    BY <1>12, <2>4 DEF f
  <2> HIDE DEF f, g
  <2>6. Sum(g, Rarities) = Sum(f, Rarities) - f[r] + g[r]
    <3>1. IsFiniteSet(Rarities)
      BY <1>3
    <3> QED  BY <1>r, <2>1, <2>2, <3>1, SumChange, SMTT(60)
  <2>7. Sum(g, Rarities) = n + 1
    <3>1. f[r] \in Int /\ n \in Int
      BY <1>5, <2>1
    <3> QED  BY <2>3, <2>5, <2>6, <3>1
  <2> QED  BY <2>4, <2>7 DEF g
<1>15. p + MintPoints[r] = SumFunction([q \in Rarities |-> SeatPrice(b, k, q)])
  <2> DEFINE f == [q \in Rarities |-> SeatPrice(b, m, q)]
             g == [q \in Rarities |-> SeatPrice(b, k, q)]
  <2>1. \A q \in Rarities : f[q] \in Int /\ g[q] \in Int
    BY <1>10, MadeType
  <2>2. \A q \in Rarities \ {r} : f[q] = g[q]
    BY <1>11, <1>13 DEF SeatPrice
  <2>3. g[r] = f[r] + MintPoints[r]
    <3> DEFINE v == Made(b, m, r)
    <3>1. v \in Int /\ Made(b, k, r) = v + 1
      BY <1>5, <1>11, <1>13
    <3>2. f[r] = FragPoints * b[r] + MintPoints[r] * v /\ g[r] = FragPoints * b[r] + MintPoints[r] * (v + 1)
      BY <1>5, <3>1 DEF SeatPrice
    <3> HIDE DEF v, f, g
    <3>3. MintPoints[r] \in Nat
      BY <1>3, <1>5
    <3>4. b[r] \in Nat
      BY <1>5
    <3>5. FragPoints * b[r] \in Int
      BY <1>3, <3>4
    <3>6. MintPoints[r] * (v + 1) = MintPoints[r] * v + MintPoints[r] /\ MintPoints[r] * v \in Int
      <4> DEFINE e == MintPoints[r]
      <4>1. e \in Nat /\ v \in Int
        BY <3>1, <3>3
      <4> HIDE DEF e
      <4>2. e * (v + 1) = e * v + e /\ e * v \in Int
        BY <4>1
      <4> QED  BY <4>2 DEF e
    <3> QED  BY <3>2, <3>3, <3>5, <3>6
  <2>4. DOMAIN f = Rarities /\ DOMAIN g = Rarities
    OBVIOUS
  <2>5. Sum(f, Rarities) = p
    BY <1>12, <2>4 DEF f
  <2> HIDE DEF f, g
  <2>6. Sum(g, Rarities) = Sum(f, Rarities) - f[r] + g[r]
    <3>1. IsFiniteSet(Rarities)
      BY <1>3
    <3> QED  BY <1>r, <2>1, <2>2, <3>1, SumChange, SMTT(60)
  <2>7. Sum(g, Rarities) = p + MintPoints[r]
    <3>1. f[r] \in Int /\ Sum(f, Rarities) \in Int /\ MintPoints[r] \in Nat
      <4>1. IsFiniteSet(Rarities)
        BY <1>3
      <4>2. Sum(f, Rarities) \in Int
        BY <2>1, <4>1, SumType
      <4> QED  BY <1>3, <1>5, <2>1, <4>2
    <3> QED  BY <2>3, <2>5, <2>6, <3>1
  <2> QED  BY <2>4, <2>7 DEF g
<1>16. \A q \in Rarities : (b[q] - k.since[q]) % FragsPerChest = 0 /\ Made(b, k, q) >= 0
  <2> TAKE q \in Rarities
  <2>1. Made(b, k, q) >= 0
    <3>1. Made(b, k, q) = Made(b, m, q) + (IF q = r THEN 1 ELSE 0)
      BY <1>11
    <3>2. Made(b, m, q) \in Int /\ Made(b, m, q) >= 0
      BY <1>12, <1>13
    <3> QED  BY <3>1, <3>2
  <2> QED  BY <1>8, <1>12, <2>1
<1>17. SeatEarned(b, k, p + MintPoints[r])
  BY <1>8, <1>14, <1>15, <1>16 DEF SeatEarned
<1> QED  BY <1>5, <1>10, <1>11, <1>17 DEF k, r

-----------------------------------------------------------------------------
(* The types of a round, and what changes in it. *)

(* What is counted of a seat changes in two ways only: by a claim of a free fragment   *)
(* and by a mint of a chest; a report replaces the count a client shows.              *)
SeatClaims(s, f) == frags[f].by = NoOne /\ ~Full(s) /\ Claim(s, f)
SeatMints(s) == mint[s].minted < MintLimit /\ mint[s].chests # <<>> /\ MintTop(s)
SeatKeeps == UNCHANGED <<frags, bag, score, mint>>
SeatStep ==
    \/ \E s \in Seats, f \in Frags : SeatClaims(s, f)
    \/ \E s \in Seats : SeatMints(s)
    \/ SeatKeeps /\ \/ fragCount' = fragCount
                    \/ \E h \in Humans, fc \in Reports : fragCount' = [fragCount EXCEPT ![h] = fc]

BotTurns == (Bots \X {"move", "mint"}) \cup {<<NoOne, "end">>}
CoreTypeOK ==
    /\ now \in Nat
    /\ frags \in [Frags -> [at : Places, by : Seats \cup {NoOne}]]
    /\ bag \in [Seats -> [Rarities -> Nat]]
    /\ fragCount \in [Seats -> 0 .. MaxFrags] /\ score \in [Seats -> Nat]
    /\ mint \in [Seats -> MintRec]
FrameTypeOK ==
    /\ status \in {"active", "ended"}
    /\ live \subseteq Seats
    /\ pos \in [Seats -> Places] /\ shadow \in [Seats -> {0, 1}]
    /\ turn \in Seq(BotTurns)
    /\ world \subseteq [id : Frags, at : Places]
    /\ refusal.to \in Seats \cup {NoOne}

(* The type invariant, split in what is counted and the rest. *)
LEMMA RoundTypes == RoundTypeOK <=> CoreTypeOK /\ FrameTypeOK
BY Zenon DEF RoundTypeOK, CoreTypeOK, FrameTypeOK, MintRec, BotTurns

(* A collect of a fragment is a claim or leaves every count as it is *)
(* (collectFragment).                                                *)
LEMMA CollectStep ==
    ASSUME NEW s \in Seats, NEW f \in Frags, Collect(s, f)
    PROVE  /\ SeatStep /\ refusal'.to \in {s, NoOne}
           /\ SeatClaims(s, f) \/ UNCHANGED <<frags, seatVars>>
<1>1. CASE Claimable(s, f) /\ Claim(s, f) /\ refusal' = NoRefusal
  <2>1. frags[f].by = NoOne /\ ~Full(s)
    BY <1>1 DEF Claimable, RefusalOf
  <2> QED  BY <1>1, <2>1 DEF SeatClaims, SeatStep, NoRefusal
<1>2. CASE UNCHANGED <<frags, seatVars>> /\ refusal' = NoRefusal
  BY <1>2 DEF SeatStep, SeatKeeps, seatVars, NoRefusal
<1>3. CASE UNCHANGED <<frags, seatVars>> /\ Refuse(s, RefusalOf(s, f))
  BY <1>3 DEF SeatStep, SeatKeeps, seatVars, Refuse
<1> QED  BY <1>1, <1>2, <1>3 DEF Collect

(* A mint request is a mint or leaves every count as it is (completeMint). *)
LEMMA MintsStep ==
    ASSUME NEW s \in Seats, mint[s] \in MintRec, Mint(s)
    PROVE  SeatStep /\ refusal'.to \in {s, NoOne}
<1>1. CASE MintRefusal(mint[s]) = "none" /\ MintTop(s) /\ refusal' = NoRefusal
  <2>1. mint[s].minted \in Nat /\ MintLimit \in Nat
    BY RoundAssumption DEF MintRec, RoundAssumption
  <2>2. mint[s].minted < MintLimit /\ mint[s].chests # <<>>
    BY <1>1, <2>1 DEF MintRefusal
  <2> QED  BY <1>1, <2>2 DEF SeatMints, SeatStep, NoRefusal
<1>2. CASE UNCHANGED <<frags, seatVars>> /\ Refuse(s, MintRefusal(mint[s]))
  BY <1>2 DEF SeatStep, SeatKeeps, seatVars, Refuse
<1> QED  BY <1>1, <1>2 DEF Mint

(* The bots' turns of a tick, one after the other. *)
LEMMA TurnsType == Turns(BotOrder) \in Seq(BotTurns)
<1>1. Len(BotOrder) \in Nat /\ \A i \in 1 .. Len(BotOrder) : BotOrder[i] \in Bots
  BY RoundAssumption DEF RoundAssumption
<1> DEFINE n == 2 * Len(BotOrder) + 1
<1>2. ASSUME NEW i \in 1 .. n PROVE Turns(BotOrder)[i] \in BotTurns
  <2>1. CASE i > 2 * Len(BotOrder)
    BY <2>1 DEF Turns, BotTurns
  <2>2. CASE i <= 2 * Len(BotOrder)
    <3>1. (i + 1) \div 2 \in 1 .. Len(BotOrder)
      BY <1>1, <2>2
    <3>2. BotOrder[(i + 1) \div 2] \in Bots
      BY <1>1, <3>1
    <3> QED  BY <1>1, <2>2, <3>2 DEF Turns, BotTurns
  <2> QED  BY <1>1, <2>1, <2>2
<1>3. Turns(BotOrder) \in [1 .. n -> BotTurns]
  <2>1. Turns(BotOrder) = [i \in 1 .. n |-> Turns(BotOrder)[i]]
    BY DEF Turns
  <2> QED  BY <1>2, <2>1
<1>4. n \in Nat
  BY <1>1
<1> HIDE DEF n
<1> QED  BY <1>3, <1>4

(* What is left of the bots' turn. *)
LEMMA RestOfTurn ==
    ASSUME turn \in Seq(BotTurns), turn # <<>>
    PROVE  Tail(turn) \in Seq(BotTurns) /\ Head(turn) \in BotTurns
OBVIOUS

(* Every step of a round, on the counted and on the rest. *)
LEMMA EveryStep ==
    ASSUME RoundTypeOK, [RoundNext]_roundVars
    PROVE  SeatStep /\ FrameTypeOK' /\ now' \in Nat
<1>1. CoreTypeOK /\ FrameTypeOK
  BY RoundTypes
<1>2. NoRefusal.to = NoOne
  BY DEF NoRefusal
<1>3. CASE UNCHANGED roundVars
  BY <1>1, <1>3 DEF roundVars, placeVars, seatVars, SeatStep, SeatKeeps, CoreTypeOK, FrameTypeOK
<1>4. ASSUME NEW h \in Humans, NEW place \in Places, NEW sh \in {0, 1}, NEW fc \in Reports,
             Pos(h, place, sh, fc)
      PROVE  SeatStep /\ FrameTypeOK' /\ now' \in Nat
  <2>1. h \in Seats
    BY DEF Seats
  <2>2. SeatStep
    BY <1>4 DEF Pos, SeatStep, SeatKeeps
  <2>3. pos' \in [Seats -> Places] /\ shadow' \in [Seats -> {0, 1}]
    BY <1>1, <1>4 DEF Pos, FrameTypeOK
  <2> QED  BY <1>1, <1>2, <1>4, <2>2, <2>3 DEF Pos, CoreTypeOK, FrameTypeOK
<1>5. ASSUME NEW h \in Humans, NEW f \in Frags, FragCollected(h, f)
      PROVE  SeatStep /\ FrameTypeOK' /\ now' \in Nat
  <2>1. h \in Seats
    BY DEF Seats
  <2>2. SeatStep /\ refusal'.to \in {h, NoOne}
    BY <1>5, <2>1, CollectStep DEF FragCollected
  <2> QED  BY <1>1, <1>5, <2>1, <2>2 DEF FragCollected, placeVars, CoreTypeOK, FrameTypeOK
<1>6. ASSUME NEW h \in Humans, MintDone(h)
      PROVE  SeatStep /\ FrameTypeOK' /\ now' \in Nat
  <2>1. h \in Seats /\ mint[h] \in MintRec
    BY <1>1 DEF Seats, CoreTypeOK
  <2>2. SeatStep /\ refusal'.to \in {h, NoOne}
    BY <1>6, <2>1, MintsStep DEF MintDone
  <2> QED  BY <1>1, <1>6, <2>1, <2>2 DEF MintDone, placeVars, CoreTypeOK, FrameTypeOK
<1>7. ASSUME NEW h \in Humans, Leave(h)
      PROVE  SeatStep /\ FrameTypeOK' /\ now' \in Nat
  BY <1>1, <1>2, <1>7
     DEF Leave, SeatStep, SeatKeeps, placeVars, seatVars, CoreTypeOK, FrameTypeOK
<1>8. CASE RoundTick
  <2>1. turn' \in Seq(BotTurns)
    BY <1>8, TurnsType DEF RoundTick
  <2>2. world' \subseteq [id : Frags, at : Places]
    BY <1>1, <1>8 DEF RoundTick, Unclaimed, CoreTypeOK
  <2>3. SeatStep
    BY <1>8 DEF RoundTick, SeatStep, SeatKeeps, seatVars
  <2> QED  BY <1>1, <1>2, <1>8, <2>1, <2>2, <2>3 DEF RoundTick, placeVars, CoreTypeOK, FrameTypeOK
<1>9. CASE RoundEnd
  BY <1>1, <1>2, <1>9
     DEF RoundEnd, SeatStep, SeatKeeps, placeVars, seatVars, CoreTypeOK, FrameTypeOK
<1>10. ASSUME NEW b \in Bots, BotMove(b)
       PROVE  SeatStep /\ FrameTypeOK' /\ now' \in Nat
  <2>1. b \in Seats
    BY DEF Seats
  <2>2. turn' \in Seq(BotTurns)
    <3>1. turn \in Seq(BotTurns) /\ turn # <<>> /\ turn' = Tail(turn)
      BY <1>1, <1>10 DEF BotMove, FrameTypeOK
    <3> QED  BY <3>1, RestOfTurn
  <2>3. CASE BotGoes(b)
    <3>1. SeatStep
      BY <2>3 DEF BotGoes, SeatStep, SeatKeeps, seatVars
    <3>2. pos' \in [Seats -> Places]
      BY <1>1, <2>3 DEF BotGoes, FrameTypeOK
    <3> QED  BY <1>1, <1>2, <1>10, <2>2, <2>3, <3>1, <3>2 DEF BotMove, BotGoes, CoreTypeOK, FrameTypeOK
  <2>4. ASSUME NEW w \in world, BotClaims(b, w)
        PROVE  SeatStep /\ FrameTypeOK' /\ now' \in Nat
    <3>1. w.id \in Frags /\ w.at \in Places
      BY <1>1 DEF FrameTypeOK
    <3>2. SeatStep /\ refusal'.to \in {b, NoOne}
      BY <2>1, <2>4, <3>1, CollectStep DEF BotClaims
    <3>3. pos' \in [Seats -> Places]
      BY <1>1, <2>4, <3>1 DEF BotClaims, FrameTypeOK
    <3>4. world' \subseteq [id : Frags, at : Places]
      BY <1>1, <2>4 DEF BotClaims, DropFromWorld, FrameTypeOK
    <3> QED  BY <1>1, <1>10, <2>1, <2>2, <3>2, <3>3, <3>4 DEF BotMove, CoreTypeOK, FrameTypeOK
  <2> QED  BY <1>10, <2>3, <2>4 DEF BotMove
<1>11. ASSUME NEW b \in Bots, BotMint(b)
       PROVE  SeatStep /\ FrameTypeOK' /\ now' \in Nat
  <2>1. b \in Seats /\ mint[b] \in MintRec
    BY <1>1 DEF Seats, CoreTypeOK
  <2>2. turn' \in Seq(BotTurns)
    <3>1. turn \in Seq(BotTurns) /\ turn # <<>> /\ turn' = Tail(turn)
      BY <1>1, <1>11 DEF BotMint, FrameTypeOK
    <3> QED  BY <3>1, RestOfTurn
  <2>3. CASE Mint(b) /\ world' = SeenAfterMint
    <3>1. SeatStep /\ refusal'.to \in {b, NoOne}
      BY <2>1, <2>3, MintsStep
    <3>2. frags' \in [Frags -> [at : Places, by : Seats \cup {NoOne}]]
      <4>1. CASE MintTop(b)
        <5> DEFINE r == TopRarity(mint[b])
        <5>1. Respawn(r)
          BY <4>1 DEF MintTop, TopRarity
        <5> HIDE DEF r
        <5> QED  BY <1>1, <5>1 DEF Respawn, CoreTypeOK
      <4>2. CASE UNCHANGED frags
        BY <1>1, <4>2 DEF CoreTypeOK
      <4> QED  BY <2>3, <4>1, <4>2 DEF Mint
    <3>3. world' \subseteq [id : Frags, at : Places]
      BY <2>3, <3>2 DEF SeenAfterMint, Unclaimed
    <3> QED  BY <1>1, <1>11, <2>1, <2>2, <3>1, <3>3 DEF BotMint, placeVars, CoreTypeOK, FrameTypeOK
  <2>4. CASE refusal' = NoRefusal /\ UNCHANGED <<frags, seatVars, world>>
    BY <1>1, <1>2, <1>11, <2>2, <2>4
       DEF BotMint, SeatStep, SeatKeeps, placeVars, seatVars, CoreTypeOK, FrameTypeOK
  <2> QED  BY <1>11, <2>3, <2>4 DEF BotMint
<1>12. CASE HumanNext
  BY <1>4, <1>5, <1>6, <1>7, <1>12 DEF HumanNext
<1> QED  BY <1>3, <1>8, <1>9, <1>10, <1>11, <1>12 DEF RoundNext

-----------------------------------------------------------------------------
(* Scores. *)

Earning == \A s \in Seats : SeatEarned(bag[s], mint[s], score[s])
ScoreInv == RoundTypeOK /\ Earning

(* A fresh seat has nothing. *)
LEMMA FreshSeat ==
    ASSUME NEW b, b = [r \in Rarities |-> 0]
    PROVE  /\ NewSeatMint \in MintRec /\ SeatEarned(b, NewSeatMint, 0)
           /\ \A r \in Rarities : Made(b, NewSeatMint, r) = 0
<1>1. FragsPerChest \in Nat \ {0} /\ MintLimit \in Nat /\ FragPoints \in Nat
  BY RoundAssumption DEF RoundAssumption
<1>2. NewSeatMint \in MintRec
  <2> DEFINE t == [r \in Rarities |-> 0]
  <2>1. t \in [Rarities -> 0 .. FragsPerChest - 1] /\ 0 \in 0 .. MintLimit
    BY <1>1
  <2>2. NewSeatMint = [chests |-> <<>>, since |-> t, minted |-> 0]
    BY DEF NewSeatMint
  <2>3. <<>> \in Seq(Chest)
    OBVIOUS
  <2> HIDE DEF t
  <2> QED  BY <2>1, <2>2, <2>3 DEF MintRec
<1>3. ASSUME NEW r \in Rarities
      PROVE  /\ (b[r] - NewSeatMint.since[r]) % FragsPerChest = 0
             /\ Made(b, NewSeatMint, r) = 0 /\ SeatPrice(b, NewSeatMint, r) = 0
  <2>1. b[r] = 0 /\ NewSeatMint.since[r] = 0 /\ NewSeatMint.chests = <<>>
    BY DEF NewSeatMint
  <2>2. 0 % FragsPerChest = 0 /\ 0 \div FragsPerChest = 0
    BY <1>1
  <2>3. ChestsOf(NewSeatMint.chests, r) = {}
    BY <2>1 DEF ChestsOf
  <2>4. Made(b, NewSeatMint, r) = 0
    BY <2>1, <2>2, <2>3, FS_EmptySet DEF Made
  <2>5. MintPoints[r] \in Nat
    BY RaritiesFinite
  <2>6. MintPoints[r] * 0 = 0 /\ FragPoints * 0 = 0
    BY <1>1, <2>5
  <2> QED  BY <2>1, <2>2, <2>4, <2>6 DEF SeatPrice
<1>4. IsFiniteSet(Rarities)
  BY RaritiesFinite
<1> DEFINE f == [r \in Rarities |-> Made(b, NewSeatMint, r)]
           g == [r \in Rarities |-> SeatPrice(b, NewSeatMint, r)]
<1>5. DOMAIN f = Rarities /\ DOMAIN g = Rarities /\ \A r \in Rarities : f[r] = 0 /\ g[r] = 0
  BY <1>3
<1>6. SumFunction(f) = 0 /\ SumFunction(g) = 0
  <2> HIDE DEF f, g
  <2>1. Sum(f, Rarities) = 0
    BY <1>4, <1>5, SumOfNothing
  <2>2. Sum(g, Rarities) = 0
    BY <1>4, <1>5, SumOfNothing
  <2> QED  BY <1>5, <2>1, <2>2
<1>7. NewSeatMint.minted = 0
  BY DEF NewSeatMint
<1> HIDE DEF f, g
<1>8. SeatEarned(b, NewSeatMint, 0)
  BY <1>3, <1>6, <1>7 DEF SeatEarned, f, g
<1> QED  BY <1>2, <1>3, <1>8

(* A round starts with nothing counted (startRound). *)
LEMMA ScoresStart == ASSUME RoundInit PROVE ScoreInv
<1> DEFINE none == [r \in Rarities |-> 0]
<1>1. /\ bag = [s \in Seats |-> none] /\ mint = [s \in Seats |-> NewSeatMint]
      /\ score = [s \in Seats |-> 0] /\ fragCount = [s \in Seats |-> 0]
  BY DEF RoundInit
<1>2. none \in [Rarities -> Nat]
  OBVIOUS
<1>3. NewSeatMint \in MintRec /\ SeatEarned(none, NewSeatMint, 0)
  BY FreshSeat
<1> HIDE DEF none
<1>4. Earning
  BY <1>1, <1>3 DEF Earning
<1>5. 0 \in 0 .. MaxFrags
  BY RoundAssumption DEF RoundAssumption
<1>6. frags \in [Frags -> [at : Places, by : Seats \cup {NoOne}]]
  BY DEF RoundInit
<1>7. CoreTypeOK
  BY <1>1, <1>2, <1>3, <1>5, <1>6 DEF CoreTypeOK, RoundInit
<1>8. FrameTypeOK
  BY DEF FrameTypeOK, RoundInit, NoRefusal
<1> QED  BY <1>4, <1>7, <1>8, RoundTypes DEF ScoreInv

(* A claim pays the seat the price of a fragment, and mints nothing. *)
LEMMA ClaimScores ==
    ASSUME ScoreInv, NEW s \in Seats, NEW f \in Frags, SeatClaims(s, f), now' \in Nat
    PROVE  /\ CoreTypeOK' /\ Earning'
           /\ \A q \in Seats, r \in Rarities : Made(bag'[q], mint'[q], r) = Made(bag[q], mint[q], r)
<1>1. CoreTypeOK /\ Earning
  BY RoundTypes DEF ScoreInv
<1> DEFINE r == RarityOf[f]
           b == [bag[s] EXCEPT ![r] = @ + 1]
           m == Noted(mint[s], r)
           p == score[s] + FragPoints
<1>2. r \in Rarities
  BY DEF Rarities
<1>3. bag[s] \in [Rarities -> Nat] /\ mint[s] \in MintRec /\ now \in Nat /\ score[s] \in Nat
  BY <1>1 DEF CoreTypeOK
<1>4. SeatEarned(bag[s], mint[s], score[s])
  BY <1>1 DEF Earning
<1>5. /\ m \in MintRec /\ SeatEarned(b, m, p)
      /\ \A q \in Rarities : Made(b, m, q) = Made(bag[s], mint[s], q)
  BY <1>2, <1>3, <1>4, ClaimEarns
<1>6. /\ bag' = [bag EXCEPT ![s] = b] /\ mint' = [mint EXCEPT ![s] = m] /\ score' = [score EXCEPT ![s] = p]
      /\ fragCount' = [fragCount EXCEPT ![s] = @ + 1] /\ frags' = [frags EXCEPT ![f].by = s]
  BY DEF SeatClaims, Claim
<1>a. FragPoints \in Nat
  BY RoundAssumption DEF RoundAssumption
<1>7. b \in [Rarities -> Nat] /\ p \in Nat
  BY <1>2, <1>3, <1>a
<1> HIDE DEF b, m, p, r
<1>8. /\ bag'[s] = b /\ mint'[s] = m /\ score'[s] = p
      /\ \A q \in Seats \ {s} : bag'[q] = bag[q] /\ mint'[q] = mint[q] /\ score'[q] = score[q]
      /\ bag' \in [Seats -> [Rarities -> Nat]] /\ mint' \in [Seats -> MintRec] /\ score' \in [Seats -> Nat]
  BY <1>1, <1>5, <1>6, <1>7 DEF CoreTypeOK
<1>9. fragCount' \in [Seats -> 0 .. MaxFrags]
  <2>1. fragCount[s] \in 0 .. MaxFrags /\ ~ (fragCount[s] >= MaxFrags) /\ MaxFrags \in Nat
    BY <1>1, RoundAssumption DEF SeatClaims, Full, CoreTypeOK, RoundAssumption
  <2>2. fragCount[s] + 1 \in 0 .. MaxFrags
    BY <2>1
  <2> QED  BY <1>1, <1>6, <2>2 DEF CoreTypeOK
<1>10. frags' \in [Frags -> [at : Places, by : Seats \cup {NoOne}]]
  BY <1>1, <1>6 DEF CoreTypeOK
<1>11. CoreTypeOK'
  BY <1>8, <1>9, <1>10 DEF CoreTypeOK
<1>12. Earning'
  BY <1>1, <1>5, <1>8 DEF Earning
<1> QED  BY <1>5, <1>8, <1>11, <1>12

(* A mint pays the seat the price of the chest it takes, and adds one mint of *)
(* its rarity.                                                                *)
LEMMA MintScores ==
    ASSUME ScoreInv, NEW s \in Seats, SeatMints(s), now' \in Nat
    PROVE  /\ CoreTypeOK' /\ Earning' /\ TopRarity(mint[s]) \in Rarities
           /\ \A q \in Seats, r \in Rarities :
                 Made(bag'[q], mint'[q], r) =
                     Made(bag[q], mint[q], r) + (IF q = s /\ r = TopRarity(mint[s]) THEN 1 ELSE 0)
<1>1. CoreTypeOK /\ Earning
  BY RoundTypes DEF ScoreInv
<1> DEFINE r == TopRarity(mint[s])
           m == TopTaken(mint[s])
           p == score[s] + MintPoints[r]
<1>2. bag[s] \in [Rarities -> Nat] /\ mint[s] \in MintRec /\ score[s] \in Nat
  BY <1>1 DEF CoreTypeOK
<1>3. SeatEarned(bag[s], mint[s], score[s]) /\ mint[s].minted < MintLimit /\ mint[s].chests # <<>>
  BY <1>1 DEF Earning, SeatMints
<1>4. /\ m \in MintRec /\ r \in Rarities /\ SeatEarned(bag[s], m, p)
      /\ \A q \in Rarities : Made(bag[s], m, q) = Made(bag[s], mint[s], q) + (IF q = r THEN 1 ELSE 0)
  BY <1>2, <1>3, MintEarns
<1>5. /\ mint' = [mint EXCEPT ![s] = m] /\ score' = [score EXCEPT ![s] = p]
      /\ UNCHANGED <<bag, fragCount>> /\ Respawn(r)
  <2>1. /\ mint' = [mint EXCEPT ![s].minted = @ + 1, ![s].chests = Without(@, Top(mint[s].chests))]
        /\ score' = [score EXCEPT ![s] = @ + MintPoints[r]] /\ UNCHANGED <<bag, fragCount>> /\ Respawn(r)
    BY DEF SeatMints, MintTop, TopRarity
  <2>2. mint' = [mint EXCEPT ![s] = m]
    BY <1>1, <2>1 DEF CoreTypeOK, TopTaken
  <2> QED  BY <2>1, <2>2
<1>6. p \in Nat
  <2>1. MintPoints[r] \in Nat
    BY <1>4, RaritiesFinite
  <2> HIDE DEF r
  <2> QED  BY <1>2, <2>1
<1> HIDE DEF r, m, p
<1>7. /\ mint'[s] = m /\ score'[s] = p
      /\ \A q \in Seats \ {s} : mint'[q] = mint[q] /\ score'[q] = score[q]
      /\ mint' \in [Seats -> MintRec] /\ score' \in [Seats -> Nat]
  BY <1>1, <1>4, <1>5, <1>6 DEF CoreTypeOK
<1>8. frags' \in [Frags -> [at : Places, by : Seats \cup {NoOne}]]
  BY <1>1, <1>5 DEF Respawn, CoreTypeOK
<1>9. CoreTypeOK'
  BY <1>1, <1>5, <1>7, <1>8 DEF CoreTypeOK
<1>10. Earning'
  BY <1>1, <1>4, <1>5, <1>7 DEF Earning
<1>11. ASSUME NEW q \in Seats, NEW x \in Rarities
       PROVE  Made(bag'[q], mint'[q], x) =
                  Made(bag[q], mint[q], x) + (IF q = s /\ x = r THEN 1 ELSE 0)
  <2>1. CASE q = s
    BY <1>4, <1>5, <1>7, <2>1
  <2>2. CASE q # s
    <3>1. Made(bag[q], mint[q], x) \in Int
      BY <1>1, MadeType DEF CoreTypeOK
    <3>2. bag'[q] = bag[q] /\ mint'[q] = mint[q]
      BY <1>5, <1>7, <2>2
    <3> QED  BY <2>2, <3>1, <3>2
  <2> QED  BY <2>1, <2>2
<1> QED  BY <1>4, <1>9, <1>10, <1>11 DEF r

(* Every other step leaves the counts, whatever count of fragments a client *)
(* reports.                                                                 *)
LEMMA KeepScores ==
    ASSUME ScoreInv, SeatKeeps, now' \in Nat,
           \/ fragCount' = fragCount
           \/ \E h \in Humans, fc \in Reports : fragCount' = [fragCount EXCEPT ![h] = fc]
    PROVE  CoreTypeOK' /\ Earning'
<1>1. CoreTypeOK /\ Earning
  BY RoundTypes DEF ScoreInv
<1>2. fragCount' \in [Seats -> 0 .. MaxFrags]
  BY <1>1, RoundAssumption DEF CoreTypeOK, RoundAssumption, Seats
<1> QED  BY <1>1, <1>2 DEF SeatKeeps, CoreTypeOK, Earning

(* Every step of a round keeps scores earned. *)
LEMMA ScoreStep == ScoreInv /\ [RoundNext]_roundVars => ScoreInv'
<1> SUFFICES ASSUME ScoreInv, [RoundNext]_roundVars PROVE ScoreInv'
  OBVIOUS
<1>1. SeatStep /\ FrameTypeOK' /\ now' \in Nat
  BY EveryStep DEF ScoreInv
<1>2. CoreTypeOK' /\ Earning'
  BY <1>1, ClaimScores, MintScores, KeepScores DEF SeatStep
<1>3. RoundTypeOK'
  BY <1>1, <1>2, Zenon DEF RoundTypeOK, CoreTypeOK, FrameTypeOK, MintRec, BotTurns
<1> QED  BY <1>2, <1>3 DEF ScoreInv

(* RoundTypeOK: the type of every variable of a round.                               *)
THEOREM RoundTyped == RoundSpec => []RoundTypeOK
<1>1. RoundInit => ScoreInv
  BY ScoresStart
<1>2. ScoreInv => RoundTypeOK
  BY DEF ScoreInv
<1> QED  BY <1>1, <1>2, ScoreStep, PTL DEF RoundSpec

(* The mints the property speaks of are those counted here. *)
LEMMA MintedIsMade == ASSUME NEW s, NEW r PROVE Minted(s, r) = Made(bag[s], mint[s], r)
BY DEF Minted, Made, Earned, Pending, ChestsOf

(* ScoreIsEarned: in every reachable state the score of a seat is the price of its       *)
(* fragments and of its mints, and each mint is covered by a chest of three fragments.    *)
THEOREM ScoresAreEarned == RoundSpec => []ScoreIsEarned
<1>1. RoundInit => ScoreInv
  BY ScoresStart
<1>2. ScoreInv => ScoreIsEarned
  <2> SUFFICES ASSUME ScoreInv, NEW s \in Seats
               PROVE  /\ \A r \in Rarities : /\ (bag[s][r] - mint[s].since[r]) % FragsPerChest = 0
                                             /\ Minted(s, r) >= 0
                      /\ mint[s].minted = SumFunction([r \in Rarities |-> Minted(s, r)])
                      /\ score[s] = SumFunction([r \in Rarities |->
                                        FragPoints * bag[s][r] + MintPoints[r] * Minted(s, r)])
    BY DEF ScoreIsEarned
  <2>1. SeatEarned(bag[s], mint[s], score[s])
    BY DEF ScoreInv, Earning
  <2>2. [r \in Rarities |-> Minted(s, r)] = [r \in Rarities |-> Made(bag[s], mint[s], r)]
    BY MintedIsMade
  <2>3. [r \in Rarities |-> FragPoints * bag[s][r] + MintPoints[r] * Minted(s, r)]
            = [r \in Rarities |-> SeatPrice(bag[s], mint[s], r)]
    BY MintedIsMade DEF SeatPrice
  <2> QED  BY <2>1, <2>2, <2>3, MintedIsMade DEF SeatEarned
<1> QED  BY <1>1, <1>2, ScoreStep, PTL DEF RoundSpec

-----------------------------------------------------------------------------
(* Claims. *)

Supply(r) == {f \in Frags : RarityOf[f] = r}
ClaimedOut(r) == {f \in Supply(r) : frags[f].by # NoOne}
Marked(s, r) == {f \in Supply(r) : frags[f].by = s}
Held(r) == SumFunction([s \in Seats |-> bag[s][r]])
Mints(r) == SumFunction([s \in Seats |-> Made(bag[s], mint[s], r)])

(* What is held of a rarity is what its mints put out again, whole, and what is out     *)
(* now: stronger than the promise, which forgets what is out.                         *)
CreditedOf(r) ==
    /\ Held(r) <= Cardinality(Supply(r)) * Mints(r) + Cardinality(ClaimedOut(r))
    /\ \A s \in Seats : Cardinality(Marked(s, r)) <= bag[s][r]
Credited == \A r \in Rarities : CreditedOf(r)
ClaimInv == ScoreInv /\ Credited

(* What is counted of a rarity can be counted. *)
LEMMA CountsOf ==
    ASSUME NEW r \in Rarities, CoreTypeOK
    PROVE  /\ IsFiniteSet(Supply(r)) /\ IsFiniteSet(ClaimedOut(r)) /\ \A s : IsFiniteSet(Marked(s, r))
           /\ Cardinality(Supply(r)) \in Nat /\ Cardinality(ClaimedOut(r)) \in Nat
           /\ \A s : Cardinality(Marked(s, r)) \in Nat
           /\ Cardinality(ClaimedOut(r)) <= Cardinality(Supply(r))
           /\ Held(r) \in Int /\ Mints(r) \in Int
<1>1. IsFiniteSet(Supply(r))
  BY FS_Subset, RoundAssumption DEF Supply, RoundAssumption
<1>2. ClaimedOut(r) \subseteq Supply(r) /\ \A s : Marked(s, r) \subseteq Supply(r)
  BY DEF ClaimedOut, Marked
<1>3. IsFiniteSet(Seats)
  BY RaritiesFinite
<1>4. Held(r) \in Int
  <2> DEFINE f == [s \in Seats |-> bag[s][r]]
  <2>1. DOMAIN f = Seats /\ \A s \in Seats : f[s] \in Int
    BY DEF CoreTypeOK
  <2> HIDE DEF f
  <2>2. Sum(f, Seats) \in Int
    BY <1>3, <2>1, SumType
  <2> QED  BY <2>1, <2>2 DEF Held, f
<1>5. Mints(r) \in Int
  <2> DEFINE f == [s \in Seats |-> Made(bag[s], mint[s], r)]
  <2>1. DOMAIN f = Seats /\ \A s \in Seats : f[s] \in Int
    BY MadeType DEF CoreTypeOK
  <2> HIDE DEF f
  <2>2. Sum(f, Seats) \in Int
    BY <1>3, <2>1, SumType
  <2> QED  BY <2>1, <2>2 DEF Mints, f
<1> QED  BY <1>1, <1>2, <1>4, <1>5, FS_Subset, FS_CardinalityType

(* At the start of a round no fragment is claimed and nothing is held. *)
LEMMA ClaimsStart == ASSUME RoundInit PROVE ClaimInv
<1>1. ScoreInv
  BY ScoresStart
<1>2. CoreTypeOK
  BY <1>1, RoundTypes DEF ScoreInv
<1>3. ASSUME NEW r \in Rarities PROVE CreditedOf(r)
  <2>1. \A f \in Frags : frags[f].by = NoOne
    BY DEF RoundInit
  <2>2. NoOne \notin Seats
    BY RoundAssumption DEF RoundAssumption
  <2>3. ClaimedOut(r) = {} /\ \A s \in Seats : Marked(s, r) = {}
    BY <2>1, <2>2 DEF ClaimedOut, Marked, Supply
  <2>4. \A s \in Seats : bag[s][r] = 0 /\ Made(bag[s], mint[s], r) = 0
    <3> DEFINE none == [q \in Rarities |-> 0]
    <3>1. \A s \in Seats : bag[s] = none /\ mint[s] = NewSeatMint
      BY DEF RoundInit
    <3>2. none[r] = 0
      OBVIOUS
    <3>3. Made(none, NewSeatMint, r) = 0
      BY FreshSeat
    <3> HIDE DEF none
    <3> QED  BY <3>1, <3>2, <3>3
  <2>5. IsFiniteSet(Seats)
    BY RaritiesFinite
  <2>6. Held(r) = 0
    <3> DEFINE f == [s \in Seats |-> bag[s][r]]
    <3>1. DOMAIN f = Seats /\ \A s \in Seats : f[s] = 0
      BY <2>4
    <3> HIDE DEF f
    <3>2. Sum(f, Seats) = 0
      BY <2>5, <3>1, SumOfNothing
    <3> QED  BY <3>1, <3>2 DEF Held, f
  <2>7. Mints(r) = 0
    <3> DEFINE f == [s \in Seats |-> Made(bag[s], mint[s], r)]
    <3>1. DOMAIN f = Seats /\ \A s \in Seats : f[s] = 0
      BY <2>4
    <3> HIDE DEF f
    <3>2. Sum(f, Seats) = 0
      BY <2>5, <3>1, SumOfNothing
    <3> QED  BY <3>1, <3>2 DEF Mints, f
  <2>8. Cardinality(Supply(r)) \in Nat
    BY <1>2, CountsOf
  <2>9. Cardinality(Supply(r)) * 0 = 0
    BY <2>8
  <2> QED  BY <2>3, <2>4, <2>6, <2>7, <2>9, FS_EmptySet DEF CreditedOf
<1> QED  BY <1>1, <1>3 DEF ClaimInv, Credited

(* One fragment out and one held more.                                              *)
LEMMA ClaimCredits ==
    ASSUME ClaimInv, NEW s \in Seats, NEW f \in Frags, SeatClaims(s, f), now' \in Nat
    PROVE  Credited'
<1>1. CoreTypeOK /\ Credited
  BY RoundTypes DEF ClaimInv, ScoreInv
<1>2. /\ CoreTypeOK'
      /\ \A q \in Seats, r \in Rarities : Made(bag'[q], mint'[q], r) = Made(bag[q], mint[q], r)
  BY ClaimScores DEF ClaimInv
<1>3. /\ frags[f].by = NoOne /\ frags' = [frags EXCEPT ![f].by = s]
      /\ bag' = [bag EXCEPT ![s][RarityOf[f]] = @ + 1]
  BY DEF SeatClaims, Claim
<1>4. \A g \in Frags : frags'[g].by = IF g = f THEN s ELSE frags[g].by
  BY <1>1, <1>3 DEF CoreTypeOK
<1>5. \A q \in Seats, r \in Rarities :
          bag'[q][r] = bag[q][r] + (IF q = s /\ r = RarityOf[f] THEN 1 ELSE 0)
  BY <1>1, <1>3 DEF CoreTypeOK
<1>6. s # NoOne /\ NoOne \notin Seats /\ IsFiniteSet(Seats)
  BY RaritiesFinite, RoundAssumption DEF RoundAssumption
<1>7. ASSUME NEW r \in Rarities PROVE CreditedOf(r)'
  <2>1. Mints(r)' = Mints(r)
    <3>1. [q \in Seats |-> Made(bag'[q], mint'[q], r)] = [q \in Seats |-> Made(bag[q], mint[q], r)]
      BY <1>2
    <3> QED  BY <3>1 DEF Mints
  <2>2. /\ IsFiniteSet(ClaimedOut(r)) /\ (\A q \in Seats : IsFiniteSet(Marked(q, r)))
        /\ Cardinality(Supply(r)) \in Nat /\ Cardinality(ClaimedOut(r)) \in Nat
        /\ (\A q \in Seats : Cardinality(Marked(q, r)) \in Nat)
        /\ Held(r) \in Int /\ Mints(r) \in Int
    BY <1>1, CountsOf
  <2>3. /\ Held(r) <= Cardinality(Supply(r)) * Mints(r) + Cardinality(ClaimedOut(r))
        /\ \A q \in Seats : Cardinality(Marked(q, r)) <= bag[q][r]
    BY <1>1 DEF Credited, CreditedOf
  <2>4. CASE r # RarityOf[f]
    <3>1. ClaimedOut(r)' = ClaimedOut(r) /\ \A q \in Seats : Marked(q, r)' = Marked(q, r)
      BY <1>4, <2>4 DEF ClaimedOut, Marked, Supply
    <3>2. [q \in Seats |-> bag'[q][r]] = [q \in Seats |-> bag[q][r]]
      BY <1>1, <1>5, <2>4 DEF CoreTypeOK
    <3>3. Held(r)' = Held(r)
      BY <3>2 DEF Held
    <3>4. \A q \in Seats : bag'[q][r] = bag[q][r]
      BY <3>2
    <3> QED  BY <2>1, <2>3, <3>1, <3>3, <3>4 DEF CreditedOf, Supply
  <2>5. CASE r = RarityOf[f]
    <3>1. f \notin ClaimedOut(r) /\ ClaimedOut(r)' = ClaimedOut(r) \cup {f}
      BY <1>3, <1>4, <1>6, <2>5 DEF ClaimedOut, Supply
    <3>2. Cardinality(ClaimedOut(r)') = Cardinality(ClaimedOut(r)) + 1
      BY <2>2, <3>1, FS_AddElement
    <3>3. ASSUME NEW q \in Seats PROVE Cardinality(Marked(q, r)') <= bag'[q][r]
      <4>0. bag[q][r] \in Nat
        BY <1>1 DEF CoreTypeOK
      <4>1. CASE q = s
        <5>1. f \notin Marked(s, r) /\ Marked(s, r)' = Marked(s, r) \cup {f}
          BY <1>3, <1>4, <1>6, <2>5 DEF Marked, Supply
        <5>2. Cardinality(Marked(s, r)') = Cardinality(Marked(s, r)) + 1
          BY <2>2, <5>1, FS_AddElement
        <5>3. bag'[q][r] = bag[q][r] + 1
          BY <1>5, <2>5, <4>1
        <5>4. Cardinality(Marked(s, r)) \in Nat /\ Cardinality(Marked(s, r)) <= bag[s][r]
          BY <2>2, <2>3
        <5> QED  BY <4>0, <4>1, <5>2, <5>3, <5>4
      <4>2. CASE q # s
        <5>1. Marked(q, r)' = Marked(q, r)
          BY <1>3, <1>4, <1>6, <4>2 DEF Marked, Supply
        <5>2. bag'[q][r] = bag[q][r]
          BY <1>5, <4>0, <4>2
        <5> QED  BY <2>3, <5>1, <5>2
      <4> QED  BY <4>1, <4>2
    <3>4. Held(r)' = Held(r) + 1
      <4> DEFINE g == [q \in Seats |-> bag[q][r]]
                 h == [q \in Seats |-> bag'[q][r]]
      <4>1. /\ DOMAIN g = Seats /\ DOMAIN h = Seats
            /\ \A q \in Seats : g[q] \in Int /\ h[q] \in Int
        BY <1>1, <1>2 DEF CoreTypeOK
      <4>2. \A q \in Seats \ {s} : g[q] = h[q]
        BY <1>1, <1>5 DEF CoreTypeOK
      <4>3. h[s] = g[s] + 1
        BY <1>5, <2>5
      <4>4. Held(r) = SumFunction(g) /\ Held(r)' = SumFunction(h)
        BY DEF Held
      <4> HIDE DEF g, h
      <4>5. Sum(h, Seats) = Sum(g, Seats) - g[s] + h[s]
        <5>1. IsFiniteSet(Seats)
          BY <1>6
        <5> QED  BY <4>1, <4>2, <5>1, SumChange, SMTT(60)
      <4>6. g[s] \in Int /\ Sum(g, Seats) \in Int
        BY <2>2, <4>1, <4>4
      <4> QED  BY <4>1, <4>3, <4>4, <4>5, <4>6
    <3>5. Supply(r)' = Supply(r)
      BY DEF Supply
    <3>6. Held(r)' <= Cardinality(Supply(r)) * Mints(r) + Cardinality(ClaimedOut(r)')
      <4> DEFINE a == Cardinality(Supply(r)) * Mints(r)
      <4>1. a \in Int
        BY <2>2
      <4>2. Held(r) <= a + Cardinality(ClaimedOut(r))
        BY <2>3
      <4> HIDE DEF a
      <4>3. Held(r)' <= a + Cardinality(ClaimedOut(r)')
        BY <2>2, <3>2, <3>4, <4>1, <4>2
      <4> QED  BY <4>3 DEF a
    <3> QED  BY <2>1, <3>3, <3>5, <3>6 DEF CreditedOf
  <2> QED  BY <2>4, <2>5
<1> QED  BY <1>7 DEF Credited

(* All of a rarity in again, and one mint of it more.                                *)
LEMMA MintCredits ==
    ASSUME ClaimInv, NEW s \in Seats, SeatMints(s), now' \in Nat
    PROVE  Credited'
<1>1. CoreTypeOK /\ Credited
  BY RoundTypes DEF ClaimInv, ScoreInv
<1> DEFINE t == TopRarity(mint[s])
<1>2. /\ CoreTypeOK' /\ t \in Rarities
      /\ \A q \in Seats, r \in Rarities :
            Made(bag'[q], mint'[q], r) = Made(bag[q], mint[q], r) + (IF q = s /\ r = t THEN 1 ELSE 0)
  BY MintScores DEF ClaimInv
<1>3. bag' = bag /\ Respawn(t)
  BY DEF SeatMints, MintTop, TopRarity
<1> HIDE DEF t
<1>4. \A g \in Frags : frags'[g].by = IF RarityOf[g] = t THEN NoOne ELSE frags[g].by
  BY <1>3 DEF Respawn
<1>5. NoOne \notin Seats /\ IsFiniteSet(Seats)
  BY RaritiesFinite, RoundAssumption DEF RoundAssumption
<1>6. ASSUME NEW r \in Rarities PROVE CreditedOf(r)'
  <2>1. Held(r)' = Held(r)
    BY <1>3 DEF Held
  <2>2. /\ Cardinality(Supply(r)) \in Nat /\ Cardinality(ClaimedOut(r)) \in Nat
        /\ Cardinality(ClaimedOut(r)) <= Cardinality(Supply(r))
        /\ Held(r) \in Int /\ Mints(r) \in Int
    BY <1>1, CountsOf
  <2>3. /\ Held(r) <= Cardinality(Supply(r)) * Mints(r) + Cardinality(ClaimedOut(r))
        /\ \A q \in Seats : Cardinality(Marked(q, r)) <= bag[q][r]
    BY <1>1 DEF Credited, CreditedOf
  <2>4. \A q \in Seats : Made(bag[q], mint[q], r) \in Int
    BY <1>1, MadeType DEF CoreTypeOK
  <2>5. CASE r # t
    <3>1. ClaimedOut(r)' = ClaimedOut(r) /\ \A q \in Seats : Marked(q, r)' = Marked(q, r)
      BY <1>4, <2>5 DEF ClaimedOut, Marked, Supply
    <3>2. [q \in Seats |-> Made(bag'[q], mint'[q], r)] = [q \in Seats |-> Made(bag[q], mint[q], r)]
      BY <1>2, <2>4, <2>5
    <3>3. Mints(r)' = Mints(r)
      BY <3>2 DEF Mints
    <3> QED  BY <1>3, <2>1, <2>3, <3>1, <3>3 DEF CreditedOf, Supply
  <2>6. CASE r = t
    <3>1. ClaimedOut(r)' = {} /\ \A q \in Seats : Marked(q, r)' = {}
      BY <1>4, <1>5, <2>6 DEF ClaimedOut, Marked, Supply
    <3>2. Mints(r)' = Mints(r) + 1
      <4> DEFINE g == [q \in Seats |-> Made(bag[q], mint[q], r)]
                 h == [q \in Seats |-> Made(bag'[q], mint'[q], r)]
      <4>1. /\ DOMAIN g = Seats /\ DOMAIN h = Seats
            /\ \A q \in Seats : g[q] \in Int /\ h[q] \in Int
        BY <1>2, <2>4
      <4>2. \A q \in Seats \ {s} : g[q] = h[q]
        BY <1>2, <2>4
      <4>3. h[s] = g[s] + 1
        BY <1>2, <2>6
      <4>4. Mints(r) = SumFunction(g) /\ Mints(r)' = SumFunction(h)
        BY DEF Mints
      <4> HIDE DEF g, h
      <4>5. Sum(h, Seats) = Sum(g, Seats) - g[s] + h[s]
        <5>1. IsFiniteSet(Seats)
          BY <1>5
        <5> QED  BY <4>1, <4>2, <5>1, SumChange, SMTT(60)
      <4>6. g[s] \in Int /\ Sum(g, Seats) \in Int
        BY <2>2, <4>1, <4>4
      <4> QED  BY <4>1, <4>3, <4>4, <4>5, <4>6
    <3>3. Supply(r)' = Supply(r)
      BY DEF Supply
    <3>4. Cardinality(ClaimedOut(r)') = 0 /\ \A q \in Seats : Cardinality(Marked(q, r)') = 0
      BY <3>1, FS_EmptySet
    <3>5. Held(r) <= Cardinality(Supply(r)) * (Mints(r) + 1) + 0
      <4> DEFINE a == Cardinality(Supply(r))
                 n == Mints(r)
                 o == Cardinality(ClaimedOut(r))
                 h == Held(r)
      <4>1. a \in Nat /\ n \in Int /\ o \in Nat /\ o <= a /\ h \in Int /\ h <= a * n + o
        BY <2>2, <2>3
      <4> HIDE DEF a, n, o, h
      <4>2. a * (n + 1) = a * n + a /\ a * n \in Int
        BY <4>1
      <4>3. h <= a * (n + 1) + 0
        BY <4>1, <4>2
      <4> QED  BY <4>3 DEF a, n, h
    <3>6. \A q \in Seats : bag'[q][r] \in Nat
      BY <1>2 DEF CoreTypeOK
    <3> QED  BY <2>1, <3>2, <3>3, <3>4, <3>5, <3>6 DEF CreditedOf
  <2> QED  BY <2>5, <2>6
<1> QED  BY <1>6 DEF Credited

(* Every step of a round keeps every claimed fragment credited. *)
LEMMA ClaimInvStep == ClaimInv /\ [RoundNext]_roundVars => ClaimInv'
<1> SUFFICES ASSUME ClaimInv, [RoundNext]_roundVars PROVE ClaimInv'
  OBVIOUS
<1>1. SeatStep /\ now' \in Nat
  BY EveryStep DEF ClaimInv, ScoreInv
<1>2. ScoreInv'
  BY ScoreStep DEF ClaimInv
<1>3. CASE SeatKeeps
  <2>1. Credited /\ UNCHANGED <<frags, bag, mint>>
    BY <1>3 DEF ClaimInv, SeatKeeps
  <2> QED  BY <1>2, <2>1 DEF ClaimInv, Credited, CreditedOf, Held, Mints, ClaimedOut, Marked, Supply
<1> QED  BY <1>1, <1>2, <1>3, ClaimCredits, MintCredits DEF SeatStep, ClaimInv

(* ClaimsAreCredited: for any number of humans, bots and fragments, no placement of a      *)
(* fragment is credited to two seats, and no seat loses what is marked as its claim.      *)
THEOREM ClaimsStayCredited == RoundSpec => []ClaimsAreCredited
<1>1. RoundInit => ClaimInv
  BY ClaimsStart
<1>2. ClaimInv => ClaimsAreCredited
  <2> SUFFICES ASSUME ClaimInv, NEW r \in Rarities
               PROVE  /\ SumFunction([s \in Seats |-> bag[s][r]])
                            <= Cardinality(Supply(r)) * (1 + SumFunction([s \in Seats |-> Minted(s, r)]))
                      /\ \A s \in Seats : Cardinality({f \in Supply(r) : frags[f].by = s}) <= bag[s][r]
    BY DEF ClaimsAreCredited, Supply
  <2>1. CoreTypeOK /\ CreditedOf(r)
    BY RoundTypes DEF ClaimInv, ScoreInv, Credited
  <2>2. [s \in Seats |-> Minted(s, r)] = [s \in Seats |-> Made(bag[s], mint[s], r)]
    BY MintedIsMade
  <2>3. SumFunction([s \in Seats |-> Minted(s, r)]) = Mints(r)
    BY <2>2 DEF Mints
  <2>4. Held(r) <= Cardinality(Supply(r)) * (1 + Mints(r))
    <3> DEFINE a == Cardinality(Supply(r))
               n == Mints(r)
               o == Cardinality(ClaimedOut(r))
               h == Held(r)
    <3>1. a \in Nat /\ n \in Int /\ o \in Nat /\ o <= a /\ h \in Int /\ h <= a * n + o
      BY <2>1, CountsOf DEF CreditedOf
    <3> HIDE DEF a, n, o, h
    <3>2. a * (1 + n) = a * n + a /\ a * n \in Int
      BY <3>1
    <3>3. h <= a * (1 + n)
      BY <3>1, <3>2
    <3> QED  BY <3>3 DEF a, n, h
  <2> QED  BY <2>1, <2>3, <2>4 DEF CreditedOf, Held, Marked
<1> QED  BY <1>1, <1>2, ClaimInvStep, PTL DEF RoundSpec

-----------------------------------------------------------------------------
(* The free lobby. *)

(* The holders of a record are connections, of some of those who may be seated. *)
LEMMA HolderOf ==
    ASSUME NEW H \in HallRecord
    PROVE  H.holder \in [Sitting(H) -> Conns] /\ Sitting(H) \in SUBSET Sitters
<1>1. H.holder \in Holders  BY DEF HallRecord
<1>2. PICK S \in SUBSET Sitters : H.holder \in [S -> Conns]  BY <1>1 DEF Holders
<1> QED  BY <1>2 DEF Sitting

(* Any assignment of connections to some of them is such a map. *)
LEMMA HolderIn ==
    ASSUME NEW S \in SUBSET Sitters, NEW f \in [S -> Conns]
    PROVE  f \in Holders
BY DEF Holders

(* A lobby with nobody in it may be given up at any time before its round ends      *)
(* (abandonLobby).                                                             *)
LEMMA GivenUpFits ==
    ASSUME NEW H, HallFits(H), Sitting(H) = {}, H.status # "ended"
    PROVE  HallFits(GivenUp(H))
<1>1. GivenUp(H) \in HallRecord  BY DEF HallFits, HallRecord, GivenUp
<1>2. TimersFit(GivenUp(H))  BY DEF HallFits, HallRecord, TimersFit, GivenUp
<1>3. Sitting(GivenUp(H)) = {}  BY DEF HallFits, HallRecord, GivenUp, Sitting
<1>4. RowIsHeld(GivenUp(H))  BY <1>3 DEF HallFits, HallRecord, TimersFit, RowIsHeld, GivenUp
<1> QED  BY <1>1, <1>2, <1>4 DEF HallFits

(* A seat that leaves, the last one with the lobby (leaveSeat). *)
LEMMA LeavesFits ==
    ASSUME NEW H, HallFits(H), NEW i \in Sitting(H)
    PROVE  HallFits(Leaves(H, i))
<1> DEFINE rest == [H EXCEPT !.holder = Restrict(@, Sitting(H) \ {i}),
                            !.departed = IF H.status = "active" THEN @ \cup {i} ELSE @]
<1>1. H \in HallRecord /\ TimersFit(H) /\ RowIsHeld(H)  BY DEF HallFits
<1>2. H.holder \in [Sitting(H) -> Conns] /\ Sitting(H) \in SUBSET Sitters  BY <1>1, HolderOf
<1>3. Restrict(H.holder, Sitting(H) \ {i}) \in [Sitting(H) \ {i} -> Conns]  BY <1>2 DEF Restrict
<1>4. Restrict(H.holder, Sitting(H) \ {i}) \in Holders  BY <1>2, <1>3, HolderIn
<1>5. rest \in HallRecord  BY <1>1, <1>2, <1>4 DEF HallRecord
<1>6. TimersFit(rest)  BY <1>1 DEF HallRecord, TimersFit
<1>7. Sitting(rest) = Sitting(H) \ {i}  BY <1>1, <1>3 DEF HallRecord, Sitting
<1>8. RowIsHeld(rest)  BY <1>1, <1>7 DEF HallRecord, RowIsHeld
<1>9. HallFits(rest)  BY <1>5, <1>6, <1>8 DEF HallFits
<1> HIDE DEF rest
<1>10. Leaves(H, i) = IF Sitting(rest) = {} /\ H.status # "ended" THEN GivenUp(rest) ELSE rest
  BY DEF Leaves, rest
<1>11. rest.status = H.status  BY <1>1 DEF rest, HallRecord
<1> QED  BY <1>9, <1>10, <1>11, GivenUpFits

(* A wait, full or over, becomes a countdown whose row is on its way               *)
(* (beginCountdown).                                                           *)
LEMMA CountsFits ==
    ASSUME NEW H, HallFits(H), H.status = "waiting"
    PROVE  HallFits(Counts(H))
<1>1. Counts(H) \in HallRecord  BY DEF HallFits, HallRecord, Counts
<1>2. TimersFit(Counts(H))  BY DEF HallFits, HallRecord, TimersFit, Counts
<1>3. RowIsHeld(Counts(H))  BY DEF HallFits, HallRecord, TimersFit, RowIsHeld, Counts
<1> QED  BY <1>1, <1>2, <1>3 DEF HallFits

(* A seat taken in a lobby that waits (the quickmatch handler). *)
LEMMA TakesFits ==
    ASSUME NEW H, HallFits(H), H.status = "waiting", NEW c \in Conns
    PROVE  HallFits(Takes(H, c))
<1> DEFINE f == [i \in Sitting(H) \cup {IdOf[c]} |-> IF i = IdOf[c] THEN c ELSE H.holder[i]]
           seated == [H EXCEPT !.holder = f]
<1>1. H \in HallRecord /\ TimersFit(H) /\ RowIsHeld(H)  BY DEF HallFits
<1>2. H.holder \in [Sitting(H) -> Conns] /\ Sitting(H) \in SUBSET Sitters  BY <1>1, HolderOf
<1>3. Sitting(H) \cup {IdOf[c]} \in SUBSET Sitters  BY <1>2 DEF Sitters
<1>4. f \in [Sitting(H) \cup {IdOf[c]} -> Conns]  BY <1>2
<1>5. f \in Holders  BY <1>3, <1>4, HolderIn
<1> HIDE DEF f
<1>6. seated \in HallRecord  BY <1>1, <1>5 DEF HallRecord
<1>7. TimersFit(seated)  BY <1>1 DEF HallRecord, TimersFit
<1>8. RowIsHeld(seated)  BY <1>1 DEF HallRecord, TimersFit, RowIsHeld
<1>9. HallFits(seated) /\ seated.status = "waiting"  BY <1>1, <1>6, <1>7, <1>8 DEF HallFits, HallRecord
<1> HIDE DEF seated
<1>10. HallFits(Counts(seated))  BY <1>9, CountsFits
<1>11. HallFits(StartsWait(seated))
  <2>1. StartsWait(seated) \in HallRecord  BY <1>9 DEF HallFits, HallRecord, StartsWait
  <2>2. TimersFit(StartsWait(seated))  BY <1>9 DEF HallFits, HallRecord, TimersFit, StartsWait
  <2>3. RowIsHeld(StartsWait(seated))  BY <1>9 DEF HallFits, HallRecord, TimersFit, RowIsHeld, StartsWait
  <2> QED  BY <2>1, <2>2, <2>3 DEF HallFits
<1>12. Takes(H, c) = IF Crowded(seated) THEN Counts(seated)
                     ELSE IF Enough(seated) THEN StartsWait(seated) ELSE seated
  BY DEF Takes, seated, f
<1> QED  BY <1>9, <1>10, <1>11, <1>12

(* A step that leaves one lobby fitting and every connection typed keeps all of it. *)
LEMMA OneHall ==
    ASSUME SandboxInductive, NEW l \in Halls, NEW R, HallFits(R),
           hall' = [hall EXCEPT ![l] = R],
           conn' \in [Conns -> [at : {"new", "in", "gone"}, hall : Halls]]
    PROVE  SandboxInductive'
<1>1. R \in HallRecord  BY DEF HallFits
<1>2. hall' \in [Halls -> HallRecord]  BY <1>1 DEF SandboxInductive, SandboxTypeOK
<1>3. \A k \in Halls : HallFits(hall'[k])  BY DEF SandboxInductive, SandboxTypeOK
<1> QED  BY <1>2, <1>3 DEF SandboxInductive, SandboxTypeOK, HallFits, RowIsHeld, TimersFit, Sitting,
            HallRecord, Holders, Sitters, Halls

-----------------------------------------------------------------------------
(* The types of the connections an action moves. *)
LEMMA ConnMoves ==
    ASSUME SandboxTypeOK, NEW c \in Conns, NEW l \in Halls
    PROVE  /\ [conn EXCEPT ![c] = [at |-> "in", hall |-> l]]
                  \in [Conns -> [at : {"new", "in", "gone"}, hall : Halls]]
           /\ [conn EXCEPT ![c].at = "gone"] \in [Conns -> [at : {"new", "in", "gone"}, hall : Halls]]
           /\ \A d : [conn EXCEPT ![c] = [at |-> "in", hall |-> l], ![d].at = "gone"]
                  \in [Conns -> [at : {"new", "in", "gone"}, hall : Halls]]
BY DEF SandboxTypeOK

(* No lobby exists yet, and every record of none fits. *)
LEMMA SandboxStarts ==
    ASSUME SandboxAssumption, SandboxInit
    PROVE  SandboxInductive
<1>1. NoHall.holder \in [{} -> Conns]  BY DEF NoHall
<1>2. NoHall.holder \in Holders  BY <1>1, HolderIn
<1>3. NoHall \in HallRecord  BY <1>2 DEF NoHall, HallRecord
<1>4. TimersFit(NoHall) /\ RowIsHeld(NoHall)  BY DEF NoHall, TimersFit, RowIsHeld
<1>5. 1 \in Halls  BY DEF SandboxAssumption, Halls
<1>6. SandboxTypeOK  BY <1>3, <1>5 DEF SandboxInit, SandboxTypeOK
<1>7. \A l \in Halls : HallFits(hall[l])  BY <1>3, <1>4 DEF SandboxInit, HallFits
<1> QED  BY <1>6, <1>7 DEF SandboxInductive

(* A seat taken back only changes the connection that holds it. *)
LEMMA TakeBackKeeps ==
    ASSUME SandboxInductive, NEW c \in Conns, TakeBack(c)
    PROVE  SandboxInductive'
<1>1. PICK l \in Halls :
          /\ l \in SeatedIn(c)
          /\ hall' = [hall EXCEPT ![l].holder[IdOf[c]] = c]
          /\ conn' = [conn EXCEPT ![c] = [at |-> "in", hall |-> l],
                                  ![hall[l].holder[IdOf[c]]].at = "gone"]
  BY DEF TakeBack, First
<1> DEFINE H == hall[l]
           f == [H.holder EXCEPT ![IdOf[c]] = c]
           R == [H EXCEPT !.holder = f]
<1>2. H \in HallRecord /\ TimersFit(H) /\ RowIsHeld(H)  BY DEF SandboxInductive, HallFits
<1>3. IdOf[c] \in Sitting(H)  BY <1>1 DEF SeatedIn
<1>4. H.holder \in [Sitting(H) -> Conns] /\ Sitting(H) \in SUBSET Sitters  BY <1>2, HolderOf
<1>5. f \in [Sitting(H) -> Conns]  BY <1>4
<1>6. f \in Holders  BY <1>4, <1>5, HolderIn
<1>7. hall' = [hall EXCEPT ![l] = R]  BY <1>1, <1>2 DEF SandboxInductive, SandboxTypeOK, HallRecord
<1> HIDE DEF f
<1>8. R \in HallRecord  BY <1>2, <1>6 DEF HallRecord
<1>9. TimersFit(R)  BY <1>2 DEF HallRecord, TimersFit
<1>10. H.row # "abandoned"  BY <1>2, <1>3 DEF RowIsHeld
<1>11. RowIsHeld(R)  BY <1>2, <1>10 DEF HallRecord, RowIsHeld
<1>12. conn' \in [Conns -> [at : {"new", "in", "gone"}, hall : Halls]]
  BY <1>1, ConnMoves DEF SandboxInductive
<1> HIDE DEF R
<1> QED  BY <1>7, <1>8, <1>9, <1>11, <1>12, OneHall DEF HallFits

(* A seat taken, in a lobby that waits or in one created for it. *)
LEMMA SitDownKeeps ==
    ASSUME SandboxInductive, NEW c \in Conns, SitDown(c)
    PROVE  SandboxInductive'
<1> DEFINE Opened(H) == [H EXCEPT !.status = "waiting", !.mapped = TRUE]
<1>1. PICK l \in Halls :
          /\ l \in WithRoom \/ l \in NextHall
          /\ hall' = [hall EXCEPT ![l] = Takes(Opened(hall[l]), c)]
          /\ conn' = [conn EXCEPT ![c] = [at |-> "in", hall |-> l]]
  BY DEF SitDown, First
<1>2. HallFits(hall[l]) /\ hall[l].status \in {"unborn", "waiting"}
  BY <1>1 DEF SandboxInductive, WithRoom, NextHall
<1>3. Opened(hall[l]) \in HallRecord  BY <1>2 DEF HallFits, HallRecord
<1>4. TimersFit(Opened(hall[l]))  BY <1>2 DEF HallFits, HallRecord, TimersFit
<1>5. RowIsHeld(Opened(hall[l]))  BY <1>2 DEF HallFits, HallRecord, TimersFit, RowIsHeld
<1>6. Opened(hall[l]).status = "waiting"  BY <1>2 DEF HallFits, HallRecord
<1>7. HallFits(Opened(hall[l]))  BY <1>3, <1>4, <1>5 DEF HallFits
<1> HIDE DEF Opened
<1>8. HallFits(Takes(Opened(hall[l]), c))  BY <1>6, <1>7, TakesFits
<1>9. conn' \in [Conns -> [at : {"new", "in", "gone"}, hall : Halls]]
  BY <1>1, ConnMoves DEF SandboxInductive
<1> QED  BY <1>1, <1>8, <1>9, OneHall

(* A connection lost, which leaves the seat only if it still holds it. *)
LEMMA HangUpKeeps ==
    ASSUME SandboxInductive, NEW c \in Conns, HangUp(c)
    PROVE  SandboxInductive'
<1> DEFINE l == conn[c].hall
           i == IdOf[c]
<1>1. l \in Halls  BY DEF SandboxInductive, SandboxTypeOK
<1>2. conn' \in [Conns -> [at : {"new", "in", "gone"}, hall : Halls]]
  BY <1>1, ConnMoves DEF SandboxInductive, HangUp
<1>3. HallFits(hall[l])  BY <1>1 DEF SandboxInductive
<1>4. CASE i \in Sitting(hall[l]) /\ hall[l].holder[i] = c
  <2>1. HallFits(Leaves(hall[l], i))  BY <1>3, <1>4, LeavesFits
  <2>2. hall' = [hall EXCEPT ![l] = Leaves(hall[l], i)]  BY <1>4 DEF HangUp
  <2> QED  BY <1>1, <1>2, <2>1, <2>2, OneHall
<1>5. CASE ~(i \in Sitting(hall[l]) /\ hall[l].holder[i] = c)
  <2>1. hall' = hall  BY <1>5 DEF HangUp
  <2>2. hall' = [hall EXCEPT ![l] = hall[l]]  BY <1>1, <2>1 DEF SandboxInductive, SandboxTypeOK
  <2> QED  BY <1>1, <1>2, <1>3, <2>2, OneHall
<1> QED  BY <1>4, <1>5

(* The timers and the await. *)
LEMMA TimerKeeps ==
    ASSUME SandboxInductive, NEW l \in Halls,
           \/ WaitEnds(l) \/ CountdownStarts(l) \/ RoundStarts(l) \/ RoundEnds(l) \/ Dissolves(l)
    PROVE  SandboxInductive'
<1> DEFINE H == hall[l]
<1>1. H \in HallRecord /\ TimersFit(H) /\ RowIsHeld(H)  BY DEF SandboxInductive, HallFits
<1>2. conn' \in [Conns -> [at : {"new", "in", "gone"}, hall : Halls]]
  BY DEF SandboxInductive, SandboxTypeOK, WaitEnds, CountdownStarts, RoundStarts, RoundEnds, Dissolves
<1>3. ASSUME NEW R, hall' = [hall EXCEPT ![l] = R],
             R \in HallRecord, TimersFit(R), RowIsHeld(R)
      PROVE  SandboxInductive'
  BY <1>2, <1>3, OneHall DEF HallFits
<1>4. CASE WaitEnds(l)
  <2>1. HallFits(Counts(H))  BY <1>1, <1>4, CountsFits DEF WaitEnds, HallFits
  <2> QED  BY <1>3, <1>4, <2>1 DEF WaitEnds, HallFits
<1>5. CASE CountdownStarts(l)
  <2>1. PICK row \in {"active", "none"} :
            hall' = [hall EXCEPT ![l] = [H EXCEPT !.issuing = FALSE, !.counting = TRUE, !.row = row]]
    BY <1>5 DEF CountdownStarts
  <2> DEFINE R == [H EXCEPT !.issuing = FALSE, !.counting = TRUE, !.row = row]
  <2>2. R \in HallRecord  BY <1>1 DEF HallRecord
  <2>3. TimersFit(R)  BY <1>1, <1>5 DEF CountdownStarts, HallRecord, TimersFit
  <2>4. RowIsHeld(R)  BY <1>1 DEF HallRecord, RowIsHeld
  <2> HIDE DEF R
  <2> QED  BY <1>3, <2>1, <2>2, <2>3, <2>4 DEF R
<1>6. CASE RoundStarts(l)
  <2> DEFINE R == [H EXCEPT !.counting = FALSE, !.status = "active", !.playing = TRUE]
  <2>1. hall' = [hall EXCEPT ![l] = R]  BY <1>6 DEF RoundStarts
  <2>2. R \in HallRecord  BY <1>1 DEF HallRecord
  <2>3. TimersFit(R)  BY <1>1, <1>6 DEF RoundStarts, HallRecord, TimersFit
  <2>4. RowIsHeld(R)  BY <1>1, <1>6 DEF RoundStarts, HallRecord, TimersFit, RowIsHeld
  <2> HIDE DEF R
  <2> QED  BY <1>3, <2>1, <2>2, <2>3, <2>4
<1>7. CASE RoundEnds(l)
  <2> DEFINE seats == Sitting(H) \cup H.departed
             R == [H EXCEPT !.playing = FALSE, !.status = "ended", !.row = "completed", !.ranked = seats]
  <2>1. hall' = [hall EXCEPT ![l] = R]  BY <1>7 DEF RoundEnds
  <2>2. Sitting(H) \in SUBSET Sitters  BY <1>1, HolderOf
  <2>3. seats \in SUBSET Sitters  BY <1>1, <2>2 DEF HallRecord
  <2> HIDE DEF seats
  <2>4. R \in HallRecord  BY <1>1, <2>3 DEF HallRecord
  <2>5. TimersFit(R)  BY <1>1, <1>7 DEF RoundEnds, HallRecord, TimersFit
  <2>6. RowIsHeld(R)  BY <1>1 DEF HallRecord, RowIsHeld
  <2> HIDE DEF R
  <2> QED  BY <1>3, <2>1, <2>4, <2>5, <2>6
<1>8. CASE Dissolves(l)
  <2> DEFINE R == [H EXCEPT !.mapped = FALSE]
  <2>1. hall' = [hall EXCEPT ![l] = R]  BY <1>1, <1>8 DEF Dissolves, SandboxInductive, SandboxTypeOK, HallRecord
  <2>2. R \in HallRecord  BY <1>1 DEF HallRecord
  <2>3. TimersFit(R)  BY <1>1 DEF HallRecord, TimersFit
  <2>4. RowIsHeld(R)
    <3>1. Sitting(R) = Sitting(H)  BY <1>1 DEF HallRecord, Sitting
    <3> QED  BY <1>1, <3>1 DEF HallRecord, RowIsHeld
  <2> HIDE DEF R
  <2> QED  BY <1>3, <2>1, <2>2, <2>3, <2>4
<1> QED  BY <1>4, <1>5, <1>6, <1>7, <1>8

(* The inductive invariant: the type, and per lobby the timers its status allows    *)
(* with the row those timers will close.                                         *)
THEOREM SandboxInductiveAlways == SandboxSpec => []SandboxInductive
<1>1. SandboxInit => SandboxInductive  BY SandboxAssumption, SandboxStarts
<1>2. SandboxInductive /\ [SandboxNext]_hallVars => SandboxInductive'
  <2> SUFFICES ASSUME SandboxInductive, [SandboxNext]_hallVars
               PROVE  SandboxInductive'
    OBVIOUS
  <2>1. CASE UNCHANGED hallVars
    BY <2>1 DEF hallVars, SandboxInductive, SandboxTypeOK, HallFits, RowIsHeld, TimersFit, Sitting,
                HallRecord, Holders, Sitters, Halls
  <2>2. ASSUME NEW c \in Conns, TakeBack(c) \/ SitDown(c) \/ HangUp(c)
        PROVE  SandboxInductive'
    BY <2>2, TakeBackKeeps, SitDownKeeps, HangUpKeeps
  <2> QED  BY <2>1, <2>2, TimerKeeps DEF SandboxNext
<1> QED  BY <1>1, <1>2, PTL DEF SandboxSpec

(* The free lobby keeps the type of every variable. *)
THEOREM SandboxTypes == SandboxSpec => []SandboxTypeOK
<1>1. SandboxInductive => SandboxTypeOK  BY DEF SandboxInductive
<1> QED  BY <1>1, SandboxInductiveAlways, PTL

(* Whatever order connections, timers and the INSERT's answer come in, a row that is  *)
(* open has a timer to close it, a row given up can never be played, and a completed  *)
(* one is of a round that ended.                                                  *)
THEOREM OpenRowsAreHeld == SandboxSpec => []OpenRowIsHeld
<1>1. SandboxInductive => OpenRowIsHeld  BY DEF SandboxInductive, HallFits, OpenRowIsHeld
<1> QED  BY <1>1, SandboxInductiveAlways, PTL

-----------------------------------------------------------------------------
(* Collectors. *)

AssetRecord ==
    [at : Spots, tier : DOMAIN RarityTable, tag : Tags, discoveryTime : Nat,
     discoveredBy : Collectors \cup {NoCollector}, mintedBy : Collectors \cup {NoCollector}]

Worths(c, quick) == SumFunction([a \in MintedBy(c) |-> Worth(a, quick)])

(* Who holds a lock has room for what it mints.                                     *)
RoomFor(c) ==
    /\ Cardinality(MintedBy(c)) <= CollectLimit
    /\ lock[c] # NoLock => Cardinality(MintedBy(c)) < CollectLimit

CollectInv == CollectionTypeOK /\ \A c \in Collectors : PaidFor(c) /\ RoomFor(c)

(* What the assumption says of the constants. *)
LEMMA Numbers ==
    /\ IsFiniteSet(Collectors) /\ IsFiniteSet(Assets) /\ NoCollector \notin Collectors
    /\ SpeedPercent \in Nat /\ SetPercent \in Nat /\ CollectLimit \in Nat /\ DiscoveryCredit \in Nat
    /\ SpeedPercent >= 100 /\ SetPercent >= 100
BY CollectionAssumption DEF CollectionAssumption

(* The points and the duration of an asset's rarity are numbers. *)
LEMMA TierType ==
    ASSUME CollectionTypeOK, NEW a \in Assets
    PROVE  Tier(a).points \in Nat /\ Tier(a).duration \in Nat
<1> DEFINE R == [weight : Nat, points : Nat, duration : Nat]
<1>1. RarityTable \in Seq(R)
  BY CollectionAssumption DEF CollectionAssumption
<1>2. assets[a].tier \in DOMAIN RarityTable
  BY DEF CollectionTypeOK
<1>3. DOMAIN RarityTable = 1 .. Len(RarityTable)
  BY <1>1
<1>4. RarityTable[assets[a].tier] \in R
  <2> HIDE DEF R
  <2> QED  BY <1>1, <1>2, <1>3
<1> QED  BY <1>4 DEF Tier

(* What a mint pays is a number, at most what the speed bonus makes of it. *)
LEMMA WorthType ==
    ASSUME CollectionTypeOK, NEW a \in Assets, NEW quick
    PROVE  /\ Worth(a, quick) \in Nat
           /\ 100 * Worth(a, quick) <= SpeedPercent * Tier(a).points
<1> DEFINE p == Tier(a).points
           k == IF a \in quick THEN SpeedPercent ELSE 100
<1>1. p \in Nat /\ k \in Nat /\ k <= SpeedPercent /\ SpeedPercent \in Nat
  BY Numbers, TierType
<1>2. Worth(a, quick) = (p * k) \div 100
  BY DEF Worth
<1> HIDE DEF p, k
<1>3. p * k \in Nat /\ p * k <= SpeedPercent * p
  BY <1>1
<1> DEFINE n == p * k
<1>4. n \div 100 \in Nat /\ 100 * (n \div 100) <= n
  <2>1. n \in Nat
    BY <1>3
  <2> HIDE DEF n
  <2> QED  BY <2>1
<1> DEFINE w == n \div 100
           m == SpeedPercent * p
<1>5. m \in Int
  BY <1>1
<1>6. w \in Nat /\ 100 * w <= n /\ n <= m /\ n \in Nat
  BY <1>3, <1>4
<1> HIDE DEF w, m, n
<1>7. 100 * w <= m
  BY <1>5, <1>6
<1> QED  BY <1>2, <1>6, <1>7 DEF w, n, m, p

(* What a collector has minted and discovered can be counted. *)
LEMMA MintsFinite ==
    ASSUME NEW c
    PROVE  /\ IsFiniteSet(MintedBy(c)) /\ Cardinality(MintedBy(c)) \in Nat
           /\ IsFiniteSet(DiscoveredBy(c)) /\ Cardinality(DiscoveredBy(c)) \in Nat
<1>1. MintedBy(c) \subseteq Assets /\ DiscoveredBy(c) \subseteq Assets
  BY DEF MintedBy, DiscoveredBy
<1> QED  BY <1>1, Numbers, FS_Subset, FS_CardinalityType

-----------------------------------------------------------------------------
(* A finding and a lock leave what was paid. *)

(* Whatever is minted stays, and whatever was found: what was paid for is untouched.   *)
LEMMA PaidKept ==
    ASSUME NEW c \in Collectors, PaidFor(c),
           MintedBy(c)' = MintedBy(c), DiscoveredBy(c) \subseteq DiscoveredBy(c)',
           \A a \in Assets : Tier(a)' = Tier(a),
           earned'[c] = earned[c], speedBonuses'[c] = speedBonuses[c]
    PROVE  PaidFor(c)'
<1>1. PICK quick \in SUBSET (MintedBy(c) \cap DiscoveredBy(c)) :
          Cardinality(quick) = speedBonuses[c] /\ earned[c] = Worths(c, quick)
  BY DEF PaidFor, Worths
<1>2. [a \in MintedBy(c)' |-> Worth(a, quick)'] = [a \in MintedBy(c) |-> Worth(a, quick)]
  BY DEF MintedBy, Worth
<1>3. Worths(c, quick)' = Worths(c, quick)
  BY <1>2 DEF Worths
<1>4. quick \in SUBSET (MintedBy(c)' \cap DiscoveredBy(c)')
  BY <1>1
<1> QED  BY <1>1, <1>3, <1>4 DEF PaidFor, Worths

(* A mint more.                                                                  *)
LEMMA PaidMore ==
    ASSUME CollectionTypeOK, NEW c \in Collectors, PaidFor(c), NEW a \in Assets, ~Taken(a),
           MintedBy(c)' = MintedBy(c) \cup {a}, DiscoveredBy(c)' = DiscoveredBy(c),
           \A x \in Assets : Tier(x)' = Tier(x),
           earned'[c] = earned[c] + Price(c, a),
           speedBonuses'[c] = speedBonuses[c] + (IF IsQuick(c, a) THEN 1 ELSE 0)
    PROVE  PaidFor(c)'
<1>1. PICK quick \in SUBSET (MintedBy(c) \cap DiscoveredBy(c)) :
          Cardinality(quick) = speedBonuses[c] /\ earned[c] = Worths(c, quick)
  BY DEF PaidFor, Worths
<1>m. PICK more : more = IF IsQuick(c, a) THEN quick \cup {a} ELSE quick
  OBVIOUS
<1> DEFINE f == [x \in Assets |-> Worth(x, quick)]
           g == [x \in Assets |-> Worth(x, more)]
           S == MintedBy(c)
<1>2. a \notin S /\ a \notin quick /\ S \subseteq Assets
  <2>1. a \notin S
    BY Numbers DEF MintedBy, Taken
  <2> QED  BY <1>1, <2>1 DEF MintedBy
<1>3. IsFiniteSet(S) /\ IsFiniteSet(quick) /\ Cardinality(quick) \in Nat
  BY <1>1, MintsFinite, FS_Subset, FS_CardinalityType
<1>4. more \in SUBSET (MintedBy(c)' \cap DiscoveredBy(c)')
  <2>1. IsQuick(c, a) => a \in DiscoveredBy(c)
    BY DEF IsQuick, DiscoveredBy
  <2> QED  BY <1>1, <1>m, <2>1
<1>5. Cardinality(more) = speedBonuses'[c]
  <2>1. Cardinality(quick \cup {a}) = Cardinality(quick) + 1
    BY <1>2, <1>3, FS_AddElement
  <2> QED  BY <1>1, <1>m, <1>3, <2>1
<1>6. Worth(a, more) = Price(c, a)
  <2> DEFINE p == Tier(a).points
  <2>1. p \in Nat
    BY TierType
  <2>2. Worth(a, more) = (p * (IF IsQuick(c, a) THEN SpeedPercent ELSE 100)) \div 100
    BY <1>2, <1>m DEF Worth
  <2>3. Price(c, a) = IF IsQuick(c, a) THEN (p * SpeedPercent) \div 100 ELSE p
    BY DEF Price
  <2> HIDE DEF p
  <2>4. (p * 100) \div 100 = p
    BY <2>1
  <2> QED  BY <2>2, <2>3, <2>4
<1>7. \A x \in S : Worth(x, more) = Worth(x, quick)
  <2>1. \A x \in S : x \in more <=> x \in quick
    BY <1>2, <1>m
  <2> QED  BY <2>1 DEF Worth
<1>8. Worths(c, quick) = Sum(f, S)
  <2> DEFINE h == [x \in S |-> Worth(x, quick)]
  <2>1. DOMAIN h = S /\ \A x \in S : h[x] = f[x] /\ h[x] \in Int
    BY <1>2, WorthType
  <2>2. Worths(c, quick) = SumFunction(h)
    BY DEF Worths
  <2> HIDE DEF h, f, S
  <2>3. Sum(h, S) = Sum(f, S)
    BY <1>3, <2>1, SumSame
  <2> QED  BY <2>1, <2>2, <2>3
<1>9. Worths(c, more)' = Sum(g, S \cup {a})
  <2> DEFINE h == [x \in S \cup {a} |-> Worth(x, more)]
  <2>1. DOMAIN h = S \cup {a} /\ \A x \in S \cup {a} : h[x] = g[x] /\ h[x] \in Int
    BY <1>2, WorthType
  <2>2. Worths(c, more)' = SumFunction(h)
    <3>1. [x \in MintedBy(c)' |-> Worth(x, more)'] = h
      BY <1>2 DEF Worth
    <3> QED  BY <3>1 DEF Worths
  <2>3. IsFiniteSet(S \cup {a})
    BY <1>3, FS_AddElement
  <2> HIDE DEF h, g, S
  <2> DEFINE U == S \cup {a}
  <2>4. DOMAIN h = U /\ IsFiniteSet(U) /\ \A x \in U : h[x] \in Int /\ h[x] = g[x]
    BY <2>1, <2>3
  <2> HIDE DEF U
  <2>5. Sum(h, U) = Sum(g, U)
    BY <2>4, SumSame
  <2> QED  BY <2>2, <2>4, <2>5 DEF U
<1>10. Sum(g, S \cup {a}) = g[a] + Sum(g, S)
  <2>1. \A x \in S : g[x] \in Int
    BY <1>2, WorthType
  <2>2. g[a] \in Int
    BY WorthType
  <2> HIDE DEF g, S
  <2> QED  BY <1>2, <1>3, <2>1, <2>2, SumAdd
<1>11. Sum(g, S) = Sum(f, S) /\ Sum(f, S) \in Int
  <2>1. \A x \in S : f[x] \in Int /\ f[x] = g[x]
    <3>1. \A x \in S : f[x] = Worth(x, quick) /\ g[x] = Worth(x, more)
      BY <1>2
    <3>2. \A x \in S : Worth(x, quick) \in Int
      BY <1>2, WorthType
    <3> HIDE DEF f, g, S
    <3> QED  BY <1>7, <3>1, <3>2
  <2> HIDE DEF f, g, S
  <2> QED  BY <1>3, <2>1, SumSame, SumType
<1>12. g[a] = Price(c, a) /\ Price(c, a) \in Int
  BY <1>6, WorthType
<1>13. Worths(c, more)' = earned'[c]
  <2> HIDE DEF f, g, S
  <2> QED  BY <1>1, <1>8, <1>9, <1>10, <1>11, <1>12
<1> QED  BY <1>4, <1>5, <1>13 DEF PaidFor, Worths

-----------------------------------------------------------------------------
(* The steps. *)

LEMMA LeastOf == ASSUME NEW S \in SUBSET Nat, S # {} PROVE Min(S) \in S
<1> DEFINE R == OpToRel(<, Nat)
<1>1. PICK x \in S : \A y \in S : ~ (<<y, x>> \in R)
  <2>1. IsWellFoundedOn(R, Nat)
    BY NatLessThanWellFounded
  <2> HIDE DEF R
  <2> QED  BY <2>1, WFMin
<1>2. \A y \in S : x <= y
  <2> TAKE y \in S
  <2>1. x \in Nat /\ y \in Nat /\ ~ (<<y, x>> \in R)
    BY <1>1
  <2>2. ASSUME y < x PROVE FALSE
    <3>1. <<y, x>> \in R
      BY <2>1, <2>2 DEF OpToRel
    <3> QED  BY <2>1, <3>1
  <2> HIDE DEF R
  <2> QED  BY <2>1, <2>2
<1> QED  BY <1>2 DEF Min

(* A roll gives one of the rarities of the table. *)
LEMMA RollType == ASSUME NEW roll PROVE RollRarity(roll) \in DOMAIN RarityTable
<1> DEFINE T == RarityTable
           under == {i \in DOMAIN T : roll < Cumulated(i)}
           R == [weight : Nat, points : Nat, duration : Nat]
<1>1. T \in Seq(R) /\ T # <<>>
  BY CollectionAssumption DEF CollectionAssumption
<1> HIDE DEF T, R
<1>2. DOMAIN T = 1 .. Len(T) /\ Len(T) \in Nat \ {0}
  BY <1>1, EmptySeq
<1>3. 1 \in DOMAIN T
  BY <1>2
<1>4. under # {} => Min(under) \in under
  <2>1. under \in SUBSET Nat
    BY <1>2
  <2> HIDE DEF under
  <2> QED  BY <2>1, LeastOf
<1> QED  BY <1>3, <1>4 DEF RollRarity, T

(* Nothing is paid for on a new map. *)
LEMMA CollectStarts == ASSUME CollectionInit PROVE CollectInv
<1>1. assets \in [Assets -> AssetRecord]
  BY RollType DEF CollectionInit, RolledAssets, AssetRecord
<1>2. CollectionTypeOK
  <2>1. /\ tick \in Nat /\ spot \in [Collectors -> Spots]
        /\ lock \in [Collectors -> {NoLock} \cup [asset : Assets, endTime : Nat]]
        /\ earned \in [Collectors -> Nat] /\ speedBonuses \in [Collectors -> Nat]
    BY DEF CollectionInit
  <2> QED  BY <1>1, <2>1 DEF CollectionTypeOK, AssetRecord
<1>3. ASSUME NEW c \in Collectors PROVE PaidFor(c) /\ RoomFor(c)
  <2>1. \A a \in Assets : assets[a].mintedBy = NoCollector
    BY DEF CollectionInit, RolledAssets
  <2>2. MintedBy(c) = {}
    BY <2>1, Numbers DEF MintedBy
  <2>3. Worths(c, {}) = 0
    <3> DEFINE h == [a \in MintedBy(c) |-> Worth(a, {})]
    <3>1. DOMAIN h = {}
      BY <2>2
    <3> HIDE DEF h
    <3>2. Sum(h, {}) = 0
      BY SumEmpty
    <3> QED  BY <3>1, <3>2 DEF Worths, h
  <2>4. earned[c] = 0 /\ speedBonuses[c] = 0 /\ lock[c] = NoLock
    BY DEF CollectionInit
  <2>5. PaidFor(c)
    BY <2>2, <2>3, <2>4, FS_EmptySet DEF PaidFor, Worths
  <2>6. RoomFor(c)
    BY <2>2, <2>4, FS_EmptySet, Numbers DEF RoomFor
  <2> QED  BY <2>5, <2>6
<1> QED  BY <1>2, <1>3 DEF CollectInv

(* A discovery marks assets nobody has found, and pays for none. *)
LEMMA DiscoverStep ==
    ASSUME CollectInv, NEW c \in Collectors, Discover(c)
    PROVE  CollectInv'
<1>1. CollectionTypeOK
  BY DEF CollectInv
<1>2. assets \in [Assets -> AssetRecord] /\ tick \in Nat
  BY <1>1 DEF CollectionTypeOK, AssetRecord
<1> DEFINE New(a) == [assets[a] EXCEPT !.discoveredBy = c, !.discoveryTime = tick]
<1>3. ASSUME NEW a \in Assets
      PROVE  /\ assets'[a] \in AssetRecord
             /\ assets'[a].tier = assets[a].tier /\ assets'[a].mintedBy = assets[a].mintedBy
             /\ Found(a) => assets'[a] = assets[a]
  <2>1. PICK p \in Spots, i \in DOMAIN RarityTable, t \in Tags, z \in Nat,
             d \in Collectors \cup {NoCollector}, m \in Collectors \cup {NoCollector} :
          assets[a] = [at |-> p, tier |-> i, tag |-> t, discoveryTime |-> z, discoveredBy |-> d, mintedBy |-> m]
    <3>1. assets[a] \in AssetRecord
      BY <1>2
    <3> QED  BY <3>1 DEF AssetRecord
  <2> DEFINE e == [assets[a] EXCEPT !.discoveredBy = c]
  <2>2. e = [at |-> p, tier |-> i, tag |-> t, discoveryTime |-> z, discoveredBy |-> c, mintedBy |-> m]
    BY <2>1
  <2>3. New(a) = [e EXCEPT !.discoveryTime = tick]
    OBVIOUS
  <2> HIDE DEF e
  <2>4. [e EXCEPT !.discoveryTime = tick] =
            [at |-> p, tier |-> i, tag |-> t, discoveryTime |-> tick, discoveredBy |-> c, mintedBy |-> m]
    BY <2>2
  <2>5. assets'[a] = New(a) \/ assets'[a] = assets[a]
    BY DEF Discover
  <2>6. Found(a) => assets'[a] = assets[a]
    BY DEF Discover
  <2> HIDE DEF New
  <2>7. New(a) = [at |-> p, tier |-> i, tag |-> t, discoveryTime |-> tick, discoveredBy |-> c, mintedBy |-> m]
    BY <2>3, <2>4
  <2>8. New(a) \in AssetRecord /\ New(a).tier = assets[a].tier /\ New(a).mintedBy = assets[a].mintedBy
    BY <1>2, <2>1, <2>7 DEF AssetRecord
  <2>9. assets[a] \in AssetRecord
    BY <1>2
  <2> QED  BY <2>5, <2>6, <2>8, <2>9
<1>4. assets' = [a \in Assets |-> assets'[a]]
  BY DEF Discover
<1>5. UNCHANGED <<tick, spot, lock, earned, speedBonuses>>
  BY DEF Discover, collectorVars
<1>6. CollectionTypeOK'
  <2>1. assets' \in [Assets -> AssetRecord]
    BY <1>3, <1>4
  <2> QED  BY <1>1, <1>5, <2>1 DEF CollectionTypeOK, AssetRecord
<1>7. ASSUME NEW d \in Collectors PROVE PaidFor(d)' /\ RoomFor(d)'
  <2>1. MintedBy(d)' = MintedBy(d)
    BY <1>3 DEF MintedBy
  <2>2. DiscoveredBy(d) \subseteq DiscoveredBy(d)'
    BY <1>3, Numbers DEF DiscoveredBy, Found
  <2>3. \A a \in Assets : Tier(a)' = Tier(a)
    BY <1>3 DEF Tier
  <2>4. PaidFor(d)'
    BY <1>5, <2>1, <2>2, <2>3, PaidKept DEF CollectInv
  <2> QED  BY <1>5, <2>1, <2>4 DEF CollectInv, RoomFor
<1> QED  BY <1>6, <1>7 DEF CollectInv

(* A step that pays nothing keeps the invariant if whoever gets a lock has *)
(* room.                                                                   *)
LEMMA LockStep ==
    ASSUME CollectInv, UNCHANGED <<assets, earned, speedBonuses>>, tick' \in Nat,
           spot' \in [Collectors -> Spots], lock' \in [Collectors -> {NoLock} \cup [asset : Assets, endTime : Nat]],
           \A c \in Collectors : lock'[c] = NoLock \/ lock'[c] = lock[c]
                                 \/ Cardinality(MintedBy(c)) < CollectLimit
    PROVE  CollectInv'
<1>1. CollectionTypeOK'
  BY DEF CollectInv, CollectionTypeOK
<1>2. ASSUME NEW c \in Collectors PROVE PaidFor(c)' /\ RoomFor(c)'
  <2>1. MintedBy(c)' = MintedBy(c) /\ DiscoveredBy(c)' = DiscoveredBy(c)
    BY DEF MintedBy, DiscoveredBy
  <2>2. \A a \in Assets : Tier(a)' = Tier(a)
    BY DEF Tier
  <2>3. PaidFor(c)'
    BY <2>1, <2>2, PaidKept DEF CollectInv
  <2> QED  BY <2>1, <2>3 DEF CollectInv, RoomFor
<1> QED  BY <1>1, <1>2 DEF CollectInv

(* A mint that ends pays its collector for one asset more (finishMint). *)
LEMMA FinishStep ==
    ASSUME CollectInv, NEW c \in Collectors, FinishMint(c)
    PROVE  CollectInv'
<1>1. CollectionTypeOK /\ PaidFor(c) /\ RoomFor(c)
  BY DEF CollectInv
<1> DEFINE a == lock[c].asset
<1>2. a \in Assets /\ Cardinality(MintedBy(c)) < CollectLimit
  BY <1>1 DEF FinishMint, CollectionTypeOK, RoomFor
<1>3. lock' = [lock EXCEPT ![c] = NoLock] /\ UNCHANGED <<tick, spot>>
  BY DEF FinishMint
<1>4. lock' \in [Collectors -> {NoLock} \cup [asset : Assets, endTime : Nat]]
  BY <1>1, <1>3 DEF CollectionTypeOK
<1>5. CASE UNCHANGED <<assets, earned, speedBonuses>>
  <2>1. tick' \in Nat /\ spot' \in [Collectors -> Spots]
    BY <1>1, <1>3 DEF CollectionTypeOK
  <2>2. \A d \in Collectors : lock'[d] = NoLock \/ lock'[d] = lock[d]
    BY <1>1, <1>3 DEF CollectionTypeOK
  <2> QED  BY <1>4, <1>5, <2>1, <2>2, LockStep
<1>6. CASE /\ Awards(c, a)
           /\ assets' = [assets EXCEPT ![a].mintedBy = c]
           /\ earned' = [earned EXCEPT ![c] = @ + Price(c, a)]
           /\ speedBonuses' = [speedBonuses EXCEPT ![c] = @ + IF IsQuick(c, a) THEN 1 ELSE 0]
  <2> HIDE DEF a
  <2>1. assets \in [Assets -> AssetRecord] /\ ~Taken(a)
    BY <1>1, <1>6 DEF CollectionTypeOK, AssetRecord, Awards
  <2>2. /\ assets' \in [Assets -> AssetRecord]
        /\ \A x \in Assets : /\ assets'[x].tier = assets[x].tier
                             /\ assets'[x].discoveredBy = assets[x].discoveredBy
                             /\ assets'[x].mintedBy = IF x = a THEN c ELSE assets[x].mintedBy
    BY <1>2, <1>6, <2>1 DEF AssetRecord
  <2>3. Price(c, a) \in Nat
    <3> DEFINE p == Tier(a).points
    <3>1. p \in Nat /\ SpeedPercent \in Nat
      BY <1>1, <1>2, Numbers, TierType
    <3>2. Price(c, a) = IF IsQuick(c, a) THEN (p * SpeedPercent) \div 100 ELSE p
      BY DEF Price
    <3> HIDE DEF p
    <3>3. p * SpeedPercent \in Nat
      BY <3>1
    <3> DEFINE n == p * SpeedPercent
    <3>4. n \div 100 \in Nat
      <4>1. n \in Nat
        BY <3>3
      <4> HIDE DEF n
      <4> QED  BY <4>1
    <3> QED  BY <3>1, <3>2, <3>4
  <2>4. /\ earned' \in [Collectors -> Nat] /\ speedBonuses' \in [Collectors -> Nat]
        /\ earned'[c] = earned[c] + Price(c, a)
        /\ speedBonuses'[c] = speedBonuses[c] + (IF IsQuick(c, a) THEN 1 ELSE 0)
        /\ \A d \in Collectors \ {c} : earned'[d] = earned[d] /\ speedBonuses'[d] = speedBonuses[d]
    BY <1>1, <1>6, <2>3 DEF CollectionTypeOK
  <2>5. CollectionTypeOK'
    BY <1>1, <1>3, <1>4, <2>2, <2>4 DEF CollectionTypeOK, AssetRecord
  <2>6. \A x \in Assets : Tier(x)' = Tier(x)
    BY <2>2 DEF Tier
  <2>7. \A d \in Collectors : DiscoveredBy(d)' = DiscoveredBy(d)
    BY <2>2 DEF DiscoveredBy
  <2>8. MintedBy(c)' = MintedBy(c) \cup {a}
    BY <1>2, <2>2 DEF MintedBy
  <2>9. \A d \in Collectors \ {c} : MintedBy(d)' = MintedBy(d)
    BY <2>1, <2>2, Numbers DEF MintedBy, Taken
  <2>10. PaidFor(c)'
    BY <1>1, <1>2, <2>1, <2>4, <2>6, <2>7, <2>8, PaidMore
  <2>11. \A d \in Collectors \ {c} : PaidFor(d)'
    <3> TAKE d \in Collectors \ {c}
    <3>1. PaidFor(d) /\ DiscoveredBy(d) \subseteq DiscoveredBy(d)'
      BY <2>7 DEF CollectInv
    <3> QED  BY <2>4, <2>6, <2>9, <3>1, PaidKept
  <2>12. RoomFor(c)'
    <3>1. a \notin MintedBy(c)
      BY <2>1, Numbers DEF MintedBy, Taken
    <3>2. Cardinality(MintedBy(c)') = Cardinality(MintedBy(c)) + 1 /\ Cardinality(MintedBy(c)) \in Nat
      BY <2>8, <3>1, MintsFinite, FS_AddElement
    <3>3. lock'[c] = NoLock
      BY <1>1, <1>3 DEF CollectionTypeOK
    <3> QED  BY <1>2, <3>2, <3>3, Numbers DEF RoomFor
  <2>13. \A d \in Collectors \ {c} : RoomFor(d)'
    <3> TAKE d \in Collectors \ {c}
    <3>1. RoomFor(d) /\ lock'[d] = lock[d]
      BY <1>1, <1>3 DEF CollectInv, CollectionTypeOK
    <3> QED  BY <2>9, <3>1 DEF RoomFor
  <2> QED  BY <2>5, <2>10, <2>11, <2>12, <2>13 DEF CollectInv
<1> QED  BY <1>5, <1>6 DEF FinishMint

(* Every step of the collection game keeps the invariant. *)
LEMMA CollectStepInv == CollectInv /\ [CollectionNext]_collectionVars => CollectInv'
<1> SUFFICES ASSUME CollectInv, [CollectionNext]_collectionVars PROVE CollectInv'
  OBVIOUS
<1>1. CollectionTypeOK
  BY DEF CollectInv
<1>2. CASE CollectTick
  BY <1>1, <1>2, LockStep DEF CollectTick, collectorVars, CollectionTypeOK
<1>3. ASSUME NEW c \in Collectors, NEW a \in Assets, BeginMint(c, a) PROVE CollectInv'
  <2>1. UNCHANGED <<assets, earned, speedBonuses, tick, spot>> /\ Cardinality(MintedBy(c)) < CollectLimit
    BY <1>3 DEF BeginMint, mapVars
  <2>2. tick + Tier(a).duration \in Nat
    BY <1>1, TierType DEF CollectionTypeOK
  <2>3. lock' = [lock EXCEPT ![c] = [asset |-> a, endTime |-> tick + Tier(a).duration]]
    BY <1>3 DEF BeginMint
  <2>4. lock' \in [Collectors -> {NoLock} \cup [asset : Assets, endTime : Nat]]
    BY <1>1, <2>2, <2>3 DEF CollectionTypeOK
  <2>5. \A d \in Collectors : lock'[d] = lock[d] \/ Cardinality(MintedBy(d)) < CollectLimit
    BY <1>1, <2>1, <2>3 DEF CollectionTypeOK
  <2> QED  BY <1>1, <2>1, <2>4, <2>5, LockStep DEF CollectionTypeOK
<1>4. ASSUME NEW c \in Collectors, NEW d \in Collectors, ContestMint(c, d) PROVE CollectInv'
  <2>1. UNCHANGED <<assets, earned, speedBonuses, tick, spot>> /\ lock' = [lock EXCEPT ![d] = NoLock]
    BY <1>4 DEF ContestMint, mapVars
  <2>2. lock' \in [Collectors -> {NoLock} \cup [asset : Assets, endTime : Nat]]
    BY <1>1, <2>1 DEF CollectionTypeOK
  <2>3. \A x \in Collectors : lock'[x] = NoLock \/ lock'[x] = lock[x]
    BY <1>1, <2>1 DEF CollectionTypeOK
  <2> QED  BY <1>1, <2>1, <2>2, <2>3, LockStep DEF CollectionTypeOK
<1>5. ASSUME NEW c \in Collectors, NEW p \in Spots, Walk(c, p) PROVE CollectInv'
  BY <1>1, <1>5, LockStep DEF Walk, mapVars, CollectionTypeOK
<1>6. CASE UNCHANGED collectionVars
  BY <1>1, <1>6, LockStep DEF collectionVars, mapVars, collectorVars, CollectionTypeOK
<1> QED  BY <1>2, <1>3, <1>4, <1>5, <1>6, DiscoverStep, FinishStep DEF CollectionNext

(* CollectionTypeOK: the type of every variable of the collection rules.               *)
THEOREM CollectionTyped == CollectionSpec => []CollectionTypeOK
<1>1. CollectionInit => CollectInv
  BY CollectStarts
<1>2. CollectInv => CollectionTypeOK
  BY DEF CollectInv
<1> QED  BY <1>1, <1>2, CollectStepInv, PTL DEF CollectionSpec

-----------------------------------------------------------------------------
(* What a map pays. *)

MintShare == [a \in Assets |-> ForMint(a)]
FindShare == [a \in Assets |-> ForFind(a)]

(* The shares of an asset in the map's points are numbers. *)
LEMMA ShareTypes ==
    ASSUME CollectionTypeOK
    PROVE  \A a \in Assets : MintShare[a] \in Nat /\ FindShare[a] \in Nat
<1> TAKE a \in Assets
<1> DEFINE p == Tier(a).points
<1>1. p \in Nat /\ SetPercent \in Nat /\ SpeedPercent \in Nat /\ DiscoveryCredit \in Nat
  BY Numbers, TierType
<1> HIDE DEF p
<1>2. SetPercent * SpeedPercent \in Nat /\ 10000 * DiscoveryCredit \in Nat
  BY <1>1
<1>3. SetPercent * SpeedPercent * p \in Nat
  BY <1>1, <1>2
<1> QED  BY <1>2, <1>3 DEF MintShare, FindShare, ForMint, ForFind, p

(* A hundredth rounded down.                                                       *)
LEMMA Hundredth == ASSUME NEW n \in Nat PROVE n \div 100 \in Nat /\ 100 * (n \div 100) <= n
OBVIOUS

(* Products of natural numbers are natural, associative, and grow with a *)
(* factor.                                                               *)
LEMMA Product ==
    ASSUME NEW x \in Nat, NEW y \in Nat, NEW z \in Nat
    PROVE  x * y \in Nat /\ (x * y) * z = x * (y * z) /\ (y <= z => x * y <= x * z)
           /\ x * y = y * x /\ x * y * z \in Nat
BY Z3

(* What a collector earned, at the bonus of its set: no more than its mints at both.     *)
LEMMA MintsBound ==
    ASSUME CollectionTypeOK, NEW c \in Collectors, PaidFor(c),
           NEW k \in Nat, k <= SetPercent
    PROVE  10000 * ((earned[c] * k) \div 100) <= Sum(MintShare, MintedBy(c))
<1>1. PICK quick \in SUBSET (MintedBy(c) \cap DiscoveredBy(c)) : earned[c] = Worths(c, quick)
  BY DEF PaidFor, Worths
<1> DEFINE S == MintedBy(c)
           w == [a \in S |-> Worth(a, quick)]
           h == [a \in S |-> 100 * Worth(a, quick)]
           v == [a \in S |-> SpeedPercent * Tier(a).points]
           e == earned[c]
           m == Sum(MintShare, S)
           n == Sum(v, S)
<1>2. IsFiniteSet(S) /\ S \subseteq Assets /\ SetPercent \in Nat /\ SpeedPercent \in Nat
  BY MintsFinite, Numbers DEF MintedBy
<1>3. e \in Nat
  BY DEF CollectionTypeOK
<1>4. \A a \in S : /\ w[a] \in Int /\ h[a] = 100 * w[a]
                   /\ h[a] \in Int /\ v[a] \in Nat /\ h[a] <= v[a]
  <2> TAKE a \in S
  <2>1. a \in Assets
    BY <1>2
  <2>2. Worth(a, quick) \in Nat /\ 100 * Worth(a, quick) <= SpeedPercent * Tier(a).points
    BY <2>1, WorthType
  <2>3. Tier(a).points \in Nat
    BY <2>1, TierType
  <2>4. SpeedPercent * Tier(a).points \in Nat
    BY <1>2, <2>3
  <2>5. 100 * Worth(a, quick) \in Int
    BY <2>2
  <2> QED  BY <2>2, <2>4, <2>5
<1>5. \A a \in S : v[a] \in Int /\ MintShare[a] = SetPercent * v[a]
  <2> TAKE a \in S
  <2>1. Taken(a) /\ a \in Assets
    BY <1>2, Numbers DEF Taken, MintedBy
  <2> DEFINE p == Tier(a).points
  <2>2. p \in Nat
    BY <2>1, TierType
  <2>3. MintShare[a] = SetPercent * SpeedPercent * p /\ v[a] = SpeedPercent * p
    BY <2>1 DEF MintShare, ForMint
  <2> HIDE DEF p
  <2>4. (SetPercent * SpeedPercent) * p = SetPercent * (SpeedPercent * p) /\ SpeedPercent * p \in Nat
    BY <1>2, <2>2, Product
  <2> QED  BY <2>3, <2>4
<1>6. DOMAIN w = S
  OBVIOUS
<1>7. e = Sum(w, S)
  BY <1>1, <1>6 DEF Worths
<1> HIDE DEF S, w, h, v, e
<1>8. Sum(h, S) = 100 * e
  BY <1>2, <1>4, <1>7, SumTimes
<1>9. Sum(h, S) <= n
  BY <1>2, <1>4, SumGrows
<1>10. m = SetPercent * n
  BY <1>2, <1>5, SumTimes
<1>11. n \in Nat
  BY <1>2, <1>4, SumType
<1> HIDE DEF m, n
<1>12. 100 * e <= n
  BY <1>3, <1>8, <1>9, <1>11
<1> DEFINE x == e * k
           y == e * SetPercent
           z == x \div 100
<1>13. x \in Nat /\ y \in Nat /\ x <= y
  BY <1>2, <1>3, Product
<1>14. z \in Nat /\ 100 * z <= x
  <2> HIDE DEF x
  <2> QED  BY <1>13, Hundredth
<1>15. 100 * y <= m
  <2>1. 100 * e \in Nat /\ SetPercent * (100 * e) <= SetPercent * n
    BY <1>2, <1>3, <1>11, <1>12, Product
  <2>2. SetPercent * (100 * e) = 100 * (e * SetPercent)
    BY <1>2, <1>3
  <2> QED  BY <1>10, <2>1, <2>2
<1>16. m \in Nat
  BY <1>2, <1>10, <1>11, Product
<1> HIDE DEF x, y, z
<1>17. 10000 * z <= m
  BY <1>13, <1>14, <1>15, <1>16
<1> QED  BY <1>17 DEF z, x, e, m, S

(* The shares of the assets a collector has discovered. *)
LEMMA FindsBound ==
    ASSUME NEW c \in Collectors
    PROVE  Sum(FindShare, DiscoveredBy(c)) = 10000 * (DiscoveryCredit * Cardinality(DiscoveredBy(c)))
<1> DEFINE S == DiscoveredBy(c)
           k == 10000 * DiscoveryCredit
           n == Cardinality(S)
<1>1. IsFiniteSet(S) /\ n \in Nat /\ DiscoveryCredit \in Nat
  BY MintsFinite, Numbers
<1>2. \A a \in S : FindShare[a] = k
  BY Numbers DEF FindShare, ForFind, Found, DiscoveredBy
<1>3. k \in Int
  BY <1>1
<1> HIDE DEF S, k
<1>4. Sum(FindShare, S) = k * n
  BY <1>1, <1>2, <1>3, SumOfEqual
<1> HIDE DEF n
<1>5. (10000 * DiscoveryCredit) * n = 10000 * (DiscoveryCredit * n)
  BY <1>1, Product
<1> QED  BY <1>4, <1>5 DEF S, k, n

(* The final score of a collector is at most the shares of its assets. *)
LEMMA ScoreBound ==
    ASSUME CollectionTypeOK, NEW c \in Collectors, PaidFor(c)
    PROVE  /\ FinalScore(c) \in Nat
           /\ 10000 * FinalScore(c) <= Sum(MintShare, MintedBy(c)) + Sum(FindShare, DiscoveredBy(c))
           /\ Sum(MintShare, MintedBy(c)) \in Int /\ Sum(FindShare, DiscoveredBy(c)) \in Int
<1> DEFINE k == IF HasSet(c) THEN SetPercent ELSE 100
           q == (earned[c] * k) \div 100
           d == DiscoveryCredit * Cardinality(DiscoveredBy(c))
           m == Sum(MintShare, MintedBy(c))
           f == Sum(FindShare, DiscoveredBy(c))
<1>1. k \in Nat /\ k <= SetPercent
  BY Numbers
<1>2. FinalScore(c) = q + d
  BY DEF FinalScore
<1> HIDE DEF k
<1>3. 10000 * q <= m
  BY <1>1, MintsBound
<1>4. f = 10000 * d
  BY FindsBound
<1>5. q \in Nat
  <2> DEFINE x == earned[c] * k
  <2>1. earned[c] \in Nat
    BY DEF CollectionTypeOK
  <2>2. x \in Nat
    BY <1>1, <2>1, Product
  <2> HIDE DEF x
  <2>3. x \div 100 \in Nat
    BY <2>2, Hundredth
  <2> QED  BY <2>3 DEF x
<1>6. d \in Nat
  BY MintsFinite, Numbers, Product
<1>7. m \in Int
  <2>1. \A a \in MintedBy(c) : a \in Assets
    BY DEF MintedBy
  <2>2. \A a \in MintedBy(c) : MintShare[a] \in Int
    BY <2>1, ShareTypes
  <2>3. IsFiniteSet(MintedBy(c))
    BY MintsFinite
  <2> QED  BY <2>2, <2>3, SumType
<1> HIDE DEF q, d, m, f
<1>8. 10000 * FinalScore(c) <= m + f /\ FinalScore(c) \in Nat /\ f \in Int
  BY <1>2, <1>3, <1>4, <1>5, <1>6, <1>7
<1> QED  BY <1>7, <1>8 DEF m, f

(* What each has of a share, summed over the collectors, is no more than there is of it.  *)
LEMMA SharesOf ==
    ASSUME NEW f, \A a \in Assets : f[a] \in Nat, NEW owner,
           \A a \in Assets : owner[a] \in Collectors \cup {NoCollector},
           NEW g, \A c \in Collectors : g[c] = Sum(f, {a \in Assets : owner[a] = c})
    PROVE  Sum(g, Collectors) <= Sum(f, Assets)
<1> DEFINE P == Collectors \cup {NoCollector}
           Own(c) == {a \in Assets : owner[a] = c}
           h == [c \in P |-> Sum(f, Own(c))]
<1>1. IsFiniteSet(P) /\ IsFiniteSet(Assets) /\ IsFiniteSet(Collectors) /\ NoCollector \notin Collectors
  BY Numbers, FS_AddElement
<1>2. \A c : Sum(f, Own(c)) \in Nat
  <2> TAKE c
  <2>1. IsFiniteSet(Own(c)) /\ \A a \in Own(c) : f[a] \in Nat
    BY <1>1, FS_Subset
  <2> HIDE DEF Own
  <2> QED  BY <2>1, SumType
<1>3. \A c \in P : h[c] = Sum(f, Own(c)) /\ h[c] \in Nat
  BY <1>2
<1> HIDE DEF h
<1>4. Sum(h, P) = Sum(f, Assets)
  <2>1. \A c \in P : h[c] = Sum(f, {a \in Assets : owner[a] = c})
    BY <1>3
  <2>2. \A a \in Assets : owner[a] \in P /\ f[a] \in Int
    OBVIOUS
  <2> HIDE DEF P
  <2> QED  BY <1>1, <2>1, <2>2, SumByOwner
<1>5. Sum(h, Collectors) <= Sum(h, P)
  <2>0. Collectors \in SUBSET P
    OBVIOUS
  <2>1. Collectors \in SUBSET P /\ \A c \in P : h[c] \in Nat
    BY <1>3, <2>0
  <2> HIDE DEF P
  <2> QED  BY <1>1, <2>1, SumOfPart
<1>6. Sum(h, Collectors) = Sum(g, Collectors)
  <2>1. ASSUME NEW c \in Collectors PROVE h[c] \in Int /\ h[c] = g[c]
    <3>1. c \in P /\ g[c] = Sum(f, Own(c))
      OBVIOUS
    <3> HIDE DEF P, Own
    <3>2. h[c] \in Nat /\ h[c] = Sum(f, Own(c))
      BY <1>3, <3>1
    <3> QED  BY <3>1, <3>2
  <2> QED  BY <1>1, <2>1, SumSame
<1> QED  BY <1>4, <1>5, <1>6

(* The scores of all collectors are at most the shares of all assets: each *)
(* asset has one finder and one minter.                                    *)
LEMMA MapBound ==
    ASSUME CollectionTypeOK, \A c \in Collectors : PaidFor(c)
    PROVE  10000 * SumFunction([c \in Collectors |-> FinalScore(c)])
               <= SumFunction([a \in Assets |-> ForFind(a) + ForMint(a)])
<1> DEFINE s == [c \in Collectors |-> FinalScore(c)]
           t == [c \in Collectors |-> 10000 * FinalScore(c)]
           gm == [c \in Collectors |-> Sum(MintShare, MintedBy(c))]
           gf == [c \in Collectors |-> Sum(FindShare, DiscoveredBy(c))]
           g == [c \in Collectors |-> gm[c] + gf[c]]
           all == [a \in Assets |-> ForFind(a) + ForMint(a)]
<1>1. IsFiniteSet(Assets) /\ IsFiniteSet(Collectors)
  BY Numbers
<1>2. \A c \in Collectors :
          /\ s[c] \in Int /\ t[c] = 10000 * s[c] /\ t[c] \in Int
          /\ gm[c] \in Int /\ gf[c] \in Int /\ g[c] = gm[c] + gf[c] /\ g[c] \in Int /\ t[c] <= g[c]
  BY ScoreBound
<1>3. \A a \in Assets : /\ MintShare[a] \in Nat /\ FindShare[a] \in Nat
                        /\ all[a] = FindShare[a] + MintShare[a]
  BY ShareTypes DEF MintShare, FindShare
<1>4. DOMAIN s = Collectors /\ DOMAIN all = Assets
  OBVIOUS
<1>5. Sum(gm, Collectors) <= Sum(MintShare, Assets)
  <2> DEFINE owner == [a \in Assets |-> assets[a].mintedBy]
  <2>1. \A a \in Assets : owner[a] \in Collectors \cup {NoCollector}
    BY DEF CollectionTypeOK
  <2>2. \A c \in Collectors : gm[c] = Sum(MintShare, {a \in Assets : owner[a] = c})
    <3>1. \A c \in Collectors : {a \in Assets : owner[a] = c} = MintedBy(c)
      BY DEF MintedBy
    <3> QED  BY <3>1
  <2>3. \A a \in Assets : MintShare[a] \in Nat
    BY <1>3
  <2> HIDE DEF owner, gm
  <2> QED  BY <2>1, <2>2, <2>3, SharesOf
<1>6. Sum(gf, Collectors) <= Sum(FindShare, Assets)
  <2> DEFINE owner == [a \in Assets |-> assets[a].discoveredBy]
  <2>1. \A a \in Assets : owner[a] \in Collectors \cup {NoCollector}
    BY DEF CollectionTypeOK
  <2>2. \A c \in Collectors : gf[c] = Sum(FindShare, {a \in Assets : owner[a] = c})
    <3>1. \A c \in Collectors : {a \in Assets : owner[a] = c} = DiscoveredBy(c)
      BY DEF DiscoveredBy
    <3> QED  BY <3>1
  <2>3. \A a \in Assets : FindShare[a] \in Nat
    BY <1>3
  <2> HIDE DEF owner, gf
  <2> QED  BY <2>1, <2>2, <2>3, SharesOf
<1> HIDE DEF s, t, gm, gf, g, all
<1>7. Sum(t, Collectors) = 10000 * Sum(s, Collectors)
  BY <1>1, <1>2, SumTimes
<1>8. Sum(t, Collectors) <= Sum(g, Collectors)
  BY <1>1, <1>2, SumGrows
<1>9. Sum(g, Collectors) = Sum(gm, Collectors) + Sum(gf, Collectors)
  BY <1>1, <1>2, SumOfSums
<1>10. Sum(all, Assets) = Sum(FindShare, Assets) + Sum(MintShare, Assets)
  BY <1>1, <1>3, SumOfSums
<1>11. /\ Sum(s, Collectors) \in Int /\ Sum(t, Collectors) \in Int /\ Sum(g, Collectors) \in Int
       /\ Sum(gm, Collectors) \in Int /\ Sum(gf, Collectors) \in Int
  BY <1>1, <1>2, SumType
<1>12. Sum(FindShare, Assets) \in Int /\ Sum(MintShare, Assets) \in Int
  BY <1>1, <1>3, SumType
<1>13. 10000 * Sum(s, Collectors) <= Sum(all, Assets)
  BY <1>5, <1>6, <1>7, <1>8, <1>9, <1>10, <1>11, <1>12
<1> QED  BY <1>4, <1>13 DEF s, all

(* MapPaysOnce: for any map and any collectors, every asset is paid for once, at most at   *)
(* its speed price with the set bonus, and a collector is paid its own mints.            *)
THEOREM MapsPayOnce == CollectionSpec => []MapPaysOnce
<1>1. CollectionInit => CollectInv
  BY CollectStarts
<1>2. CollectInv => MapPaysOnce
  <2> SUFFICES ASSUME CollectInv PROVE MapPaysOnce
    OBVIOUS
  <2>1. \A c \in Collectors : PaidFor(c) /\ RoomFor(c)
    BY DEF CollectInv
  <2>2. 10000 * SumFunction([c \in Collectors |-> FinalScore(c)])
            <= SumFunction([a \in Assets |-> ForFind(a) + ForMint(a)])
    BY MapBound DEF CollectInv
  <2> HIDE DEF SumFunction
  <2> QED  BY <2>1, <2>2 DEF MapPaysOnce, RoomFor
<1> QED  BY <1>1, <1>2, CollectStepInv, PTL DEF CollectionSpec

-----------------------------------------------------------------------------
(* The powerups. *)

HIDE DEF Sum, SumFunction

(* A finite set as a sequence: each member once. *)
LEMMA SetToSeqIs ==
    ASSUME NEW E, IsFiniteSet(E)
    PROVE  /\ SetToSeq(E) \in Seq(E)
           /\ \A e \in E : \E i \in 1 .. Len(SetToSeq(E)) : SetToSeq(E)[i] = e
           /\ \A i, j \in 1 .. Len(SetToSeq(E)) : SetToSeq(E)[i] = SetToSeq(E)[j] => i = j
<1> DEFINE n == Cardinality(E)
           q == SetToSeq(E)
<1>1. n \in Nat /\ \E f : f \in Bijection(1 .. n, E)
  BY FS_CardinalityType DEF ExistsBijection
<1>2. \E f \in [1 .. n -> E] : IsInjective(f)
  BY <1>1 DEF Bijection, Injection
<1>3. q \in [1 .. n -> E] /\ IsInjective(q)
  BY <1>2 DEF SetToSeq
<1> HIDE DEF n, q
<1>4. q \in Seq(E) /\ Len(q) = n
  BY <1>1, <1>3
<1>5. q \in Injection(1 .. n, E)
  BY <1>3 DEF Injection
<1>6. IsFiniteSet(1 .. n) /\ Cardinality(1 .. n) = n
  <2>1. 1 \in Int /\ n \in Int
    BY <1>1
  <2>2. IsFiniteSet(1 .. n) /\ Cardinality(1 .. n) = IF 1 > n THEN 0 ELSE n - 1 + 1
    BY <2>1, FS_Interval
  <2> QED  BY <1>1, <2>2
<1>7. q \in Surjection(1 .. n, E)
  <2>1. Cardinality(1 .. n) = Cardinality(E)
    BY <1>6 DEF n
  <2> QED  BY <1>5, <2>1, FS_Injection
<1>8. \A e \in E : \E i \in 1 .. n : q[i] = e
  BY <1>7 DEF Surjection
<1>9. \A i, j \in 1 .. n : q[i] = q[j] => i = j
  BY <1>3 DEF IsInjective
<1> QED  BY <1>4, <1>8, <1>9 DEF q

-----------------------------------------------------------------------------
(* The list new is the list old with each member of E once behind it. *)
Later(old, new) == Len(old) + 1 .. Len(new)
Grown(old, new, E) ==
    /\ Len(old) \in Nat /\ Len(new) \in Nat /\ Len(old) <= Len(new)
    /\ DOMAIN old = 1 .. Len(old) /\ DOMAIN new = 1 .. Len(new)
    /\ \A i \in 1 .. Len(old) : new[i] = old[i]
    /\ \A i \in Later(old, new) : new[i] \in E
    /\ \A e \in E : \E i \in Later(old, new) : new[i] = e
    /\ \A i, j \in Later(old, new) : new[i] = new[j] => i = j

(* A finite set appended to a list. *)
LEMMA Grows ==
    ASSUME NEW S, NEW old, old \in Seq(S), NEW E, IsFiniteSet(E), E \subseteq S
    PROVE  old \o SetToSeq(E) \in Seq(S) /\ Grown(old, old \o SetToSeq(E), E)
<1> DEFINE q == SetToSeq(E)
           n == Len(old)
           l == Len(q)
           new == old \o q
<1>1. /\ q \in Seq(E)
      /\ \A e \in E : \E i \in 1 .. l : q[i] = e
      /\ \A i, j \in 1 .. l : q[i] = q[j] => i = j
  BY SetToSeqIs
<1> HIDE DEF q
<1>2. q \in Seq(S) /\ n \in Nat /\ l \in Nat /\ DOMAIN old = 1 .. n
  BY <1>1
<1>3. /\ new \in Seq(S) /\ Len(new) = n + l
      /\ \A i \in 1 .. n + l : new[i] = IF i <= n THEN old[i] ELSE q[i - n]
  BY <1>2, ConcatProperties
<1>4. DOMAIN new = 1 .. n + l /\ \A i \in 1 .. l : q[i] \in E
  BY <1>1, <1>3
<1> HIDE DEF n, l, new
<1>5. \A i \in 1 .. n : new[i] = old[i]
  BY <1>2, <1>3
<1>6. \A i \in n + 1 .. n + l : new[i] = q[i - n] /\ i - n \in 1 .. l
  BY <1>2, <1>3
<1>7. \A e \in E : \E i \in n + 1 .. n + l : new[i] = e
  <2> SUFFICES ASSUME NEW e \in E PROVE \E i \in n + 1 .. n + l : new[i] = e
    OBVIOUS
  <2>1. PICK i \in 1 .. l : q[i] = e
    BY <1>1
  <2>2. i + n \in n + 1 .. n + l /\ (i + n) - n = i
    BY <1>2
  <2>3. new[i + n] = e
    BY <1>6, <2>1, <2>2
  <2> QED  BY <2>2, <2>3
<1>8. \A i, j \in n + 1 .. n + l : new[i] = new[j] => i = j
  <2> SUFFICES ASSUME NEW i \in n + 1 .. n + l, NEW j \in n + 1 .. n + l, new[i] = new[j] PROVE i = j
    OBVIOUS
  <2>1. i - n = j - n
    BY <1>1, <1>6
  <2> QED  BY <1>2, <2>1
<1>9. n + 1 .. n + l = Later(old, new)
  BY <1>3 DEF Later, n
<1>10. \A i \in n + 1 .. n + l : new[i] \in E
  BY <1>4, <1>6
<1>11. Grown(old, new, E)
  <2>1. Len(old) = n /\ Len(new) = n + l /\ n <= n + l /\ n + l \in Nat
    BY <1>2, <1>3 DEF n
  <2> QED  BY <1>2, <1>4, <1>5, <1>7, <1>8, <1>9, <1>10, <2>1 DEF Grown
<1> QED  BY <1>3, <1>11 DEF new, q

(* Two sets without a common member appended in turn are their union appended. *)
LEMMA GrowsOn ==
    ASSUME NEW a, NEW b, NEW c, NEW E, NEW F, Grown(a, b, E), Grown(b, c, F), E \cap F = {}
    PROVE  Grown(a, c, E \cup F)
<1> DEFINE l == Len(a)
           m == Len(b)
           n == Len(c)
<1>1. /\ l \in Nat /\ m \in Nat /\ n \in Nat /\ l <= m /\ m <= n
      /\ DOMAIN a = 1 .. l /\ DOMAIN c = 1 .. n
  BY DEF Grown
<1>2. /\ \A i \in 1 .. l : b[i] = a[i]
      /\ \A i \in l + 1 .. m : b[i] \in E
      /\ \A e \in E : \E i \in l + 1 .. m : b[i] = e
      /\ \A i, j \in l + 1 .. m : b[i] = b[j] => i = j
  BY DEF Grown, Later
<1>3. /\ \A i \in 1 .. m : c[i] = b[i]
      /\ \A i \in m + 1 .. n : c[i] \in F
      /\ \A e \in F : \E i \in m + 1 .. n : c[i] = e
      /\ \A i, j \in m + 1 .. n : c[i] = c[j] => i = j
  BY DEF Grown, Later
<1> HIDE DEF l, m, n
<1>4. \A i \in 1 .. l : c[i] = a[i]
  BY <1>1, <1>2, <1>3
<1>5. \A i \in l + 1 .. n : (i \in l + 1 .. m /\ c[i] = b[i] /\ c[i] \in E) \/ (i \in m + 1 .. n /\ c[i] \in F)
  BY <1>1, <1>2, <1>3
<1>6. \A e \in E \cup F : \E i \in l + 1 .. n : c[i] = e
  <2> SUFFICES ASSUME NEW e \in E \cup F PROVE \E i \in l + 1 .. n : c[i] = e
    OBVIOUS
  <2>1. CASE e \in E
    <3>1. PICK i \in l + 1 .. m : b[i] = e
      BY <1>2, <2>1
    <3>2. i \in l + 1 .. n /\ i \in 1 .. m
      BY <1>1
    <3> QED  BY <1>3, <3>1, <3>2
  <2>2. CASE e \in F
    <3>1. PICK i \in m + 1 .. n : c[i] = e
      BY <1>3, <2>2
    <3>2. i \in l + 1 .. n
      BY <1>1
    <3> QED  BY <3>1, <3>2
  <2> QED  BY <2>1, <2>2
<1>7. ASSUME NEW i \in l + 1 .. n, NEW j \in l + 1 .. n, c[i] = c[j] PROVE i = j
  <2>1. CASE i \in l + 1 .. m /\ j \in l + 1 .. m
    BY <1>2, <1>5, <1>7, <1>1, <2>1, <1>3
  <2>2. CASE i \in m + 1 .. n /\ j \in m + 1 .. n
    BY <1>3, <1>7, <2>2
  <2>3. ~ (i \in l + 1 .. m /\ j \in m + 1 .. n) /\ ~ (j \in l + 1 .. m /\ i \in m + 1 .. n)
    BY <1>1, <1>2, <1>3, <1>7
  <2>4. (i \in l + 1 .. m \/ i \in m + 1 .. n) /\ (j \in l + 1 .. m \/ j \in m + 1 .. n)
    BY <1>1
  <2> QED  BY <2>1, <2>2, <2>3, <2>4
<1>8. \A i \in l + 1 .. n : c[i] \in E \cup F
  BY <1>5
<1>9. l <= n
  BY <1>1
<1> QED  BY <1>1, <1>4, <1>6, <1>7, <1>8, <1>9 DEF Grown, Later, l, n

-----------------------------------------------------------------------------
(* The invariant: what the property says, by the members of the sets it compares; the     *)
(* spawn time of what lies on the field; and no spawn within an interval of the next.     *)

EvSet(n, tm) == [kind : {"spawn", "expire", "taken"}, id : 0 .. n - 1, type : Types,
                 to : PwSeats \cup {"all"}, time : 0 .. tm]
PwSet(n, tm) == [id : 0 .. n - 1, type : Types, at : Fields, spawnedAt : 0 .. tm]

(* The parts of an event. *)
LEMMA EvParts ==
    ASSUME NEW n, NEW tm, NEW e \in EvSet(n, tm)
    PROVE  /\ e.kind \in {"spawn", "expire", "taken"} /\ e.id \in 0 .. n - 1 /\ e.type \in Types
           /\ e.time \in 0 .. tm
BY DEF EvSet

(* The parts of a powerup. *)
LEMMA PwParts ==
    ASSUME NEW n, NEW tm, NEW pw \in PwSet(n, tm)
    PROVE  pw.id \in 0 .. n - 1 /\ pw.type \in Types /\ pw.at \in Fields /\ pw.spawnedAt \in 0 .. tm
BY DEF PwSet

(* What the constants are. *)
LEMMA PowerupConstants ==
    /\ PwFirst \in Nat /\ PwInterval \in Nat /\ PwLifetime \in Nat /\ PwMaxActive \in Nat
    /\ PwDuration \in [Types -> Nat] /\ SeatOrder \in Seq(PwSeats)
BY PowerupAssumption DEF PwSeats

AwardsOf(s, t) == {i \in SentOf({"taken"}) : sent[i].to = s /\ sent[i].type = t}
EffectIs(s, t) ==
    /\ effects[s][t] = 0 \/ \E i \in AwardsOf(s, t) : effects[s][t] = sent[i].time + PwDuration[t]
    /\ \A i \in AwardsOf(s, t) : sent[i].time + PwDuration[t] <= effects[s][t]

Announced == \A x \in 0 .. nextId - 1 : \E i \in SentOf({"spawn"}) : sent[i].id = x
EndsAreGone == \A pw \in active : \A i \in SentOf({"expire", "taken"}) : sent[i].id # pw.id
LivesOrEnded ==
    \A x \in 0 .. nextId - 1 : \/ \E pw \in active : pw.id = x
                               \/ \E i \in SentOf({"expire", "taken"}) : sent[i].id = x
Apart == \A i, j \in SentOf({"spawn"}) : i < j => sent[j].time - sent[i].time >= PwInterval
NextApart == \A i \in SentOf({"spawn"}) : sent[i].time + PwInterval <= nextSpawnAt
BornThen == \A pw \in active : \A i \in SentOf({"spawn"}) : sent[i].id = pw.id => sent[i].time = pw.spawnedAt
InLifetime ==
    \A i \in SentOf({"taken"}), j \in SentOf({"spawn"}) :
        sent[i].id = sent[j].id => sent[i].time - sent[j].time <= PwLifetime

PowInv ==
    /\ PowerupTypeOK
    /\ IsFiniteSet(active) /\ Cardinality(active) <= PwMaxActive
    /\ \A pw, q \in active : pw.id = q.id => pw = q
    /\ OnePerId(SentOf({"spawn"})) /\ OnePerId(SentOf({"expire", "taken"}))
    /\ Announced /\ EndsAreGone /\ LivesOrEnded
    /\ Apart /\ NextApart /\ BornThen /\ InLifetime
    /\ \A s \in PwSeats, t \in Types : EffectIs(s, t)

(* The type invariant, by the sets of events and powerups. *)
LEMMA PowTypes ==
    PowerupTypeOK <=> /\ pwTime \in Nat /\ nextId \in Nat /\ nextSpawnAt \in Nat
                      /\ active \subseteq PwSet(nextId, pwTime)
                      /\ standing \in [PwSeats -> Fields]
                      /\ effects \in [PwSeats -> [Types -> Nat]]
                      /\ sent \in Seq(EvSet(nextId, pwTime))
BY DEF PowerupTypeOK, PwSet, EvSet

-----------------------------------------------------------------------------
(* A tick. *)

(* What a tick may spawn. *)
Fresh(new) == (Spawned = {} /\ new = {}) \/ \E pw \in Spawned : new = {pw}

(* The field with it. *)
LEMMA FieldIs ==
    ASSUME PowInv, NEW new, Fresh(new)
    PROVE  /\ IsFiniteSet(active \cup new) /\ Cardinality(active \cup new) <= PwMaxActive
           /\ nextId + Cardinality(new) \in Nat /\ nextId <= nextId + Cardinality(new)
           /\ IsFiniteSet(new)
           /\ active \cup new \subseteq PwSet(nextId + Cardinality(new), pwTime)
           /\ \A pw, q \in active \cup new : pw.id = q.id => pw = q
           /\ \/ new = {} /\ nextId + Cardinality(new) = nextId
              \/ /\ nextId + Cardinality(new) = nextId + 1 /\ Due
                 /\ \E pw : new = {pw} /\ pw.id = nextId /\ pw.spawnedAt = pwTime
<1>1. /\ pwTime \in Nat /\ nextId \in Nat /\ active \subseteq PwSet(nextId, pwTime) /\ PwMaxActive \in Nat
      /\ IsFiniteSet(active) /\ Cardinality(active) <= PwMaxActive
      /\ \A pw, q \in active : pw.id = q.id => pw = q
  BY PowTypes, PowerupConstants DEF PowInv
<1>2. \A pw \in active : pw.id \in 0 .. nextId - 1
  BY <1>1, PwParts
<1>3. CASE new = {}
  <2>1. Cardinality(new) = 0 /\ active \cup new = active
    BY <1>3, FS_EmptySet
  <2> QED  BY <1>1, <1>3, <2>1, FS_EmptySet
<1>4. ASSUME NEW pw \in Spawned, new = {pw}
      PROVE  /\ IsFiniteSet(active \cup new) /\ Cardinality(active \cup new) <= PwMaxActive
             /\ IsFiniteSet(new) /\ Cardinality(new) = 1 /\ Due
             /\ active \cup new \subseteq PwSet(nextId + 1, pwTime)
             /\ \A p, q \in active \cup new : p.id = q.id => p = q
             /\ pw.id = nextId /\ pw.spawnedAt = pwTime
  <2>1. Due /\ Cardinality(active) < PwMaxActive
    BY <1>4 DEF Spawned
  <2>2. PICK t \in Types, h \in Fields : pw = [id |-> nextId, type |-> t, at |-> h, spawnedAt |-> pwTime]
    BY <1>4, <2>1 DEF Spawned
  <2>3. pw.id = nextId /\ pw.spawnedAt = pwTime
    BY <2>2
  <2>4. pw \in PwSet(nextId + 1, pwTime)
    BY <1>1, <2>2 DEF PwSet
  <2>5. active \subseteq PwSet(nextId + 1, pwTime)
    <3>1. 0 .. nextId - 1 \subseteq 0 .. (nextId + 1) - 1
      BY <1>1
    <3> QED  BY <1>1, <3>1 DEF PwSet
  <2>6. pw \notin active
    BY <1>1, <1>2, <2>3
  <2>7. IsFiniteSet(active \cup {pw}) /\ Cardinality(active \cup {pw}) = Cardinality(active) + 1
    BY <1>1, <2>6, FS_AddElement
  <2>8. Cardinality(active) \in Nat
    BY <1>1, FS_CardinalityType
  <2>9. Cardinality(active \cup new) <= PwMaxActive
    BY <1>1, <1>4, <2>1, <2>7, <2>8
  <2>10. \A p, q \in active \cup new : p.id = q.id => p = q
    <3>1. \A p \in active : p.id # nextId
      BY <1>1, <1>2
    <3> QED  BY <1>1, <1>4, <2>3, <3>1
  <2>11. IsFiniteSet(new) /\ Cardinality(new) = 1
    BY <1>4, FS_Singleton
  <2> QED  BY <1>4, <2>1, <2>3, <2>4, <2>5, <2>7, <2>9, <2>10, <2>11
<1>5. CASE \E pw \in Spawned : new = {pw}
  <2>1. PICK pw \in Spawned : new = {pw}
    BY <1>5
  <2>2. /\ IsFiniteSet(active \cup new) /\ Cardinality(active \cup new) <= PwMaxActive
        /\ IsFiniteSet(new) /\ Cardinality(new) = 1 /\ Due
        /\ active \cup new \subseteq PwSet(nextId + 1, pwTime)
        /\ \A p, q \in active \cup new : p.id = q.id => p = q
        /\ pw.id = nextId /\ pw.spawnedAt = pwTime
    BY <1>4, <2>1
  <2>3. \E p : new = {p} /\ p.id = nextId /\ p.spawnedAt = pwTime
    BY <2>1, <2>2
  <2>4. nextId + Cardinality(new) = nextId + 1 /\ nextId + 1 \in Nat /\ nextId <= nextId + 1
    BY <1>1, <2>2
  <2> QED  BY <2>2, <2>3, <2>4
<1> QED  BY <1>3, <1>5 DEF Fresh

(* Who takes what: each powerup is taken once, by a seat. *)
LEMMA TakenIs ==
    ASSUME NEW F, IsFiniteSet(F)
    PROVE  /\ IsFiniteSet(TakenBy(F))
           /\ \A a \in TakenBy(F) : a.pw \in F /\ a.by \in PwSeats
           /\ \A a, b \in TakenBy(F) : a.pw = b.pw => a = b
<1> DEFINE G == {q \in F : Takers(q) # {}}
           f == [pw \in G |-> [pw |-> pw, by |-> SeatOrder[Min(Takers(pw))]]]
<1>1. IsFiniteSet(G)
  BY FS_Subset
<1>2. TakenBy(F) = {f[pw] : pw \in G}
  BY DEF TakenBy
<1>3. \A pw \in G : f[pw].pw = pw /\ f[pw].by = SeatOrder[Min(Takers(pw))]
  OBVIOUS
<1>4. \A pw \in G : SeatOrder[Min(Takers(pw))] \in PwSeats
  <2> SUFFICES ASSUME NEW pw \in G PROVE SeatOrder[Min(Takers(pw))] \in PwSeats
    OBVIOUS
  <2>1. DOMAIN SeatOrder \subseteq Nat
    BY PowerupConstants
  <2>2. Takers(pw) \subseteq DOMAIN SeatOrder /\ Takers(pw) # {}
    BY DEF Takers
  <2>3. Min(Takers(pw)) \in Takers(pw)
    BY <2>1, <2>2, MinIs
  <2> QED  BY <2>2, <2>3 DEF PwSeats, Range
<1>5. IsFiniteSet(TakenBy(F))
  <2>1. f \in Surjection(G, TakenBy(F))
    BY <1>2 DEF Surjection
  <2> QED  BY <1>1, <2>1, FS_Surjection
<1>6. G \subseteq F
  OBVIOUS
<1> HIDE DEF f, G
<1>7. \A a \in TakenBy(F) : \E pw \in G : a = f[pw] /\ a.pw = pw
  BY <1>2, <1>3
<1>8. \A a, b \in TakenBy(F) : a.pw = b.pw => a = b
  BY <1>7
<1>9. \A a \in TakenBy(F) : a.pw \in F /\ a.by \in PwSeats
  BY <1>3, <1>4, <1>6, <1>7
<1> QED  BY <1>5, <1>8, <1>9

-----------------------------------------------------------------------------
(* What a tick of new does. *)
Ticked(new) == PowInv /\ Fresh(new) /\ TickWith(new) /\ pwTime' = pwTime /\ standing' = standing

Field(new) == active \cup new
GoneOf(new) == Expired(Field(new))
TakenOf(new) == TakenBy(Field(new) \ GoneOf(new))
SpawnEvents(new) == {Event("spawn", pw, "all") : pw \in new}
ExpireEvents(new) == {Event("expire", pw, "all") : pw \in GoneOf(new)}
TakenEvents(new) == {Event("taken", a.pw, a.by) : a \in TakenOf(new)}
AllEvents(new) == SpawnEvents(new) \cup ExpireEvents(new) \cup TakenEvents(new)

(* A tick appends the events of what it spawned, let go and awarded, each once. *)
LEMMA TickSends ==
    ASSUME NEW new, Ticked(new)
    PROVE  sent' \in Seq(EvSet(nextId', pwTime)) /\ Grown(sent, sent', AllEvents(new))
<1> DEFINE n == nextId + Cardinality(new)
           F == Field(new)
           S == EvSet(n, pwTime)
<1>1. /\ PowInv /\ Fresh(new) /\ pwTime \in Nat /\ sent \in Seq(EvSet(nextId, pwTime)) /\ nextId \in Nat
      /\ nextId' = n
      /\ sent' = sent \o SetToSeq(SpawnEvents(new)) \o SetToSeq(ExpireEvents(new)) \o SetToSeq(TakenEvents(new))
  BY PowTypes DEF Ticked, PowInv, TickWith, SpawnEvents, ExpireEvents, TakenEvents, TakenOf, GoneOf, Field
<1>2. /\ IsFiniteSet(F) /\ IsFiniteSet(new) /\ n \in Nat /\ nextId <= n /\ F \subseteq PwSet(n, pwTime)
  BY <1>1, FieldIs DEF Field
<1>3. \A pw \in F : pw.id \in 0 .. n - 1 /\ pw.type \in Types
  BY <1>2, PwParts
<1>4. GoneOf(new) \subseteq F /\ new \subseteq F
  BY DEF GoneOf, Expired, Field
<1>5. IsFiniteSet(GoneOf(new)) /\ IsFiniteSet(F \ GoneOf(new))
  BY <1>2, <1>4, FS_Subset
<1>6. /\ IsFiniteSet(TakenOf(new))
      /\ \A a \in TakenOf(new) : a.pw \in F /\ a.by \in PwSeats
  BY <1>5, TakenIs DEF TakenOf
<1>7. sent \in Seq(S)
  <2>1. EvSet(nextId, pwTime) \subseteq S
    <3>1. 0 .. nextId - 1 \subseteq 0 .. n - 1
      BY <1>1, <1>2
    <3> QED  BY <3>1 DEF EvSet
  <2> QED  BY <1>1, <2>1
<1> HIDE DEF n, F
<1>8. IsFiniteSet(SpawnEvents(new)) /\ SpawnEvents(new) \subseteq S
  <2>1. [pw \in new |-> Event("spawn", pw, "all")] \in Surjection(new, SpawnEvents(new))
    BY DEF Surjection, SpawnEvents
  <2>2. \A pw \in new : Event("spawn", pw, "all") \in S
    BY <1>1, <1>3, <1>4 DEF Event, EvSet
  <2> QED  BY <1>2, <2>1, <2>2, FS_Surjection DEF SpawnEvents
<1>9. IsFiniteSet(ExpireEvents(new)) /\ ExpireEvents(new) \subseteq S
  <2>1. [pw \in GoneOf(new) |-> Event("expire", pw, "all")] \in Surjection(GoneOf(new), ExpireEvents(new))
    BY DEF Surjection, ExpireEvents
  <2>2. \A pw \in GoneOf(new) : Event("expire", pw, "all") \in S
    BY <1>1, <1>3, <1>4 DEF Event, EvSet
  <2> QED  BY <1>5, <2>1, <2>2, FS_Surjection DEF ExpireEvents
<1>10. IsFiniteSet(TakenEvents(new)) /\ TakenEvents(new) \subseteq S
  <2>1. [a \in TakenOf(new) |-> Event("taken", a.pw, a.by)] \in Surjection(TakenOf(new), TakenEvents(new))
    BY DEF Surjection, TakenEvents
  <2>2. \A a \in TakenOf(new) : Event("taken", a.pw, a.by) \in S
    BY <1>1, <1>3, <1>6 DEF Event, EvSet
  <2> QED  BY <1>6, <2>1, <2>2, FS_Surjection DEF TakenEvents
<1>11. /\ SpawnEvents(new) \cap ExpireEvents(new) = {}
       /\ (SpawnEvents(new) \cup ExpireEvents(new)) \cap TakenEvents(new) = {}
  <2>1. \A e \in SpawnEvents(new) : e.kind = "spawn"
    BY DEF SpawnEvents, Event
  <2>2. \A e \in ExpireEvents(new) : e.kind = "expire"
    BY DEF ExpireEvents, Event
  <2>3. \A e \in TakenEvents(new) : e.kind = "taken"
    BY DEF TakenEvents, Event
  <2> QED  BY <2>1, <2>2, <2>3
<1> DEFINE a == sent \o SetToSeq(SpawnEvents(new))
           b == a \o SetToSeq(ExpireEvents(new))
           c == b \o SetToSeq(TakenEvents(new))
<1> HIDE DEF S
<1>12. a \in Seq(S) /\ Grown(sent, a, SpawnEvents(new))
  BY <1>7, <1>8, Grows
<1> HIDE DEF a
<1>13. b \in Seq(S) /\ Grown(a, b, ExpireEvents(new))
  BY <1>9, <1>12, Grows
<1> HIDE DEF b
<1>14. c \in Seq(S) /\ Grown(b, c, TakenEvents(new))
  BY <1>10, <1>13, Grows
<1>15. sent' = c
  BY <1>1 DEF a, b
<1> HIDE DEF c
<1>16. Grown(sent, b, SpawnEvents(new) \cup ExpireEvents(new))
  BY <1>11, <1>12, <1>13, GrowsOn
<1>17. Grown(sent, c, AllEvents(new))
  BY <1>11, <1>14, <1>16, GrowsOn DEF AllEvents
<1> QED  BY <1>1, <1>14, <1>15, <1>17 DEF S

(* The events of a tick, one by one: those before it stay; each new one is of a powerup it  *)
(* spawned, let go or awarded, and each of these has one.                                  *)
Added == Later(sent, sent')
EndKinds == {"expire", "taken"}
OfTick(new, i) ==
    LET e == sent'[i]
    IN  /\ e.time = pwTime
        /\ \/ e.kind = "spawn" /\ \E pw \in new : e.id = pw.id
           \/ e.kind = "expire" /\ \E pw \in GoneOf(new) : e.id = pw.id
           \/ e.kind = "taken" /\ \E a \in TakenOf(new) : e.id = a.pw.id /\ e.to = a.by /\ e.type = a.pw.type
Tells(new) ==
    /\ \A i \in Added : OfTick(new, i)
    /\ \A pw \in new : \E i \in Added : sent'[i].kind = "spawn" /\ sent'[i].id = pw.id
    /\ \A pw \in GoneOf(new) : \E i \in Added : sent'[i].kind = "expire" /\ sent'[i].id = pw.id
    /\ \A a \in TakenOf(new) : \E i \in Added :
          /\ sent'[i].kind = "taken" /\ sent'[i].id = a.pw.id
          /\ sent'[i].to = a.by /\ sent'[i].type = a.pw.type

(* The field and what becomes of it. *)
FieldGoes(new) ==
    LET F == Field(new)
    IN  /\ F \subseteq PwSet(nextId', pwTime)
        /\ \A pw, q \in F : pw.id = q.id => pw = q
        /\ GoneOf(new) = {pw \in F : pwTime - pw.spawnedAt > PwLifetime}
        /\ \A a \in TakenOf(new) : a.pw \in F \ GoneOf(new) /\ a.by \in PwSeats
        /\ \A a, b \in TakenOf(new) : a.pw = b.pw => a = b
        /\ active' = (F \ GoneOf(new)) \ {a.pw : a \in TakenOf(new)}
        /\ IsFiniteSet(F) /\ Cardinality(F) <= PwMaxActive
        /\ \/ new = {} /\ nextId' = nextId
           \/ nextId' = nextId + 1 /\ Due /\ \E pw : new = {pw} /\ pw.id = nextId /\ pw.spawnedAt = pwTime

(* A tick takes the field from what it was to what FieldGoes says. *)
LEMMA TickField ==
    ASSUME NEW new, Ticked(new)
    PROVE  FieldGoes(new)
<1> DEFINE n == nextId + Cardinality(new)
           F == Field(new)
<1>1. PowInv /\ Fresh(new) /\ nextId' = n
  BY DEF Ticked, TickWith
<1>2. /\ IsFiniteSet(F) /\ Cardinality(F) <= PwMaxActive /\ F \subseteq PwSet(n, pwTime)
      /\ \A pw, q \in F : pw.id = q.id => pw = q
      /\ \/ new = {} /\ n = nextId
         \/ n = nextId + 1 /\ Due /\ \E pw : new = {pw} /\ pw.id = nextId /\ pw.spawnedAt = pwTime
  BY <1>1, FieldIs DEF Field
<1>3. GoneOf(new) = {pw \in F : pwTime - pw.spawnedAt > PwLifetime}
  BY DEF GoneOf, Expired
<1>4. /\ \A a \in TakenOf(new) : a.pw \in F \ GoneOf(new) /\ a.by \in PwSeats
      /\ \A a, b \in TakenOf(new) : a.pw = b.pw => a = b
  <2>1. IsFiniteSet(F \ GoneOf(new))
    BY <1>2, FS_Subset
  <2> QED  BY <2>1, TakenIs DEF TakenOf
<1>5. active' = (F \ GoneOf(new)) \ {a.pw : a \in TakenOf(new)}
  BY DEF Ticked, TickWith, LeftAfter, GoneOf, TakenOf, Field
<1> HIDE DEF n, F
<1>6. /\ F \subseteq PwSet(nextId', pwTime)
      /\ \/ new = {} /\ nextId' = nextId
         \/ nextId' = nextId + 1 /\ Due /\ \E pw : new = {pw} /\ pw.id = nextId /\ pw.spawnedAt = pwTime
  BY <1>1, <1>2
<1> QED  BY <1>2, <1>3, <1>4, <1>5, <1>6 DEF FieldGoes, F

(* A tick tells what it did. *)
LEMMA TickTells ==
    ASSUME NEW new, Ticked(new)
    PROVE  Tells(new)
<1>1. Grown(sent, sent', AllEvents(new))
  BY TickSends
<1>2. /\ \A i \in Added : sent'[i] \in AllEvents(new)
      /\ \A e \in AllEvents(new) : \E i \in Added : sent'[i] = e
  BY <1>1 DEF Grown, Added
<1>3. ASSUME NEW i \in Added PROVE OfTick(new, i)
  <2>1. CASE sent'[i] \in SpawnEvents(new)
    <3>1. PICK pw \in new : sent'[i] = Event("spawn", pw, "all")
      BY <2>1 DEF SpawnEvents
    <3>2. sent'[i].kind = "spawn" /\ sent'[i].id = pw.id /\ sent'[i].time = pwTime
      BY <3>1 DEF Event
    <3> QED  BY <3>2 DEF OfTick
  <2>2. CASE sent'[i] \in ExpireEvents(new)
    <3>1. PICK pw \in GoneOf(new) : sent'[i] = Event("expire", pw, "all")
      BY <2>2 DEF ExpireEvents
    <3>2. sent'[i].kind = "expire" /\ sent'[i].id = pw.id /\ sent'[i].time = pwTime
      BY <3>1 DEF Event
    <3> QED  BY <3>2 DEF OfTick
  <2>3. CASE sent'[i] \in TakenEvents(new)
    <3>1. PICK a \in TakenOf(new) : sent'[i] = Event("taken", a.pw, a.by)
      BY <2>3 DEF TakenEvents
    <3>2. /\ sent'[i].kind = "taken" /\ sent'[i].id = a.pw.id /\ sent'[i].time = pwTime
          /\ sent'[i].to = a.by /\ sent'[i].type = a.pw.type
      BY <3>1 DEF Event
    <3> QED  BY <3>2 DEF OfTick
  <2> QED  BY <1>2, <1>3, <2>1, <2>2, <2>3 DEF AllEvents
<1>4. ASSUME NEW pw \in new
      PROVE  \E i \in Added : sent'[i].kind = "spawn" /\ sent'[i].id = pw.id
  <2>1. Event("spawn", pw, "all") \in AllEvents(new)
    BY DEF AllEvents, SpawnEvents
  <2>2. PICK i \in Added : sent'[i] = Event("spawn", pw, "all")
    BY <1>2, <2>1
  <2> QED  BY <2>2 DEF Event
<1>5. ASSUME NEW pw \in GoneOf(new)
      PROVE  \E i \in Added : sent'[i].kind = "expire" /\ sent'[i].id = pw.id
  <2>1. Event("expire", pw, "all") \in AllEvents(new)
    BY DEF AllEvents, ExpireEvents
  <2>2. PICK i \in Added : sent'[i] = Event("expire", pw, "all")
    BY <1>2, <2>1
  <2> QED  BY <2>2 DEF Event
<1>6. ASSUME NEW a \in TakenOf(new)
      PROVE  \E i \in Added : /\ sent'[i].kind = "taken" /\ sent'[i].id = a.pw.id
                              /\ sent'[i].to = a.by /\ sent'[i].type = a.pw.type
  <2>1. Event("taken", a.pw, a.by) \in AllEvents(new)
    BY DEF AllEvents, TakenEvents
  <2>2. PICK i \in Added : sent'[i] = Event("taken", a.pw, a.by)
    BY <1>2, <2>1
  <2> QED  BY <2>2 DEF Event
<1> QED  BY <1>3, <1>4, <1>5, <1>6 DEF Tells

(* Of one powerup the tick tells no two events of one kind, and no two ends. *)
LEMMA TellsOnce ==
    ASSUME NEW new, Ticked(new), NEW i \in Added, NEW j \in Added, sent'[i].id = sent'[j].id,
           \/ sent'[i].kind = "spawn" /\ sent'[j].kind = "spawn"
           \/ sent'[i].kind \in EndKinds /\ sent'[j].kind \in EndKinds
    PROVE  i = j
<1>1. Grown(sent, sent', AllEvents(new)) /\ FieldGoes(new)
  BY TickSends, TickField
<1>2. sent'[i] \in AllEvents(new) /\ sent'[j] \in AllEvents(new) /\ (sent'[i] = sent'[j] => i = j)
  BY <1>1 DEF Grown, Added
<1>3. new \subseteq Field(new) /\ GoneOf(new) \subseteq Field(new)
  BY <1>1 DEF FieldGoes, Field
<1>4. \A p, q \in Field(new) : p.id = q.id => p = q
  BY <1>1 DEF FieldGoes
<1>5. \A a \in TakenOf(new) : a.pw \in Field(new) /\ a.pw \notin GoneOf(new)
  BY <1>1 DEF FieldGoes
<1>6. \A a, b \in TakenOf(new) : a.pw = b.pw => a = b
  BY <1>1 DEF FieldGoes
<1>7. ASSUME NEW e \in AllEvents(new)
      PROVE  /\ e.kind = "spawn" => \E p \in new : e = Event("spawn", p, "all") /\ e.id = p.id
             /\ e.kind = "expire" => \E p \in GoneOf(new) : e = Event("expire", p, "all") /\ e.id = p.id
             /\ e.kind = "taken" => \E a \in TakenOf(new) : e = Event("taken", a.pw, a.by) /\ e.id = a.pw.id
  BY <1>7 DEF AllEvents, SpawnEvents, ExpireEvents, TakenEvents, Event
<1>8. CASE sent'[i].kind = "spawn" /\ sent'[j].kind = "spawn"
  BY <1>2, <1>3, <1>4, <1>7, <1>8
<1>9. CASE sent'[i].kind = "expire" /\ sent'[j].kind = "expire"
  BY <1>2, <1>3, <1>4, <1>7, <1>9
<1>10. CASE sent'[i].kind = "taken" /\ sent'[j].kind = "taken"
  <2>1. PICK a \in TakenOf(new) : sent'[i] = Event("taken", a.pw, a.by) /\ sent'[i].id = a.pw.id
    BY <1>2, <1>7, <1>10
  <2>2. PICK b \in TakenOf(new) : sent'[j] = Event("taken", b.pw, b.by) /\ sent'[j].id = b.pw.id
    BY <1>2, <1>7, <1>10
  <2>3. a = b
    BY <1>4, <1>5, <1>6, <2>1, <2>2
  <2> QED  BY <1>2, <2>1, <2>2, <2>3
<1>11. ASSUME NEW x \in {i, j}, NEW y \in {i, j}, sent'[x].kind = "expire", sent'[y].kind = "taken" PROVE FALSE
  <2>1. PICK p \in GoneOf(new) : sent'[x].id = p.id
    BY <1>2, <1>7, <1>11
  <2>2. PICK b \in TakenOf(new) : sent'[y].id = b.pw.id
    BY <1>2, <1>7, <1>11
  <2>3. p.id = b.pw.id
    BY <2>1, <2>2
  <2> QED  BY <1>3, <1>4, <1>5, <2>3
<1> QED  BY <1>8, <1>9, <1>10, <1>11 DEF EndKinds

(* The events of some kinds after the tick: those before it, unchanged, and behind them the new ones. *)
SentGoes(K) ==
    /\ \A i : i \in SentOf(K)' <=> (i \in SentOf(K) \/ (i \in Added /\ sent'[i].kind \in K))
    /\ \A i \in SentOf(K) : /\ sent'[i] = sent[i] /\ i \in Nat /\ sent[i].kind \in K
                            /\ sent[i].id \in 0 .. nextId - 1 /\ sent[i].time \in 0 .. pwTime
    /\ \A i \in Added : i \in Nat /\ \A j \in SentOf(K) : j < i

(* So they go on, whatever the kinds. *)
LEMMA SentAfter ==
    ASSUME NEW new, Ticked(new), NEW K
    PROVE  SentGoes(K)
<1> DEFINE l == Len(sent)
           m == Len(sent')
<1>1. /\ sent \in Seq(EvSet(nextId, pwTime)) /\ Grown(sent, sent', AllEvents(new))
  BY TickSends, PowTypes DEF Ticked, PowInv
<1>2. /\ l \in Nat /\ m \in Nat /\ l <= m /\ DOMAIN sent = 1 .. l /\ DOMAIN sent' = 1 .. m
      /\ \A i \in 1 .. l : sent'[i] = sent[i]
      /\ Added = l + 1 .. m
  BY <1>1 DEF Grown, Added, Later
<1>3. \A i \in 1 .. l : sent[i] \in EvSet(nextId, pwTime)
  BY <1>1, <1>2
<1> HIDE DEF l, m
<1>4. \A i : i \in 1 .. m <=> (i \in 1 .. l \/ i \in Added)
  BY <1>2
<1>5. \A i : i \in SentOf(K)' <=> (i \in SentOf(K) \/ (i \in Added /\ sent'[i].kind \in K))
  <2>1. \A i : i \in SentOf(K)' <=> (i \in 1 .. m /\ sent'[i].kind \in K)
    BY <1>2 DEF SentOf
  <2>2. \A i : i \in SentOf(K) <=> (i \in 1 .. l /\ sent[i].kind \in K)
    BY <1>2 DEF SentOf
  <2>3. \A i \in 1 .. l : sent'[i].kind = sent[i].kind
    BY <1>2
  <2> QED  BY <1>4, <2>1, <2>2, <2>3
<1>6. ASSUME NEW i \in SentOf(K)
      PROVE  /\ sent'[i] = sent[i] /\ i \in Nat /\ sent[i].kind \in K
             /\ sent[i].id \in 0 .. nextId - 1 /\ sent[i].time \in 0 .. pwTime /\ i \in 1 .. l
  <2>1. i \in 1 .. l /\ sent[i].kind \in K
    BY <1>2 DEF SentOf
  <2>2. sent[i].id \in 0 .. nextId - 1 /\ sent[i].time \in 0 .. pwTime
    BY <1>3, <2>1, EvParts
  <2> QED  BY <1>2, <2>1, <2>2
<1>7. \A i \in Added : i \in Nat /\ \A j \in SentOf(K) : j < i
  BY <1>2, <1>6
<1> QED  BY <1>5, <1>6, <1>7 DEF SentGoes

(* What has an id of the field ended before the tick in no event, and was spawned when the field says. *)
LEMMA FieldStands ==
    ASSUME NEW new, Ticked(new), NEW pw \in Field(new)
    PROVE  /\ \A i \in SentOf(EndKinds) : sent[i].id # pw.id
           /\ \A i \in SentOf({"spawn"})' : sent'[i].id = pw.id => sent'[i].time = pw.spawnedAt
<1>1. FieldGoes(new) /\ Tells(new) /\ SentGoes({"spawn"}) /\ SentGoes(EndKinds)
  BY TickField, TickTells, SentAfter
<1>2. /\ PowInv /\ active \subseteq PwSet(nextId, pwTime) /\ nextId \in Nat /\ pwTime \in Nat
      /\ EndsAreGone /\ BornThen
  BY PowTypes DEF Ticked, PowInv
<1>3. ASSUME NEW i \in Added, sent'[i].kind = "spawn"
      PROVE  sent'[i].id = nextId /\ sent'[i].time = pwTime /\ \A p \in new : p.id = nextId /\ p.spawnedAt = pwTime
  <2>1. PICK q \in new : sent'[i].id = q.id /\ sent'[i].time = pwTime
    BY <1>1, <1>3 DEF Tells, OfTick
  <2>2. PICK p : new = {p} /\ p.id = nextId /\ p.spawnedAt = pwTime
    BY <1>1, <2>1 DEF FieldGoes
  <2> QED  BY <2>1, <2>2
<1>4. CASE pw \in active
  <2>1. pw.id \in 0 .. nextId - 1
    BY <1>2, <1>4, PwParts
  <2>2. \A i \in SentOf(EndKinds) : sent[i].id # pw.id
    BY <1>2, <1>4 DEF EndsAreGone, EndKinds
  <2>3. ASSUME NEW i \in SentOf({"spawn"})', sent'[i].id = pw.id PROVE sent'[i].time = pw.spawnedAt
    <3>1. CASE i \in SentOf({"spawn"})
      <4>1. sent'[i] = sent[i]
        BY <1>1, <3>1 DEF SentGoes
      <4> QED  BY <1>2, <1>4, <2>3, <3>1, <4>1 DEF BornThen
    <3>2. CASE i \in Added /\ sent'[i].kind = "spawn"
      <4>1. sent'[i].id = nextId
        BY <1>3, <3>2
      <4> QED  BY <1>2, <2>1, <2>3, <4>1
    <3> QED  BY <1>1, <2>3, <3>1, <3>2 DEF SentGoes
  <2> QED  BY <2>2, <2>3
<1>5. CASE pw \in new
  <2>1. pw.id = nextId /\ pw.spawnedAt = pwTime
    BY <1>1, <1>5 DEF FieldGoes
  <2>2. \A i \in SentOf(EndKinds) : sent[i].id # pw.id
    BY <1>1, <1>2, <2>1 DEF SentGoes
  <2>3. ASSUME NEW i \in SentOf({"spawn"})', sent'[i].id = pw.id PROVE sent'[i].time = pw.spawnedAt
    <3>1. CASE i \in SentOf({"spawn"})
      <4>1. sent'[i] = sent[i] /\ sent[i].id \in 0 .. nextId - 1
        BY <1>1, <3>1 DEF SentGoes
      <4> QED  BY <1>2, <2>1, <2>3, <4>1
    <3>2. CASE i \in Added /\ sent'[i].kind = "spawn"
      BY <1>3, <2>1, <3>2
    <3> QED  BY <1>1, <2>3, <3>1, <3>2 DEF SentGoes
  <2> QED  BY <2>2, <2>3
<1> QED  BY <1>4, <1>5 DEF Field

(* A new spawn is of the next id, on a tick on which one was due. *)
LEMMA NewSpawn ==
    ASSUME NEW new, Ticked(new), NEW i \in Added, sent'[i].kind = "spawn"
    PROVE  sent'[i].id = nextId /\ sent'[i].time = pwTime /\ Due
<1>1. FieldGoes(new) /\ Tells(new)
  BY TickField, TickTells
<1>2. PICK q \in new : sent'[i].id = q.id /\ sent'[i].time = pwTime
  BY <1>1 DEF Tells, OfTick
<1>3. PICK p : new = {p} /\ p.id = nextId /\ Due
  BY <1>1, <1>2 DEF FieldGoes
<1> QED  BY <1>2, <1>3

(* A new end is of a powerup that was on the field and is not any longer. *)
LEMMA NewEnd ==
    ASSUME NEW new, Ticked(new), NEW i \in Added, sent'[i].kind \in EndKinds
    PROVE  \E pw \in Field(new) : sent'[i].id = pw.id /\ pw \notin active'
<1>1. FieldGoes(new) /\ Tells(new)
  BY TickField, TickTells
<1>2. CASE sent'[i].kind = "expire"
  <2>1. PICK pw \in GoneOf(new) : sent'[i].id = pw.id
    BY <1>1, <1>2 DEF Tells, OfTick
  <2> QED  BY <1>1, <2>1 DEF FieldGoes
<1>3. CASE sent'[i].kind = "taken"
  <2>1. PICK a \in TakenOf(new) : sent'[i].id = a.pw.id
    BY <1>1, <1>3 DEF Tells, OfTick
  <2> QED  BY <1>1, <2>1 DEF FieldGoes
<1> QED  BY <1>2, <1>3 DEF EndKinds

-----------------------------------------------------------------------------
(* Each part of the invariant over a tick. *)

(* What every part starts from. *)
LEMMA TickBase ==
    ASSUME NEW new, Ticked(new)
    PROVE  /\ FieldGoes(new) /\ Tells(new) /\ PowInv
           /\ SentGoes({"spawn"}) /\ SentGoes(EndKinds) /\ SentGoes({"taken"})
           /\ pwTime \in Nat /\ nextId \in Nat /\ nextSpawnAt \in Nat /\ PwInterval \in Nat /\ PwLifetime \in Nat
           /\ PwDuration \in [Types -> Nat]
           /\ active \subseteq PwSet(nextId, pwTime) /\ effects \in [PwSeats -> [Types -> Nat]]
           /\ nextId' \in Nat
<1>1. FieldGoes(new) /\ Tells(new) /\ SentGoes({"spawn"}) /\ SentGoes(EndKinds) /\ SentGoes({"taken"})
  BY TickField, TickTells, SentAfter
<1>2. PowInv /\ PowerupTypeOK
  BY DEF Ticked, PowInv
<1>3. /\ pwTime \in Nat /\ nextId \in Nat /\ nextSpawnAt \in Nat
      /\ active \subseteq PwSet(nextId, pwTime) /\ effects \in [PwSeats -> [Types -> Nat]]
  BY <1>2, PowTypes
<1>4. nextId' \in Nat
  BY <1>1, <1>3 DEF FieldGoes
<1> QED  BY <1>1, <1>2, <1>3, <1>4, PowerupConstants

(* What is spawned is announced, and once. *)
LEMMA TickAnnounces ==
    ASSUME NEW new, Ticked(new)
    PROVE  Announced' /\ OnePerId(SentOf({"spawn"}))'
<1>1. /\ FieldGoes(new) /\ Tells(new) /\ PowInv /\ SentGoes({"spawn"}) /\ nextId \in Nat
  BY TickBase
<1>2. ASSUME NEW x \in 0 .. nextId' - 1 PROVE \E i \in SentOf({"spawn"})' : sent'[i].id = x
  <2>1. CASE x \in 0 .. nextId - 1
    <3>1. PICK i \in SentOf({"spawn"}) : sent[i].id = x
      BY <1>1, <2>1 DEF PowInv, Announced
    <3>2. i \in SentOf({"spawn"})' /\ sent'[i] = sent[i]
      BY <1>1 DEF SentGoes
    <3> QED  BY <3>1, <3>2
  <2>2. CASE x \notin 0 .. nextId - 1
    <3>1. nextId' = nextId + 1 /\ \E pw : new = {pw} /\ pw.id = nextId
      BY <1>1, <2>2 DEF FieldGoes
    <3>2. x = nextId
      BY <1>1, <2>2, <3>1
    <3>3. PICK i \in Added : sent'[i].kind = "spawn" /\ sent'[i].id = nextId
      BY <1>1, <3>1 DEF Tells
    <3>4. i \in SentOf({"spawn"})'
      BY <1>1, <3>3 DEF SentGoes
    <3> QED  BY <3>2, <3>3, <3>4
  <2> QED  BY <2>1, <2>2
<1>3. ASSUME NEW i \in SentOf({"spawn"})', NEW j \in SentOf({"spawn"})', sent'[i].id = sent'[j].id
      PROVE  i = j
  <2>1. \A x \in SentOf({"spawn"}) : sent'[x] = sent[x] /\ sent[x].id \in 0 .. nextId - 1
    BY <1>1 DEF SentGoes
  <2>2. \A x \in Added : sent'[x].kind = "spawn" => sent'[x].id = nextId
    BY NewSpawn
  <2>3. \A x \in SentOf({"spawn"})' : x \in SentOf({"spawn"}) \/ (x \in Added /\ sent'[x].kind = "spawn")
    BY <1>1 DEF SentGoes
  <2>4. CASE i \in SentOf({"spawn"}) /\ j \in SentOf({"spawn"})
    BY <1>1, <1>3, <2>1, <2>4 DEF PowInv, OnePerId
  <2>5. CASE i \in Added /\ sent'[i].kind = "spawn" /\ j \in Added /\ sent'[j].kind = "spawn"
    BY <1>3, <2>5, TellsOnce
  <2>6. ~ \E x \in SentOf({"spawn"}), y \in Added : sent'[y].kind = "spawn" /\ sent'[x].id = sent'[y].id
    BY <1>1, <2>1, <2>2
  <2> QED  BY <1>3, <2>3, <2>4, <2>5, <2>6
<1> QED  BY <1>2, <1>3 DEF Announced, OnePerId

(* Nothing ends twice, and what ended is not on the field. *)
LEMMA TickEndsOnce ==
    ASSUME NEW new, Ticked(new)
    PROVE  OnePerId(SentOf(EndKinds))' /\ EndsAreGone'
<1>1. FieldGoes(new) /\ Tells(new) /\ PowInv /\ SentGoes(EndKinds) /\ OnePerId(SentOf(EndKinds))
  <2>1. PowInv
    BY TickBase
  <2> QED  BY <2>1, TickBase DEF PowInv, EndKinds
<1>2. \A pw \in Field(new) : \A i \in SentOf(EndKinds) : sent[i].id # pw.id
  BY FieldStands
<1>3. \A x \in Added : sent'[x].kind \in EndKinds
                           => \E pw \in Field(new) : sent'[x].id = pw.id /\ pw \notin active'
  BY NewEnd
<1>4. \A x \in SentOf(EndKinds) : sent'[x] = sent[x]
  BY <1>1 DEF SentGoes
<1>5. \A x \in SentOf(EndKinds)' : x \in SentOf(EndKinds) \/ (x \in Added /\ sent'[x].kind \in EndKinds)
  BY <1>1 DEF SentGoes
<1>6. ASSUME NEW i \in SentOf(EndKinds)', NEW j \in SentOf(EndKinds)', sent'[i].id = sent'[j].id
      PROVE  i = j
  <2>1. CASE i \in SentOf(EndKinds) /\ j \in SentOf(EndKinds)
    BY <1>1, <1>4, <1>6, <2>1 DEF OnePerId
  <2>2. CASE i \in Added /\ sent'[i].kind \in EndKinds /\ j \in Added /\ sent'[j].kind \in EndKinds
    BY <1>6, <2>2, TellsOnce
  <2>3. ~ \E x \in SentOf(EndKinds), y \in Added : sent'[y].kind \in EndKinds /\ sent'[x].id = sent'[y].id
    BY <1>2, <1>3, <1>4
  <2> QED  BY <1>5, <1>6, <2>1, <2>2, <2>3
<1>7. ASSUME NEW pw \in active', NEW i \in SentOf(EndKinds)' PROVE sent'[i].id # pw.id
  <2>1. pw \in Field(new) /\ \A q \in Field(new) : q.id = pw.id => q = pw
    BY <1>1, <1>7 DEF FieldGoes
  <2>2. CASE i \in SentOf(EndKinds)
    BY <1>2, <1>4, <2>1, <2>2
  <2>3. CASE i \in Added /\ sent'[i].kind \in EndKinds
    BY <1>3, <1>7, <2>1, <2>3
  <2> QED  BY <1>5, <1>7, <2>2, <2>3
<1> QED  BY <1>6, <1>7 DEF OnePerId, EndsAreGone, EndKinds

(* What is not on the field has ended. *)
LEMMA TickLoses ==
    ASSUME NEW new, Ticked(new)
    PROVE  LivesOrEnded'
<1>1. FieldGoes(new) /\ Tells(new) /\ PowInv /\ SentGoes(EndKinds) /\ nextId \in Nat
  BY TickBase
<1>2. SUFFICES ASSUME NEW x \in 0 .. nextId' - 1
               PROVE  (\E pw \in active' : pw.id = x) \/ \E i \in SentOf(EndKinds)' : sent'[i].id = x
  BY DEF LivesOrEnded, EndKinds
<1>3. (\E pw \in Field(new) : pw.id = x) \/ \E i \in SentOf(EndKinds) : sent[i].id = x
  <2>1. CASE x \in 0 .. nextId - 1
    <3>1. (\E pw \in active : pw.id = x) \/ \E i \in SentOf(EndKinds) : sent[i].id = x
      BY <1>1, <2>1 DEF PowInv, LivesOrEnded, EndKinds
    <3> QED  BY <3>1 DEF Field
  <2>2. CASE x \notin 0 .. nextId - 1
    <3>1. PICK pw : nextId' = nextId + 1 /\ new = {pw} /\ pw.id = nextId
      BY <1>1, <2>2 DEF FieldGoes
    <3>2. x = nextId
      BY <1>1, <2>2, <3>1
    <3> QED  BY <3>1, <3>2 DEF Field
  <2> QED  BY <2>1, <2>2
<1>4. CASE \E i \in SentOf(EndKinds) : sent[i].id = x
  BY <1>1, <1>4 DEF SentGoes
<1>5. ASSUME NEW pw \in Field(new), pw.id = x
      PROVE  (\E q \in active' : q.id = x) \/ \E i \in SentOf(EndKinds)' : sent'[i].id = x
  <2>1. pw \in active' \/ pw \in GoneOf(new) \/ \E a \in TakenOf(new) : a.pw = pw
    BY <1>1 DEF FieldGoes
  <2>2. CASE pw \in GoneOf(new)
    <3>1. PICK i \in Added : sent'[i].kind = "expire" /\ sent'[i].id = pw.id
      BY <1>1, <2>2 DEF Tells
    <3>2. i \in SentOf(EndKinds)'
      BY <1>1, <3>1 DEF SentGoes, EndKinds
    <3> QED  BY <1>5, <3>1, <3>2
  <2>3. ASSUME NEW a \in TakenOf(new), a.pw = pw PROVE \E i \in SentOf(EndKinds)' : sent'[i].id = x
    <3>1. PICK i \in Added : sent'[i].kind = "taken" /\ sent'[i].id = a.pw.id
      BY <1>1 DEF Tells
    <3>2. i \in SentOf(EndKinds)'
      BY <1>1, <3>1 DEF SentGoes, EndKinds
    <3> QED  BY <1>5, <2>3, <3>1, <3>2
  <2> QED  BY <1>5, <2>1, <2>2, <2>3
<1> QED  BY <1>3, <1>4, <1>5

(* Spawns stay an interval apart, from each other and from the next one due. *)
LEMMA TickKeepsApart ==
    ASSUME NEW new, Ticked(new)
    PROVE  Apart' /\ NextApart'
<1>1. /\ SentGoes({"spawn"}) /\ PowInv /\ Apart /\ NextApart
      /\ pwTime \in Nat /\ nextSpawnAt \in Nat /\ PwInterval \in Nat
  BY TickBase DEF PowInv
<1>2. nextSpawnAt' = IF Due THEN pwTime + PwInterval ELSE nextSpawnAt
  BY DEF Ticked, TickWith
<1>3. \A x \in SentOf({"spawn"}) : sent'[x] = sent[x] /\ sent[x].time \in 0 .. pwTime
  BY <1>1 DEF SentGoes
<1>4. \A x \in Added : sent'[x].kind = "spawn" => sent'[x].id = nextId /\ sent'[x].time = pwTime /\ Due
  BY NewSpawn
<1>5. \A x \in SentOf({"spawn"})' : x \in SentOf({"spawn"}) \/ (x \in Added /\ sent'[x].kind = "spawn")
  BY <1>1 DEF SentGoes
<1>6. \A x \in Added, y \in SentOf({"spawn"}) : y < x /\ x \in Nat /\ y \in Nat
  BY <1>1 DEF SentGoes
<1>7. ASSUME NEW i \in SentOf({"spawn"})', NEW j \in SentOf({"spawn"})', i < j
      PROVE  sent'[j].time - sent'[i].time >= PwInterval
  <2>1. CASE i \in SentOf({"spawn"}) /\ j \in SentOf({"spawn"})
    BY <1>1, <1>3, <1>7, <2>1 DEF Apart
  <2>2. CASE i \in SentOf({"spawn"}) /\ j \in Added /\ sent'[j].kind = "spawn"
    <3> DEFINE x == sent[i].time
    <3>1. x \in Nat /\ sent'[i].time = x
      BY <1>3, <2>2
    <3>2. x + PwInterval <= nextSpawnAt
      BY <1>1, <2>2 DEF NextApart
    <3>3. sent'[j].time = pwTime /\ pwTime >= nextSpawnAt
      BY <1>4, <2>2 DEF Due
    <3> HIDE DEF x
    <3> QED  BY <1>1, <3>1, <3>2, <3>3
  <2>3. CASE i \in Added /\ sent'[i].kind = "spawn" /\ j \in Added /\ sent'[j].kind = "spawn"
    <3>1. i = j
      BY <1>4, <2>3, TellsOnce
    <3>2. i \in Nat
      <4>1. SentGoes({"spawn"})
        BY <1>1
      <4> QED  BY <2>3, <4>1 DEF SentGoes
    <3> QED  BY <1>7, <3>1, <3>2
  <2>4. CASE i \in Added /\ j \in SentOf({"spawn"})
    BY <1>6, <1>7, <2>4
  <2> QED  BY <1>5, <1>7, <2>1, <2>2, <2>3, <2>4
<1>8. ASSUME NEW i \in SentOf({"spawn"})' PROVE sent'[i].time + PwInterval <= nextSpawnAt'
  <2>1. CASE i \in SentOf({"spawn"})
    <3> DEFINE x == sent[i].time
    <3>1. x \in Nat /\ x <= pwTime /\ sent'[i].time = x
      BY <1>1, <1>3, <2>1
    <3>2. x + PwInterval <= nextSpawnAt
      BY <1>1, <2>1 DEF NextApart
    <3> HIDE DEF x
    <3> QED  BY <1>1, <1>2, <3>1, <3>2
  <2>2. CASE i \in Added /\ sent'[i].kind = "spawn"
    <3>1. sent'[i].time = pwTime /\ Due
      BY <1>4, <2>2
    <3> QED  BY <1>1, <1>2, <3>1
  <2> QED  BY <1>5, <1>8, <2>1, <2>2
<1> QED  BY <1>7, <1>8 DEF Apart, NextApart

(* The field's spawn times are those announced, and an award falls in the lifetime. *)
LEMMA TickTimes ==
    ASSUME NEW new, Ticked(new)
    PROVE  BornThen' /\ InLifetime'
<1>1. /\ FieldGoes(new) /\ Tells(new) /\ PowInv /\ SentGoes({"spawn"}) /\ SentGoes({"taken"})
      /\ pwTime \in Nat /\ nextId \in Nat /\ PwLifetime \in Nat
  BY TickBase
<1>2. \A pw \in Field(new) : \A i \in SentOf({"spawn"})' : sent'[i].id = pw.id => sent'[i].time = pw.spawnedAt
  BY FieldStands
<1>3. BornThen'
  <2>1. active' \subseteq Field(new)
    BY <1>1 DEF FieldGoes
  <2> QED  BY <1>2, <2>1 DEF BornThen
<1>4. ASSUME NEW i \in SentOf({"taken"})', NEW j \in SentOf({"spawn"})', sent'[i].id = sent'[j].id
      PROVE  sent'[i].time - sent'[j].time <= PwLifetime
  <2>1. CASE i \in SentOf({"taken"})
    <3>1. sent'[i] = sent[i] /\ sent[i].id \in 0 .. nextId - 1
      BY <1>1, <2>1 DEF SentGoes
    <3>2. CASE j \in SentOf({"spawn"})
      <4>1. sent'[j] = sent[j]
        BY <1>1, <3>2 DEF SentGoes
      <4>2. InLifetime
        BY <1>1 DEF PowInv
      <4> QED  BY <1>4, <2>1, <3>1, <3>2, <4>1, <4>2 DEF InLifetime
    <3>3. CASE j \in Added /\ sent'[j].kind = "spawn"
      <4>1. sent'[j].id = nextId
        BY <3>3, NewSpawn
      <4> QED  BY <1>1, <1>4, <3>1, <4>1
    <3> QED  BY <1>1, <1>4, <3>2, <3>3 DEF SentGoes
  <2>2. CASE i \in Added /\ sent'[i].kind = "taken"
    <3>1. PICK a \in TakenOf(new) : sent'[i].id = a.pw.id /\ sent'[i].time = pwTime
      BY <1>1, <2>2 DEF Tells, OfTick
    <3>2. a.pw \in Field(new) /\ ~ (pwTime - a.pw.spawnedAt > PwLifetime)
      BY <1>1 DEF FieldGoes
    <3>3. a.pw.spawnedAt \in 0 .. pwTime
      BY <1>1, <3>2, PwParts DEF FieldGoes
    <3>4. sent'[j].time = a.pw.spawnedAt
      BY <1>2, <1>4, <3>1, <3>2
    <3> QED  BY <1>1, <3>1, <3>2, <3>3, <3>4
  <2> QED  BY <1>1, <1>4, <2>1, <2>2 DEF SentGoes
<1> QED  BY <1>3, <1>4 DEF InLifetime

(* A seat's effect of a type stays the latest of its awards. *)
LEMMA TickEffects ==
    ASSUME NEW new, Ticked(new), NEW s \in PwSeats, NEW t \in Types
    PROVE  EffectIs(s, t)'
<1>1. /\ Tells(new) /\ PowInv /\ SentGoes({"taken"}) /\ EffectIs(s, t)
      /\ pwTime \in Nat /\ PwDuration[t] \in Nat /\ effects[s][t] \in Nat
  BY TickBase DEF PowInv
<1>2. effects'[s][t] = IF \E a \in TakenOf(new) : a.by = s /\ a.pw.type = t
                       THEN pwTime + PwDuration[t] ELSE effects[s][t]
  BY DEF Ticked, TickWith, TakenOf, GoneOf, Field
<1>3. \A i : i \in AwardsOf(s, t)' <=> /\ i \in SentOf({"taken"})'
                                       /\ sent'[i].to = s /\ sent'[i].type = t
  BY DEF AwardsOf
<1>4. \A i \in AwardsOf(s, t) : sent'[i] = sent[i] /\ sent[i].time \in 0 .. pwTime /\ i \in AwardsOf(s, t)'
  BY <1>1, <1>3 DEF AwardsOf, SentGoes
<1>5. \A i \in AwardsOf(s, t)' : \/ i \in AwardsOf(s, t)
                                 \/ i \in Added /\ sent'[i].kind = "taken" /\ sent'[i].to = s /\ sent'[i].type = t
  <2> SUFFICES ASSUME NEW i \in AwardsOf(s, t)', i \notin AwardsOf(s, t)
               PROVE  i \in Added /\ sent'[i].kind = "taken" /\ sent'[i].to = s /\ sent'[i].type = t
    OBVIOUS
  <2>1. i \in SentOf({"taken"})' /\ sent'[i].to = s /\ sent'[i].type = t
    BY <1>3
  <2>2. i \in SentOf({"taken"}) \/ (i \in Added /\ sent'[i].kind = "taken")
    BY <1>1, <2>1 DEF SentGoes
  <2>3. i \notin SentOf({"taken"})
    <3> SUFFICES ASSUME i \in SentOf({"taken"}) PROVE FALSE
      OBVIOUS
    <3>1. sent'[i] = sent[i]
      BY <1>1 DEF SentGoes
    <3> QED  BY <2>1, <3>1 DEF AwardsOf
  <2> QED  BY <2>1, <2>2, <2>3
<1>6. CASE \E a \in TakenOf(new) : a.by = s /\ a.pw.type = t
  <2>1. PICK a \in TakenOf(new) : a.by = s /\ a.pw.type = t
    BY <1>6
  <2>2. PICK i \in Added : sent'[i].kind = "taken" /\ sent'[i].to = s /\ sent'[i].type = t
    BY <1>1, <2>1 DEF Tells
  <2>3. i \in AwardsOf(s, t)' /\ sent'[i].time = pwTime
    BY <1>1, <1>3, <2>2 DEF SentGoes, Tells, OfTick
  <2>4. effects'[s][t] = pwTime + PwDuration[t]
    BY <1>2, <1>6
  <2>5. ASSUME NEW j \in AwardsOf(s, t)' PROVE sent'[j].time + PwDuration[t] <= effects'[s][t]
    <3>1. CASE j \in AwardsOf(s, t)
      <4>1. sent'[j].time \in 0 .. pwTime
        BY <1>4, <3>1
      <4> QED  BY <1>1, <2>4, <4>1
    <3>2. CASE j \in Added
      <4>1. sent'[j].time = pwTime
        BY <1>1, <3>2 DEF Tells, OfTick
      <4> QED  BY <1>1, <2>4, <4>1
    <3> QED  BY <1>5, <2>5, <3>1, <3>2
  <2>6. effects'[s][t] = sent'[i].time + PwDuration[t]
    BY <2>3, <2>4
  <2> QED  BY <2>3, <2>5, <2>6 DEF EffectIs
<1>7. CASE ~ \E a \in TakenOf(new) : a.by = s /\ a.pw.type = t
  <2>1. effects'[s][t] = effects[s][t]
    BY <1>2, <1>7
  <2>2. \A i \in AwardsOf(s, t)' : i \in AwardsOf(s, t)
    <3>1. ~ \E i \in Added : sent'[i].kind = "taken" /\ sent'[i].to = s /\ sent'[i].type = t
      <4> SUFFICES ASSUME NEW i \in Added, sent'[i].kind = "taken", sent'[i].to = s, sent'[i].type = t
                   PROVE  FALSE
        OBVIOUS
      <4>1. PICK a \in TakenOf(new) : sent'[i].to = a.by /\ sent'[i].type = a.pw.type
        BY <1>1 DEF Tells, OfTick
      <4> QED  BY <1>7, <4>1
    <3> QED  BY <1>5, <3>1
  <2>3. \A i \in AwardsOf(s, t)' : sent'[i].time + PwDuration[t] <= effects'[s][t]
    BY <1>1, <1>4, <2>1, <2>2 DEF EffectIs
  <2>4. effects'[s][t] = 0 \/ \E i \in AwardsOf(s, t)' : effects'[s][t] = sent'[i].time + PwDuration[t]
    BY <1>1, <1>4, <2>1 DEF EffectIs
  <2> QED  BY <2>3, <2>4 DEF EffectIs
<1> QED  BY <1>6, <1>7

(* A tick keeps the types and the limit of the field. *)
LEMMA TickTypes ==
    ASSUME NEW new, Ticked(new)
    PROVE  /\ PowerupTypeOK' /\ IsFiniteSet(active') /\ Cardinality(active') <= PwMaxActive
           /\ (\A pw, q \in active : pw.id = q.id => pw = q)'
<1>1. /\ FieldGoes(new) /\ PowInv /\ pwTime \in Nat /\ nextSpawnAt \in Nat /\ PwInterval \in Nat
      /\ PwDuration \in [Types -> Nat] /\ nextId' \in Nat /\ effects \in [PwSeats -> [Types -> Nat]]
  BY TickBase
<1>2. active' \subseteq Field(new)
  BY <1>1 DEF FieldGoes
<1>3. IsFiniteSet(active') /\ Cardinality(active') <= PwMaxActive
  <2>1. IsFiniteSet(Field(new)) /\ Cardinality(Field(new)) <= PwMaxActive /\ PwMaxActive \in Nat
    BY <1>1, PowerupConstants DEF FieldGoes
  <2>2. IsFiniteSet(active') /\ Cardinality(active') <= Cardinality(Field(new))
    BY <1>2, <2>1, FS_Subset
  <2>3. Cardinality(active') \in Nat /\ Cardinality(Field(new)) \in Nat
    BY <2>1, <2>2, FS_CardinalityType
  <2> QED  BY <2>1, <2>2, <2>3
<1>4. \A pw, q \in active' : pw.id = q.id => pw = q
  BY <1>1, <1>2 DEF FieldGoes
<1>5. sent' \in Seq(EvSet(nextId', pwTime))
  BY TickSends
<1>6. /\ nextSpawnAt' = IF Due THEN pwTime + PwInterval ELSE nextSpawnAt
      /\ pwTime' = pwTime /\ standing' = standing
      /\ effects' = [s \in PwSeats |-> [t \in Types |->
            IF \E a \in TakenOf(new) : a.by = s /\ a.pw.type = t THEN pwTime + PwDuration[t] ELSE effects[s][t]]]
  BY DEF Ticked, TickWith, TakenOf, GoneOf, Field
<1>7. nextSpawnAt' \in Nat
  BY <1>1, <1>6
<1>8. effects' \in [PwSeats -> [Types -> Nat]]
  <2>1. \A s \in PwSeats, t \in Types :
           (IF \E a \in TakenOf(new) : a.by = s /\ a.pw.type = t THEN pwTime + PwDuration[t] ELSE effects[s][t]) \in Nat
    BY <1>1
  <2> QED  BY <1>6, <2>1
<1>9. active' \subseteq PwSet(nextId', pwTime)
  BY <1>1, <1>2 DEF FieldGoes
<1>10. standing \in [PwSeats -> Fields]
  BY <1>1, PowTypes DEF PowInv
<1>11. PowerupTypeOK'
  <2>1. /\ pwTime' \in Nat /\ nextId' \in Nat /\ nextSpawnAt' \in Nat
        /\ active' \subseteq PwSet(nextId', pwTime')
        /\ standing' \in [PwSeats -> Fields]
        /\ effects' \in [PwSeats -> [Types -> Nat]]
        /\ sent' \in Seq(EvSet(nextId', pwTime'))
    BY <1>1, <1>5, <1>6, <1>7, <1>8, <1>9, <1>10
  <2> QED  BY <2>1 DEF PowerupTypeOK, PwSet, EvSet
<1> QED  BY <1>3, <1>4, <1>11

(* A tick keeps the invariant. *)
LEMMA TickKeeps ==
    ASSUME NEW new, Ticked(new)
    PROVE  PowInv'
<1>1. /\ PowerupTypeOK' /\ IsFiniteSet(active') /\ Cardinality(active') <= PwMaxActive
      /\ (\A pw, q \in active : pw.id = q.id => pw = q)'
  BY TickTypes
<1>2. Announced' /\ OnePerId(SentOf({"spawn"}))' /\ OnePerId(SentOf(EndKinds))' /\ EndsAreGone' /\ LivesOrEnded'
  BY TickAnnounces, TickEndsOnce, TickLoses
<1>3. Apart' /\ NextApart' /\ BornThen' /\ InLifetime'
  BY TickKeepsApart, TickTimes
<1>4. \A s \in PwSeats, t \in Types : EffectIs(s, t)'
  BY TickEffects
<1> QED  BY <1>1, <1>2, <1>3, <1>4 DEF PowInv, EndKinds

-----------------------------------------------------------------------------
(* The rest of the specification. *)

LEMMA PowInvInit ==
    PowerupInit => PowInv
<1> SUFFICES ASSUME PowerupInit PROVE PowInv
  OBVIOUS
<1>1. /\ pwTime = 0 /\ active = {} /\ nextId = 0 /\ nextSpawnAt = PwFirst /\ sent = <<>>
      /\ standing \in [PwSeats -> Fields] /\ effects = [s \in PwSeats |-> [t \in Types |-> 0]]
  BY DEF PowerupInit
<1>2. PowerupTypeOK
  <2>1. sent \in Seq(EvSet(nextId, pwTime))
    BY <1>1
  <2>2. effects \in [PwSeats -> [Types -> Nat]]
    BY <1>1
  <2> QED  BY <1>1, <2>1, <2>2, PowTypes, PowerupConstants
<1>3. IsFiniteSet(active) /\ Cardinality(active) <= PwMaxActive
  BY <1>1, FS_EmptySet, PowerupConstants
<1>4. \A K : SentOf(K) = {}
  BY <1>1 DEF SentOf
<1>5. \A s \in PwSeats, t \in Types : EffectIs(s, t)
  <2>1. \A s, t : AwardsOf(s, t) = {}
    BY <1>4 DEF AwardsOf
  <2> QED  BY <1>1, <2>1 DEF EffectIs
<1>6. 0 .. nextId - 1 = {}
  BY <1>1
<1> QED  BY <1>1, <1>2, <1>3, <1>4, <1>5, <1>6
         DEF PowInv, OnePerId, Announced, EndsAreGone, LivesOrEnded, Apart, NextApart, BornThen, InLifetime

(* What leaves the field, the events and the effects alone, and moves the clock on or not. *)
LEMMA PowStays ==
    ASSUME PowInv, UNCHANGED <<fieldVars, effects, sent>>, pwTime' \in Nat, pwTime <= pwTime',
           standing' \in [PwSeats -> Fields]
    PROVE  PowInv'
<1>1. /\ active' = active /\ nextId' = nextId /\ nextSpawnAt' = nextSpawnAt /\ effects' = effects /\ sent' = sent
  BY DEF fieldVars
<1>2. /\ pwTime \in Nat /\ nextId \in Nat /\ nextSpawnAt \in Nat
      /\ active \subseteq PwSet(nextId, pwTime) /\ sent \in Seq(EvSet(nextId, pwTime))
      /\ effects \in [PwSeats -> [Types -> Nat]]
  BY PowTypes DEF PowInv
<1>3. PwSet(nextId, pwTime) \subseteq PwSet(nextId, pwTime') /\ EvSet(nextId, pwTime) \subseteq EvSet(nextId, pwTime')
  <2>1. 0 .. pwTime \subseteq 0 .. pwTime'
    BY <1>2
  <2> QED  BY <2>1 DEF PwSet, EvSet
<1>4. active' \subseteq PwSet(nextId', pwTime') /\ sent' \in Seq(EvSet(nextId', pwTime'))
  BY <1>1, <1>2, <1>3
<1>5. PowerupTypeOK'
  BY <1>1, <1>2, <1>4 DEF PowerupTypeOK, PwSet, EvSet
<1>6. \A K : SentOf(K)' = SentOf(K)
  BY <1>1 DEF SentOf
<1>7. \A s \in PwSeats, t \in Types : EffectIs(s, t)'
  BY <1>1 DEF PowInv, EffectIs, AwardsOf, SentOf
<1>8. /\ IsFiniteSet(active') /\ Cardinality(active') <= PwMaxActive
      /\ (\A pw, q \in active : pw.id = q.id => pw = q)'
      /\ OnePerId(SentOf({"spawn"}))' /\ OnePerId(SentOf({"expire", "taken"}))'
  BY <1>1 DEF PowInv, OnePerId, SentOf
<1>9. /\ Announced' /\ EndsAreGone' /\ LivesOrEnded' /\ Apart' /\ NextApart' /\ BornThen' /\ InLifetime'
  BY <1>1 DEF PowInv, Announced, EndsAreGone, LivesOrEnded, Apart, NextApart, BornThen, InLifetime, SentOf
<1> QED  BY <1>5, <1>7, <1>8, <1>9 DEF PowInv

(* No step of the powerups breaks the invariant. *)
LEMMA PowStep ==
    PowInv /\ [PowerupNext]_powerupVars => PowInv'
<1> SUFFICES ASSUME PowInv, [PowerupNext]_powerupVars PROVE PowInv'
  OBVIOUS
<1>1. pwTime \in Nat /\ standing \in [PwSeats -> Fields]
  BY PowTypes DEF PowInv
<1>2. ASSUME TickPowerups PROVE PowInv'
  <2>1. PICK new : Fresh(new) /\ TickWith(new)
    BY <1>2 DEF TickPowerups, Fresh
  <2>2. Ticked(new)
    BY <1>2, <2>1 DEF TickPowerups, Ticked
  <2> QED  BY <2>2, TickKeeps
<1>3. CASE PwPass
  <2>1. pwTime' = pwTime + 1 /\ UNCHANGED <<fieldVars, standing, effects, sent>>
    BY <1>3 DEF PwPass
  <2>2. pwTime' \in Nat /\ pwTime <= pwTime' /\ standing' \in [PwSeats -> Fields] /\ UNCHANGED <<fieldVars, effects, sent>>
    BY <1>1, <2>1
  <2> QED  BY <2>2, PowStays
<1>4. ASSUME NEW s \in PwSeats, NEW p \in Fields, Step(s, p) PROVE PowInv'
  <2>1. /\ standing' = [standing EXCEPT ![s] = p] /\ pwTime' = pwTime /\ UNCHANGED <<fieldVars, effects, sent>>
    BY <1>4 DEF Step
  <2>2. pwTime' \in Nat /\ pwTime <= pwTime' /\ standing' \in [PwSeats -> Fields]
    BY <1>1, <2>1
  <2> QED  BY <2>1, <2>2, PowStays
<1>5. CASE UNCHANGED powerupVars
  <2>1. pwTime' = pwTime /\ standing' = standing /\ UNCHANGED <<fieldVars, effects, sent>>
    BY <1>5 DEF powerupVars
  <2>2. pwTime' \in Nat /\ pwTime <= pwTime' /\ standing' \in [PwSeats -> Fields]
    BY <1>1, <2>1
  <2> QED  BY <2>1, <2>2, PowStays
<1> QED  BY <1>2, <1>3, <1>4, <1>5 DEF PowerupNext

(* The invariant says what the property says. *)
LEMMA FieldTold ==
    PowInv => EventsTellTheField
<1> SUFFICES ASSUME PowInv PROVE EventsTellTheField
  OBVIOUS
<1> DEFINE spawns == SentOf({"spawn"})
           ends == SentOf({"expire", "taken"})
           awards == SentOf({"taken"})
<1>1. /\ pwTime \in Nat /\ nextId \in Nat /\ active \subseteq PwSet(nextId, pwTime)
      /\ effects \in [PwSeats -> [Types -> Nat]] /\ sent \in Seq(EvSet(nextId, pwTime))
  BY PowTypes DEF PowInv
<1>2. \A K : \A i \in SentOf(K) : sent[i].id \in 0 .. nextId - 1 /\ sent[i].time \in Nat
  <2> SUFFICES ASSUME NEW K, NEW i \in SentOf(K)
               PROVE  sent[i].id \in 0 .. nextId - 1 /\ sent[i].time \in Nat
    OBVIOUS
  <2>1. i \in DOMAIN sent
    BY DEF SentOf
  <2>2. sent[i] \in EvSet(nextId, pwTime)
    BY <1>1, <2>1
  <2>3. sent[i].id \in 0 .. nextId - 1 /\ sent[i].time \in 0 .. pwTime
    BY <2>2, EvParts
  <2> QED  BY <1>1, <2>3
<1>3. Ids(spawns) = 0 .. nextId - 1
  BY <1>2 DEF PowInv, Announced, Ids
<1>4. {pw.id : pw \in active} = Ids(spawns) \ Ids(ends)
  <2>1. \A pw \in active : pw.id \in 0 .. nextId - 1
    BY <1>1, PwParts
  <2>2. \A pw \in active : pw.id \notin Ids(ends)
    BY DEF PowInv, EndsAreGone, Ids
  <2>3. \A x \in 0 .. nextId - 1 : x \notin Ids(ends) => \E pw \in active : pw.id = x
    BY DEF PowInv, LivesOrEnded, Ids
  <2> HIDE DEF spawns, ends
  <2> QED  BY <1>3, <2>1, <2>2, <2>3
<1>5. \A i, j \in spawns : i < j => sent[j].time - sent[i].time >= PwInterval
  BY DEF PowInv, Apart
<1>6. \A i \in awards, j \in spawns : sent[i].id = sent[j].id => sent[i].time - sent[j].time <= PwLifetime
  BY DEF PowInv, InLifetime
<1>7. ASSUME NEW s \in PwSeats, NEW t \in Types
      PROVE  effects[s][t] = Max({0} \cup {sent[i].time + PwDuration[t] :
                                    i \in {j \in awards : sent[j].to = s /\ sent[j].type = t}})
  <2> DEFINE A == {j \in awards : sent[j].to = s /\ sent[j].type = t}
             S == {0} \cup {sent[i].time + PwDuration[t] : i \in A}
             e == effects[s][t]
  <2>1. A = AwardsOf(s, t)
    BY DEF AwardsOf
  <2>2. PwDuration[t] \in Nat /\ e \in Nat /\ \A i \in A : sent[i].time \in Nat
    BY <1>1, <1>2, PowerupConstants
  <2>3. EffectIs(s, t)
    BY DEF PowInv
  <2> HIDE DEF A
  <2>4. S \subseteq Nat
    BY <2>2
  <2>5. e \in S /\ \A y \in S : y <= e
    BY <2>1, <2>2, <2>3 DEF EffectIs
  <2> HIDE DEF S, e
  <2>6. Max(S) = e
    BY <2>4, <2>5, MaxIs
  <2> QED  BY <2>6 DEF S, e, A
<1>8. OnePerId(spawns) /\ OnePerId(ends) /\ Cardinality(active) <= PwMaxActive
  BY DEF PowInv
<1> QED  BY <1>3, <1>4, <1>5, <1>6, <1>7, <1>8 DEF EventsTellTheField

(* The invariant holds in every state of every behaviour. *)
THEOREM PowInvAlways == PowerupSpec => []PowInv
BY PowInvInit, PowStep, PTL DEF PowerupSpec

(* The powerups' variables keep their types, whatever the seats, the places and the times. *)
THEOREM PowerupTyped == PowerupSpec => []PowerupTypeOK
<1>1. PowInv => PowerupTypeOK
  BY DEF PowInv
<1> QED  BY <1>1, PowInvAlways, PTL

(* What clients were told is the field, always, however late the ticks come.              *)
THEOREM EventsTell == PowerupSpec => []EventsTellTheField
BY FieldTold, PowInvAlways, PTL

-----------------------------------------------------------------------------
(* The layout. *)

(* The first draws of ATTEMPTS that are all blocked leave the one after them. *)
LEMMA SafePosIs ==
    ASSUME NEW draws, NEW from \in Nat
    PROVE  /\ SafePos(draws, from) \in Nat /\ from <= SafePos(draws, from)
           /\ SafePos(draws, from) \in draws =>
                 SafePos(draws, from) - Attempts .. SafePos(draws, from) \subseteq draws
<1> DEFINE clear == {n \in from .. from + Attempts - 1 : n \notin draws}
<1>1. Attempts \in Nat
  BY LayoutAssumption DEF LayoutAssumption
<1>2. CASE clear = {}
  <2>1. SafePos(draws, from) = from + Attempts
    BY <1>2 DEF SafePos
  <2>2. \A n \in from .. from + Attempts - 1 : n \in draws
    BY <1>2
  <2> HIDE DEF clear
  <2> QED  BY <1>1, <2>1, <2>2
<1>3. CASE clear # {}
  <2>1. SafePos(draws, from) = Min(clear)
    BY <1>3 DEF SafePos
  <2>2. clear \subseteq Nat
    BY <1>1
  <2>3. Min(clear) \in clear
    <3> HIDE DEF clear
    <3> QED  BY <1>3, <2>2, MinIs
  <2> QED  BY <1>1, <2>1, <2>3
<1> QED  BY <1>2, <1>3

(* What a pass over the fragments goes through. *)
Layouts == [cursor : Nat, places : [FragIds -> Int], moved : Seq(FragIds)]
Untouched(from, places) == [cursor |-> from, places |-> places, moved |-> <<>>]
LastId == Cardinality(FragIds)

(* The fragments are numbered from one. *)
LEMMA IdsAre == LastId \in Nat /\ FragIds = 1 .. LastId
BY LayoutAssumption, FS_CardinalityType DEF LayoutAssumption, LastId

(* Placing a fragment leaves a layout. *)
LEMMA PlacingTyped ==
    ASSUME NEW draws, NEW ids, NEW acc \in Layouts, NEW f \in FragIds
    PROVE  Placing(draws, ids, acc, f) \in Layouts
<1>1. acc.cursor \in Nat /\ acc.places \in [FragIds -> Int] /\ acc.moved \in Seq(FragIds)
  BY DEF Layouts
<1>2. SafePos(draws, acc.cursor) \in Nat
  BY <1>1, SafePosIs
<1>3. CASE f \notin ids
  BY <1>3 DEF Placing
<1>4. CASE f \in ids
  <2> DEFINE at == SafePos(draws, acc.cursor)
  <2>1. at + 1 \in Nat /\ [acc.places EXCEPT ![f] = at] \in [FragIds -> Int]
    BY <1>1, <1>2
  <2>2. Append(acc.moved, f) \in Seq(FragIds)
    BY <1>1
  <2>3. Placing(draws, ids, acc, f) =
            [cursor |-> at + 1, places |-> [acc.places EXCEPT ![f] = at], moved |-> Append(acc.moved, f)]
    BY <1>4 DEF Placing
  <2> HIDE DEF at
  <2> QED  BY <2>1, <2>2, <2>3 DEF Layouts
<1> QED  BY <1>3, <1>4

(* A pass of the loop is one placement after the other. *)
IsPass(h, draws, from, places, ids) ==
    /\ h[0] = Untouched(from, places) /\ h[LastId] = PlaceAll(draws, from, places, ids)
    /\ \A k \in 0 .. LastId - 1 : h[k + 1] = Placing(draws, ids, h[k], k + 1)

(* There is such a pass, and PlaceAll is what it ends with. *)
LEMMA PassSteps ==
    ASSUME NEW draws, NEW from \in Nat, NEW places \in [FragIds -> Int], NEW ids
    PROVE  \E h \in [0 .. LastId -> Layouts] : IsPass(h, draws, from, places, ids)
<1> DEFINE seq == [i \in 1 .. Cardinality(FragIds) |-> i]
           base == [cursor |-> from, places |-> places, moved |-> <<>>]
           G == [p \in Layouts \X FragIds |-> Placing(draws, ids, p[1], p[2])]
           D == SUBSET DOMAIN seq
           iter == CHOOSE iter : iter = [s \in D |-> IF s = {} THEN base
                                          ELSE Placing(draws, ids, iter[s \ {Max(s)}], seq[Max(s)])]
<1>1. LastId \in Nat /\ FragIds = 1 .. LastId /\ DOMAIN seq = 1 .. LastId /\ Len(seq) = LastId
      /\ seq \in Seq(FragIds) /\ \A i \in 1 .. LastId : seq[i] = i
  BY IdsAre DEF LastId
<1>2. base \in Layouts /\ base = Untouched(from, places)
  BY DEF Layouts, Untouched
<1>3. G \in [Layouts \X FragIds -> Layouts]
  BY PlacingTyped
<1>4. \A acc \in Layouts, f \in FragIds : G[<<acc, f>>] = Placing(draws, ids, acc, f)
  OBVIOUS
<1>5. \A s \in D : s # {} => seq[Max(s)] \in FragIds /\ s \ {Max(s)} \in D
  <2>1. seq \in Seq(FragIds)
    BY <1>1
  <2> HIDE DEF seq
  <2> QED  BY <2>1, FoldTakes
<1>6. iter[DOMAIN seq] = PlaceAll(draws, from, places, ids)
  BY DEF PlaceAll, FoldLeft, MapThenFoldSet
<1>7. iter = [s \in D |-> IF s = {} THEN base ELSE Placing(draws, ids, iter[s \ {Max(s)}], seq[Max(s)])]
  <2> HIDE DEF seq, base, G
  <2>1. PICK g \in [SUBSET (1 .. Len(seq)) -> Layouts] : Iterates(g, Layouts, G, base, seq)
    BY <1>1, <1>2, <1>3, FoldIsThere
  <2>2. g \in [D -> Layouts] /\ g[{}] = base
    BY <1>1, <2>1 DEF Iterates, IteratesTo
  <2>3. \A s \in D : s # {} => g[s] = G[<<g[s \ {Max(s)}], seq[Max(s)]>>]
    BY <1>1, <2>1 DEF Iterates, IteratesTo
  <2> HIDE DEF D
  <2>4. g = [s \in D |-> IF s = {} THEN base ELSE Placing(draws, ids, g[s \ {Max(s)}], seq[Max(s)])]
    BY <1>4, <1>5, <2>2, <2>3
  <2> QED  BY <2>4
<1>8. FoldsAs(iter, Layouts, G, base, seq)
  <2>1. iter[{}] = base
    <3>1. {} \in D
      OBVIOUS
    <3> HIDE DEF iter, base, seq, D
    <3> QED  BY <1>7, <3>1
  <2>2. \A s \in D : s # {} => iter[s] = Placing(draws, ids, iter[s \ {Max(s)}], seq[Max(s)])
    <3> HIDE DEF iter, base, seq, D
    <3> QED  BY <1>7
  <2> HIDE DEF iter, base, seq, G
  <2> QED  BY <1>4, <1>5, <2>1, <2>2 DEF FoldsAs
<1> HIDE DEF iter, base, seq, G
<1>9. PICK h \in [0 .. LastId -> Layouts] : GoesThrough(h, G, base, seq, iter[DOMAIN seq])
  BY <1>1, <1>2, <1>3, <1>8, FoldSteps
<1>10. \A k \in 0 .. LastId - 1 : h[k + 1] = Placing(draws, ids, h[k], k + 1)
  <2>1. \A k \in 0 .. LastId - 1 : k + 1 \in FragIds /\ h[k] \in Layouts /\ seq[k + 1] = k + 1
    BY <1>1
  <2>2. \A k \in 0 .. LastId - 1 : h[k + 1] = G[<<h[k], seq[k + 1]>>]
    BY <1>1, <1>9 DEF GoesThrough
  <2> QED  BY <1>4, <2>1, <2>2
<1>11. h[0] = Untouched(from, places) /\ h[LastId] = PlaceAll(draws, from, places, ids)
  BY <1>1, <1>2, <1>6, <1>9 DEF GoesThrough
<1> QED  BY <1>10, <1>11 DEF IsPass

(* A sequence with one more has one more in its range. *)
LEMMA RangeOfAppend ==
    ASSUME NEW S, NEW q \in Seq(S), NEW e
    PROVE  Range(Append(q, e)) = Range(q) \cup {e}
<1>1. Len(q) \in Nat /\ DOMAIN q = 1 .. Len(q)
  OBVIOUS
<1>2. DOMAIN Append(q, e) = 1 .. Len(q) + 1 /\ Append(q, e)[Len(q) + 1] = e
      /\ \A i \in 1 .. Len(q) : Append(q, e)[i] = q[i]
  OBVIOUS
<1>3. 1 .. Len(q) + 1 = (1 .. Len(q)) \cup {Len(q) + 1}
  BY <1>1
<1> QED  BY <1>1, <1>2, <1>3 DEF Range

(* After the first ids, those to be placed are, each on draws of its own, and the others *)
(* are where they were.                                                            *)
Hemmed(draws, at) == at \in draws => at - Attempts .. at \subseteq draws
PlacedAt(draws, from, acc, f) ==
    from <= acc.places[f] /\ acc.places[f] < acc.cursor /\ Hemmed(draws, acc.places[f])
Passed(draws, from, places, ids, k, acc) ==
    /\ acc \in Layouts /\ from <= acc.cursor
    /\ \A f \in FragIds : f \in ids /\ f <= k => PlacedAt(draws, from, acc, f)
    /\ \A f \in FragIds : ~ (f \in ids /\ f <= k) => acc.places[f] = places[f]
    /\ \A f, g \in ids \cap (1 .. k) : acc.places[f] = acc.places[g] => f = g
    /\ Range(acc.moved) = ids \cap (1 .. k)

(* The next fragment is placed after those before it, or passed over. *)
LEMMA PlacingPasses ==
    ASSUME NEW draws, NEW from \in Nat, NEW places \in [FragIds -> Int], NEW ids,
           NEW k \in Nat, k + 1 \in FragIds, NEW acc, Passed(draws, from, places, ids, k, acc)
    PROVE  Passed(draws, from, places, ids, k + 1, Placing(draws, ids, acc, k + 1))
<1> DEFINE at == SafePos(draws, acc.cursor)
           new == Placing(draws, ids, acc, k + 1)
<1>1. acc.cursor \in Nat /\ acc.places \in [FragIds -> Int] /\ acc.moved \in Seq(FragIds)
  BY DEF Passed, Layouts
<1>2. new \in Layouts
  BY PlacingTyped DEF Passed
<1>3. FragIds \subseteq Nat
  BY IdsAre
<1>4. CASE k + 1 \notin ids
  <2>1. new = acc
    BY <1>4 DEF Placing
  <2>2. ids \cap (1 .. k + 1) = ids \cap (1 .. k)
    BY <1>4
  <2>3. \A f \in FragIds : (f \in ids /\ f <= k + 1) <=> (f \in ids /\ f <= k)
    BY <1>3, <1>4
  <2>4. \A f \in FragIds : f \in ids /\ f <= k + 1 => PlacedAt(draws, from, acc, f)
    BY <2>3 DEF Passed
  <2>5. \A f \in FragIds : ~ (f \in ids /\ f <= k + 1) => acc.places[f] = places[f]
    BY <2>3 DEF Passed
  <2>6. Passed(draws, from, places, ids, k + 1, acc)
    <3>1. \A f, g \in ids \cap (1 .. k + 1) : acc.places[f] = acc.places[g] => f = g
      BY <2>2 DEF Passed
    <3>2. acc \in Layouts /\ from <= acc.cursor /\ Range(acc.moved) = ids \cap (1 .. k + 1)
      BY <2>2 DEF Passed
    <3> QED  BY <2>4, <2>5, <3>1, <3>2, Zenon DEF Passed
  <2> QED  BY <2>1, <2>6
<1>5. CASE k + 1 \in ids
  <2>1. new = [cursor |-> at + 1, places |-> [acc.places EXCEPT ![k + 1] = at],
               moved |-> Append(acc.moved, k + 1)]
    BY <1>5 DEF Placing
  <2>2. at \in Nat /\ acc.cursor <= at /\ Hemmed(draws, at)
    BY <1>1, SafePosIs DEF Hemmed
  <2>3. new.cursor = at + 1 /\ new.places = [acc.places EXCEPT ![k + 1] = at]
        /\ new.moved = Append(acc.moved, k + 1)
    BY <2>1
  <2>4. new.places[k + 1] = at /\ \A f \in FragIds : f # k + 1 => new.places[f] = acc.places[f]
    BY <1>1, <2>3
  <2> HIDE DEF at, new
  <2>5. from <= acc.cursor
    BY DEF Passed
  <2>6. \A f \in FragIds : acc.places[f] \in Int
    BY <1>1
  <2>7. \A f \in FragIds : f # k + 1 => (f <= k + 1 <=> f <= k)
    BY <1>3
  <2>8. ASSUME NEW f \in FragIds, f \in ids, f <= k
        PROVE  PlacedAt(draws, from, acc, f) /\ f # k + 1
    BY <2>8, <1>3 DEF Passed
  <2>9. ASSUME NEW f \in FragIds, f \in ids, f <= k + 1 PROVE PlacedAt(draws, from, new, f)
    <3>1. CASE f = k + 1
      BY <3>1, <1>1, <2>2, <2>3, <2>4, <2>5 DEF PlacedAt
    <3>2. CASE f # k + 1
      <4>1. PlacedAt(draws, from, acc, f) /\ new.places[f] = acc.places[f]
        BY <3>2, <2>4, <2>7, <2>8, <2>9
      <4>2. acc.cursor <= new.cursor
        BY <1>1, <2>2, <2>3
      <4> QED  BY <4>1, <4>2, <1>1, <1>2, <2>2, <2>3, <2>6 DEF PlacedAt
    <3> QED  BY <3>1, <3>2
  <2>10. \A f \in FragIds : ~ (f \in ids /\ f <= k + 1) => new.places[f] = places[f]
    <3>1. \A f \in FragIds : ~ (f \in ids /\ f <= k + 1) => f # k + 1 /\ ~ (f \in ids /\ f <= k)
      BY <1>3, <1>5
    <3> QED  BY <2>4, <3>1 DEF Passed
  <2>11. ASSUME NEW f \in ids \cap (1 .. k + 1), NEW g \in ids \cap (1 .. k + 1),
                new.places[f] = new.places[g]
         PROVE  f = g
    <3>1. f \in FragIds /\ g \in FragIds
      BY IdsAre
    <3>2. \A e \in ids \cap (1 .. k + 1) : e \in FragIds /\ e # k + 1 =>
             /\ e \in ids \cap (1 .. k) /\ new.places[e] = acc.places[e]
             /\ acc.places[e] < acc.cursor
      BY <2>4, <2>8, <2>7, IdsAre DEF PlacedAt
    <3>3. CASE f # k + 1 /\ g # k + 1
      BY <2>11, <3>1, <3>2, <3>3 DEF Passed
    <3>4. CASE f = k + 1 /\ g # k + 1
      BY <2>11, <3>1, <3>2, <3>4, <1>1, <2>2, <2>4, <2>6
    <3>5. CASE f # k + 1 /\ g = k + 1
      BY <2>11, <3>1, <3>2, <3>5, <1>1, <2>2, <2>4, <2>6
    <3> QED  BY <3>3, <3>4, <3>5
  <2>12. Range(new.moved) = ids \cap (1 .. k + 1)
    <3>1. Range(Append(acc.moved, k + 1)) = Range(acc.moved) \cup {k + 1}
      BY <1>1, RangeOfAppend
    <3>2. ids \cap (1 .. k + 1) = (ids \cap (1 .. k)) \cup {k + 1}
      BY <1>5
    <3> QED  BY <2>3, <3>1, <3>2 DEF Passed
  <2>13. from <= new.cursor
    BY <1>1, <2>2, <2>3, <2>5
  <2>14. \A f \in FragIds : f \in ids /\ f <= k + 1 => PlacedAt(draws, from, new, f)
    BY <2>9
  <2>15. \A f, g \in ids \cap (1 .. k + 1) : new.places[f] = new.places[g] => f = g
    BY <2>11
  <2>16. Passed(draws, from, places, ids, k + 1, new)
    BY <1>2, <2>10, <2>12, <2>13, <2>14, <2>15, Zenon DEF Passed
  <2> QED  BY <2>16 DEF new
<1> QED  BY <1>4, <1>5

(* So a pass places its fragments, and no other. *)
LEMMA PassPlaces ==
    ASSUME NEW draws, NEW from \in Nat, NEW places \in [FragIds -> Int], NEW ids
    PROVE  Passed(draws, from, places, ids, LastId, PlaceAll(draws, from, places, ids))
<1>1. PICK h \in [0 .. LastId -> Layouts] : IsPass(h, draws, from, places, ids)
  BY PassSteps
<1> DEFINE T == {k \in Nat : k <= LastId => Passed(draws, from, places, ids, k, h[k])}
<1>2. LastId \in Nat /\ FragIds = 1 .. LastId
  BY IdsAre
<1>3. 0 \in T
  <2> DEFINE u == Untouched(from, places)
  <2>1. u.cursor = from /\ u.places = places /\ u.moved = <<>> /\ u \in Layouts
    BY DEF Untouched, Layouts
  <2>2. Range(<<>>) = {}
    BY DEF Range
  <2>3. ids \cap (1 .. 0) = {} /\ \A f \in FragIds : ~ (f <= 0)
    BY <1>2
  <2> HIDE DEF u
  <2>4. Passed(draws, from, places, ids, 0, u)
    BY <2>1, <2>2, <2>3 DEF Passed
  <2> QED  BY <1>1, <2>4 DEF u, IsPass
<1>4. ASSUME NEW k \in Nat, k \in T PROVE k + 1 \in T
  <2>1. SUFFICES ASSUME k + 1 <= LastId PROVE Passed(draws, from, places, ids, k + 1, h[k + 1])
    OBVIOUS
  <2>2. Passed(draws, from, places, ids, k, h[k]) /\ k + 1 \in FragIds /\ k \in 0 .. LastId - 1
    BY <1>2, <1>4, <2>1
  <2>3. h[k + 1] = Placing(draws, ids, h[k], k + 1)
    BY <1>1, <2>2 DEF IsPass
  <2> QED  BY <2>2, <2>3, PlacingPasses
<1>5. LastId \in T
  <2> HIDE DEF T
  <2> QED  BY <1>2, <1>3, <1>4, NaturalInduction
<1> QED  BY <1>1, <1>2, <1>5 DEF IsPass

-----------------------------------------------------------------------------
(* The log replayed: a respawn at a time. *)
Again(draws, layout, r) == PlaceAll(draws, layout.cursor, layout.places, OfRarity(r))

(* A respawn leaves a layout. *)
LEMMA AgainTyped ==
    ASSUME NEW draws, NEW layout \in Layouts, NEW r
    PROVE  Again(draws, layout, r) \in Layouts
<1>1. layout.cursor \in Nat /\ layout.places \in [FragIds -> Int]
  BY DEF Layouts
<1> QED  BY <1>1, PassPlaces DEF Again, Passed

(* The layout of a seed has every fragment placed. *)
LEMMA CreateTyped ==
    ASSUME NEW draws
    PROVE  CreateLayout(draws) \in Layouts /\ Passed(draws, 0, NoPlaces, FragIds, LastId, CreateLayout(draws))
<1>1. NoPlaces \in [FragIds -> Int]
  BY DEF NoPlaces
<1>2. Passed(draws, 0, NoPlaces, FragIds, LastId, PlaceAll(draws, 0, NoPlaces, FragIds))
  BY <1>1, PassPlaces
<1> QED  BY <1>2 DEF CreateLayout, Passed

IsReplay(h, draws, log) ==
    /\ h[0] = CreateLayout(draws) /\ h[Len(log)] = Replay(draws, log)
    /\ \A k \in 0 .. Len(log) - 1 : h[k + 1] = Again(draws, h[k], log[k + 1])

(* There is such a replay of a log, whatever it holds. *)
LEMMA ReplaySteps ==
    ASSUME NEW draws, NEW X, NEW log \in Seq(X)
    PROVE  \E h \in [0 .. Len(log) -> Layouts] : IsReplay(h, draws, log)
<1> DEFINE base == CreateLayout(draws)
           G == [p \in Layouts \X X |-> Again(draws, p[1], p[2])]
           D == SUBSET DOMAIN log
           iter == CHOOSE iter : iter = [s \in D |-> IF s = {} THEN base
                                          ELSE Again(draws, iter[s \ {Max(s)}], log[Max(s)])]
<1>1. Len(log) \in Nat /\ DOMAIN log = 1 .. Len(log) /\ \A i \in 1 .. Len(log) : log[i] \in X
  OBVIOUS
<1>2. base \in Layouts
  BY CreateTyped
<1>3. G \in [Layouts \X X -> Layouts]
  BY AgainTyped
<1>4. \A layout \in Layouts, r \in X : G[<<layout, r>>] = Again(draws, layout, r)
  OBVIOUS
<1>5. \A s \in D : s # {} => log[Max(s)] \in X /\ s \ {Max(s)} \in D
  BY FoldTakes
<1>6. iter[DOMAIN log] = Replay(draws, log)
  BY DEF Replay, FoldLeft, MapThenFoldSet, Again
<1>7. iter = [s \in D |-> IF s = {} THEN base ELSE Again(draws, iter[s \ {Max(s)}], log[Max(s)])]
  <2> HIDE DEF base, G
  <2>1. PICK g \in [SUBSET (1 .. Len(log)) -> Layouts] : Iterates(g, Layouts, G, base, log)
    BY <1>2, <1>3, FoldIsThere
  <2>2. g \in [D -> Layouts] /\ g[{}] = base
    BY <1>1, <2>1 DEF Iterates, IteratesTo
  <2>3. \A s \in D : s # {} => g[s] = G[<<g[s \ {Max(s)}], log[Max(s)]>>]
    BY <1>1, <2>1 DEF Iterates, IteratesTo
  <2> HIDE DEF D
  <2>4. g = [s \in D |-> IF s = {} THEN base ELSE Again(draws, g[s \ {Max(s)}], log[Max(s)])]
    BY <1>4, <1>5, <2>2, <2>3
  <2> QED  BY <2>4
<1>8. FoldsAs(iter, Layouts, G, base, log)
  <2>1. iter[{}] = base
    <3>1. {} \in D
      OBVIOUS
    <3> HIDE DEF iter, base, D
    <3> QED  BY <1>7, <3>1
  <2>2. \A s \in D : s # {} => iter[s] = Again(draws, iter[s \ {Max(s)}], log[Max(s)])
    <3> HIDE DEF iter, base, D
    <3> QED  BY <1>7
  <2> HIDE DEF iter, base, G
  <2> QED  BY <1>4, <1>5, <2>1, <2>2 DEF FoldsAs
<1> HIDE DEF iter, base, G
<1>9. PICK h \in [0 .. Len(log) -> Layouts] : GoesThrough(h, G, base, log, iter[DOMAIN log])
  BY <1>2, <1>3, <1>8, FoldSteps
<1>10. \A k \in 0 .. Len(log) - 1 : h[k + 1] = Again(draws, h[k], log[k + 1])
  <2>1. \A k \in 0 .. Len(log) - 1 : log[k + 1] \in X /\ h[k] \in Layouts
    BY <1>1
  <2>2. \A k \in 0 .. Len(log) - 1 : h[k + 1] = G[<<h[k], log[k + 1]>>]
    BY <1>9 DEF GoesThrough
  <2> QED  BY <1>4, <2>1, <2>2
<1>11. h[0] = CreateLayout(draws) /\ h[Len(log)] = Replay(draws, log)
  BY <1>6, <1>9 DEF GoesThrough, base
<1> QED  BY <1>10, <1>11 DEF IsReplay

(* An empty log leaves the layout of the seed, and a respawn more goes on from there. *)
LEMMA ReplayNone == ASSUME NEW draws PROVE Replay(draws, <<>>) = CreateLayout(draws)
<1>1. <<>> \in Seq({})
  OBVIOUS
<1>2. PICK h \in [0 .. Len(<<>>) -> Layouts] : IsReplay(h, draws, <<>>)
  BY <1>1, ReplaySteps
<1> QED  BY <1>2 DEF IsReplay

(* A respawn more goes on from where the log ends. *)
LEMMA ReplayMore ==
    ASSUME NEW draws, NEW X, NEW log \in Seq(X), NEW r \in X
    PROVE  Replay(draws, Append(log, r)) = Again(draws, Replay(draws, log), r)
<1> DEFINE more == Append(log, r)
           n == Len(log)
<1>1. n \in Nat /\ more \in Seq(X) /\ Len(more) = n + 1 /\ more[n + 1] = r
      /\ \A k \in 0 .. n - 1 : more[k + 1] = log[k + 1]
  OBVIOUS
<1> HIDE DEF more
<1>2. PICK h \in [0 .. Len(log) -> Layouts] : IsReplay(h, draws, log)
  BY ReplaySteps
<1>3. PICK i \in [0 .. Len(more) -> Layouts] : IsReplay(i, draws, more)
  BY <1>1, ReplaySteps
<1> HIDE DEF n
<1>4. h[0] = i[0]
  BY <1>2, <1>3 DEF IsReplay
<1>5. \A k \in 0 .. n - 1 : h[k + 1] = Again(draws, h[k], log[k + 1])
  BY <1>2 DEF IsReplay, n
<1>6. \A k \in 0 .. n : i[k + 1] = Again(draws, i[k], more[k + 1])
  BY <1>1, <1>3 DEF IsReplay
<1>7. \A k \in 0 .. n - 1 : h[k] = i[k] => h[k + 1] = i[k + 1]
  <2>1. ASSUME NEW k \in 0 .. n - 1, h[k] = i[k] PROVE h[k + 1] = i[k + 1]
    <3>0. n \in Nat
      BY <1>1
    <3>1. k \in 0 .. n /\ more[k + 1] = log[k + 1]
      <4>1. k \in 0 .. n
        BY <3>0
      <4>2. more[k + 1] = log[k + 1]
        BY <1>1, Zenon
      <4> QED  BY <4>1, <4>2
    <3>2. h[k + 1] = Again(draws, h[k], log[k + 1])
      BY <1>5
    <3>3. i[k + 1] = Again(draws, i[k], more[k + 1])
      BY <1>6, <3>1
    <3> QED  BY <2>1, <3>1, <3>2, <3>3
  <2> QED  BY <2>1
<1>8. h[n] = i[n]
  BY <1>1, <1>4, <1>7, StepsAgree
<1>9. i[n + 1] = Again(draws, i[n], r)
  BY <1>1, <1>6
<1>10. h[n] = Replay(draws, log) /\ i[n + 1] = Replay(draws, more)
  BY <1>1, <1>2, <1>3 DEF IsReplay, n
<1> QED  BY <1>8, <1>9, <1>10 DEF more

(* What a client sees: an event at a time. *)
Screens == [FragIds -> [at : Int, taken : BOOLEAN]]
Kinds == {"respawn", "taken", "rejected"}
Events == [kind : Kinds, id : FragIds, at : Int]

(* An event changes the fragment it is about, and no other. *)
LEMMA AppliedTyped ==
    ASSUME NEW view \in Screens, NEW ev \in Events
    PROVE  /\ Applied(view, ev) \in Screens
           /\ Applied(view, ev)[ev.id] =
                 [at |-> IF ev.kind = "respawn" THEN ev.at ELSE view[ev.id].at, taken |-> ev.kind = "taken"]
           /\ \A f \in FragIds : f # ev.id => Applied(view, ev)[f] = view[f]
<1>1. ev.id \in FragIds /\ ev.at \in Int
  BY DEF Events
<1>2. \A f \in FragIds : view[f].at \in Int
  BY DEF Screens
<1> DEFINE new == [at |-> IF ev.kind = "respawn" THEN ev.at ELSE view[ev.id].at, taken |-> ev.kind = "taken"]
<1>3. new \in [at : Int, taken : BOOLEAN]
  BY <1>1, <1>2
<1>4. Applied(view, ev) = [view EXCEPT ![ev.id] = new]
  BY DEF Applied
<1> HIDE DEF new
<1>5. Applied(view, ev) \in Screens /\ Applied(view, ev)[ev.id] = new
      /\ \A f \in FragIds : f # ev.id => Applied(view, ev)[f] = view[f]
  BY <1>1, <1>3, <1>4 DEF Screens
<1> QED  BY <1>5 DEF new

IsReading(h, view, events) ==
    /\ h[0] = view /\ h[Len(events)] = Arrived(view, events)
    /\ \A k \in 0 .. Len(events) - 1 : h[k + 1] = Applied(h[k], events[k + 1])

(* There is such a reading of the events, one after the other. *)
LEMMA ReadingSteps ==
    ASSUME NEW view \in Screens, NEW events \in Seq(Events)
    PROVE  \E h \in [0 .. Len(events) -> Screens] : IsReading(h, view, events)
<1> DEFINE base == view
           G == [p \in Screens \X Events |-> Applied(p[1], p[2])]
           D == SUBSET DOMAIN events
           iter == CHOOSE iter : iter = [s \in D |-> IF s = {} THEN base
                                          ELSE Applied(iter[s \ {Max(s)}], events[Max(s)])]
<1>1. Len(events) \in Nat /\ DOMAIN events = 1 .. Len(events) /\ \A i \in 1 .. Len(events) : events[i] \in Events
  OBVIOUS
<1>2. base \in Screens
  OBVIOUS
<1>3. G \in [Screens \X Events -> Screens]
  BY AppliedTyped
<1>4. \A seen \in Screens, e \in Events : G[<<seen, e>>] = Applied(seen, e)
  OBVIOUS
<1>5. \A s \in D : s # {} => events[Max(s)] \in Events /\ s \ {Max(s)} \in D
  BY FoldTakes
<1>6. iter[DOMAIN events] = Arrived(view, events)
  BY DEF Arrived, FoldLeft, MapThenFoldSet
<1>7. iter = [s \in D |-> IF s = {} THEN base ELSE Applied(iter[s \ {Max(s)}], events[Max(s)])]
  <2> HIDE DEF base, G
  <2>1. PICK g \in [SUBSET (1 .. Len(events)) -> Screens] : Iterates(g, Screens, G, base, events)
    BY <1>2, <1>3, FoldIsThere
  <2>2. g \in [D -> Screens] /\ g[{}] = base
    BY <1>1, <2>1 DEF Iterates, IteratesTo
  <2>3. \A s \in D : s # {} => g[s] = G[<<g[s \ {Max(s)}], events[Max(s)]>>]
    BY <1>1, <2>1 DEF Iterates, IteratesTo
  <2> HIDE DEF D
  <2>4. g = [s \in D |-> IF s = {} THEN base ELSE Applied(g[s \ {Max(s)}], events[Max(s)])]
    BY <1>4, <1>5, <2>2, <2>3
  <2> QED  BY <2>4
<1>8. FoldsAs(iter, Screens, G, base, events)
  <2>1. iter[{}] = base
    <3>1. {} \in D
      OBVIOUS
    <3> HIDE DEF iter, base, D
    <3> QED  BY <1>7, <3>1
  <2>2. \A s \in D : s # {} => iter[s] = Applied(iter[s \ {Max(s)}], events[Max(s)])
    <3> HIDE DEF iter, base, D
    <3> QED  BY <1>7
  <2> HIDE DEF iter, base, G
  <2> QED  BY <1>4, <1>5, <2>1, <2>2 DEF FoldsAs
<1> HIDE DEF iter, base, G
<1>9. PICK h \in [0 .. Len(events) -> Screens] : GoesThrough(h, G, base, events, iter[DOMAIN events])
  BY <1>2, <1>3, <1>8, FoldSteps
<1>10. \A k \in 0 .. Len(events) - 1 : h[k + 1] = Applied(h[k], events[k + 1])
  <2>1. \A k \in 0 .. Len(events) - 1 : events[k + 1] \in Events /\ h[k] \in Screens
    BY <1>1
  <2>2. \A k \in 0 .. Len(events) - 1 : h[k + 1] = G[<<h[k], events[k + 1]>>]
    BY <1>9 DEF GoesThrough
  <2> QED  BY <1>4, <2>1, <2>2
<1>11. h[0] = view /\ h[Len(events)] = Arrived(view, events)
  BY <1>6, <1>9 DEF GoesThrough, base
<1> QED  BY <1>10, <1>11 DEF IsReading

(* Nothing on the way changes nothing. *)
LEMMA ReadNone == ASSUME NEW view \in Screens PROVE Arrived(view, <<>>) = view
<1>1. <<>> \in Seq(Events)
  OBVIOUS
<1>2. PICK h \in [0 .. Len(<<>>) -> Screens] : IsReading(h, view, <<>>)
  BY <1>1, ReadingSteps
<1> QED  BY <1>2 DEF IsReading

(* What has been read is a screen again. *)
LEMMA ReadTyped ==
    ASSUME NEW view \in Screens, NEW events \in Seq(Events)
    PROVE  Arrived(view, events) \in Screens
<1>1. PICK h \in [0 .. Len(events) -> Screens] : IsReading(h, view, events)
  BY ReadingSteps
<1>2. Len(events) \in 0 .. Len(events)
  OBVIOUS
<1> QED  BY <1>1, <1>2 DEF IsReading

(* What comes later is applied to what came first. *)
LEMMA ReadInTurn ==
    ASSUME NEW view \in Screens, NEW first \in Seq(Events), NEW then \in Seq(Events)
    PROVE  Arrived(view, first \o then) = Arrived(Arrived(view, first), then)
<1> DEFINE n == Len(first)
           m == Len(then)
           all == first \o then
<1>1. n \in Nat /\ m \in Nat /\ all \in Seq(Events) /\ Len(all) = n + m
  OBVIOUS
<1>2. \A k \in 0 .. n - 1 : all[k + 1] = first[k + 1]
  OBVIOUS
<1>3. \A k \in 0 .. m - 1 : all[(n + k) + 1] = then[k + 1]
  <2>1. ASSUME NEW k \in 0 .. m - 1 PROVE all[(n + k) + 1] = then[k + 1]
    <3>1. (n + k) + 1 \in 1 .. n + m /\ (n + k) + 1 > n /\ ((n + k) + 1) - n = k + 1
      BY <1>1
    <3> QED  BY <3>1
  <2> QED  BY <2>1
<1> HIDE DEF all
<1>4. PICK h \in [0 .. Len(first) -> Screens] : IsReading(h, view, first)
  BY ReadingSteps
<1>5. PICK i \in [0 .. Len(all) -> Screens] : IsReading(i, view, all)
  BY <1>1, ReadingSteps
<1>6. PICK j \in [0 .. Len(then) -> Screens] : IsReading(j, Arrived(view, first), then)
  BY ReadTyped, ReadingSteps
<1>7. h[0] = i[0]
  BY <1>4, <1>5 DEF IsReading
<1>8. \A k \in 0 .. n - 1 : h[k + 1] = Applied(h[k], first[k + 1])
  BY <1>4 DEF IsReading
<1>9. \A k \in 0 .. (n + m) - 1 : i[k + 1] = Applied(i[k], all[k + 1])
  BY <1>1, <1>5 DEF IsReading
<1>10. \A k \in 0 .. m - 1 : j[k + 1] = Applied(j[k], then[k + 1])
  BY <1>6 DEF IsReading
<1>11. h[n] = Arrived(view, first) /\ j[0] = Arrived(view, first)
       /\ j[m] = Arrived(Arrived(view, first), then)
  BY <1>4, <1>6 DEF IsReading
<1>12. i[n + m] = Arrived(view, all)
  BY <1>1, <1>5 DEF IsReading
<1> HIDE DEF n, m
<1>13. h[n] = i[n]
  <2>1. ASSUME NEW k \in 0 .. n - 1, h[k] = i[k] PROVE h[k + 1] = i[k + 1]
    <3>1. k \in 0 .. (n + m) - 1
      BY <1>1
    <3> QED  BY <1>2, <1>8, <1>9, <2>1, <3>1, Zenon
  <2>2. n \in Nat
    BY <1>1
  <2> QED  BY <1>7, <2>1, <2>2, StepsAgree
<1> DEFINE late == [k \in 0 .. m |-> i[n + k]]
<1>14. late[0] = j[0] /\ late[m] = i[n + m]
  BY <1>1, <1>11, <1>13
<1>15. ASSUME NEW k \in 0 .. m - 1, late[k] = j[k] PROVE late[k + 1] = j[k + 1]
  <2>1. n + k \in 0 .. (n + m) - 1 /\ k \in 0 .. m /\ k + 1 \in 0 .. m /\ n + (k + 1) = (n + k) + 1
    BY <1>1
  <2>2. late[k] = i[n + k] /\ late[k + 1] = i[(n + k) + 1]
    BY <2>1
  <2> HIDE DEF late
  <2>3. i[(n + k) + 1] = Applied(i[n + k], all[(n + k) + 1])
    BY <1>9, <2>1, Zenon
  <2>4. all[(n + k) + 1] = then[k + 1] /\ j[k + 1] = Applied(j[k], then[k + 1])
    BY <1>3, <1>10, Zenon
  <2> QED  BY <1>15, <2>2, <2>3, <2>4
<1>16. late[m] = j[m]
  <2>1. m \in Nat
    BY <1>1
  <2> HIDE DEF late
  <2> QED  BY <1>14, <1>15, <2>1, StepsAgree
<1> HIDE DEF late
<1> QED  BY <1>11, <1>12, <1>14, <1>16 DEF all

(* A single event is applied once. *)
LEMMA ReadOne ==
    ASSUME NEW view \in Screens, NEW ev \in Events
    PROVE  Arrived(view, <<ev>>) = Applied(view, ev)
<1>1. <<ev>> \in Seq(Events) /\ Len(<<ev>>) = 1 /\ <<ev>>[1] = ev
  OBVIOUS
<1>2. PICK h \in [0 .. Len(<<ev>>) -> Screens] : IsReading(h, view, <<ev>>)
  BY <1>1, ReadingSteps
<1>3. h[0] = view /\ h[1] = Arrived(view, <<ev>>)
  BY <1>1, <1>2 DEF IsReading
<1>4. h[0 + 1] = Applied(h[0], <<ev>>[0 + 1])
  <2>1. 0 \in 0 .. Len(<<ev>>) - 1
    BY <1>1
  <2> QED  BY <1>2, <2>1, Zenon DEF IsReading
<1> QED  BY <1>1, <1>3, <1>4

(* The events of a respawn show where it placed its fragments, and nothing else. *)
Moves(moved, places) == [i \in DOMAIN moved |-> Notice("respawn", moved[i], places[moved[i]])]

(* They are events, one for every fragment moved. *)
LEMMA MovesAreEvents ==
    ASSUME NEW moved \in Seq(FragIds), NEW places \in [FragIds -> Int]
    PROVE  /\ Moves(moved, places) \in Seq(Events) /\ Len(Moves(moved, places)) = Len(moved)
           /\ \A k \in 1 .. Len(moved) : moved[k] \in FragIds
                 /\ Moves(moved, places)[k] = Notice("respawn", moved[k], places[moved[k]])
<1>1. DOMAIN moved = 1 .. Len(moved) /\ Len(moved) \in Nat /\ \A k \in 1 .. Len(moved) : moved[k] \in FragIds
  OBVIOUS
<1>2. \A k \in 1 .. Len(moved) : Notice("respawn", moved[k], places[moved[k]]) \in Events
  BY <1>1 DEF Notice, Events, Kinds
<1>3. Moves(moved, places) \in [1 .. Len(moved) -> Events]
  BY <1>1, <1>2 DEF Moves
<1>4. Moves(moved, places) \in Seq(Events) /\ Len(Moves(moved, places)) = Len(moved)
  <2> DEFINE q == Moves(moved, places)
  <2>1. q \in [1 .. Len(moved) -> Events]
    BY <1>3
  <2> HIDE DEF q
  <2>2. q \in Seq(Events) /\ Len(q) = Len(moved)
    BY <1>1, <2>1
  <2> QED  BY <2>2 DEF q
<1>5. \A k \in 1 .. Len(moved) : Moves(moved, places)[k] = Notice("respawn", moved[k], places[moved[k]])
  BY <1>1 DEF Moves
<1> QED  BY <1>1, <1>4, <1>5

(* Once they have arrived, the moved fragments are free where they were placed. *)
LEMMA MovesSeen ==
    ASSUME NEW moved \in Seq(FragIds), NEW places \in [FragIds -> Int], NEW view \in Screens,
           NEW f \in FragIds
    PROVE  Arrived(view, Moves(moved, places))[f] =
              IF f \in Range(moved) THEN [at |-> places[f], taken |-> FALSE] ELSE view[f]
<1> DEFINE events == Moves(moved, places)
           there == [at |-> places[f], taken |-> FALSE]
           Upto(k) == {moved[i] : i \in 1 .. k}
<1>1. /\ events \in Seq(Events) /\ Len(events) = Len(moved) /\ Len(moved) \in Nat
      /\ \A k \in 1 .. Len(moved) : /\ moved[k] \in FragIds /\ events[k] \in Events
                                     /\ events[k] = Notice("respawn", moved[k], places[moved[k]])
  <2>0. /\ events \in Seq(Events) /\ Len(events) = Len(moved)
        /\ \A k \in 1 .. Len(moved) : moved[k] \in FragIds
              /\ events[k] = Notice("respawn", moved[k], places[moved[k]])
    BY MovesAreEvents, Zenon
  <2>1. Len(moved) \in Nat /\ events \in Seq(Events) /\ Len(events) = Len(moved)
    <3> HIDE DEF events
    <3> QED  BY <2>0
  <2>2. \A k \in 1 .. Len(moved) : moved[k] \in FragIds /\ events[k] = Notice("respawn", moved[k], places[moved[k]])
    BY <2>0, Zenon
  <2> HIDE DEF events
  <2>3. \A k \in 1 .. Len(moved) : events[k] \in Events
    BY <2>1
  <2> QED  BY <2>1, <2>2, <2>3
<1> HIDE DEF events
<1>2. PICK h \in [0 .. Len(events) -> Screens] : IsReading(h, view, events)
  BY <1>1, ReadingSteps
<1> DEFINE T == {k \in Nat : k <= Len(moved) => h[k][f] = IF f \in Upto(k) THEN there ELSE view[f]}
<1>3. 0 \in T
  <2>1. f \notin Upto(0)
    OBVIOUS
  <2> HIDE DEF Upto
  <2> QED  BY <1>2, <2>1 DEF IsReading
<1>4. ASSUME NEW k \in Nat, k \in T PROVE k + 1 \in T
  <2>1. SUFFICES ASSUME k + 1 <= Len(moved)
                 PROVE  h[k + 1][f] = IF f \in Upto(k + 1) THEN there ELSE view[f]
    OBVIOUS
  <2>2. k \in 0 .. Len(events) - 1 /\ k \in 0 .. Len(events) /\ k + 1 \in 1 .. Len(moved)
    BY <1>1, <2>1
  <2>3. h[k][f] = IF f \in Upto(k) THEN there ELSE view[f]
    BY <1>4, <2>1, <1>1
  <2> DEFINE e == events[k + 1]
  <2>4. h[k + 1] = Applied(h[k], e)
    BY <1>2, <2>2 DEF IsReading
  <2>5. e \in Events /\ e.id = moved[k + 1] /\ e.at = places[moved[k + 1]] /\ e.kind = "respawn"
    <3>1. e = Notice("respawn", moved[k + 1], places[moved[k + 1]]) /\ e \in Events
      BY <1>1, <2>2, Zenon
    <3> HIDE DEF e
    <3> QED  BY <3>1 DEF Notice
  <2>6. Upto(k + 1) = Upto(k) \cup {moved[k + 1]}
    <3>1. 1 .. k + 1 = (1 .. k) \cup {k + 1}
      OBVIOUS
    <3> QED  BY <3>1
  <2>7. h[k] \in Screens
    BY <2>2
  <2> HIDE DEF e, T, Upto
  <2>10. /\ Applied(h[k], e)[e.id] = [at |-> IF e.kind = "respawn" THEN e.at ELSE h[k][e.id].at, taken |-> e.kind = "taken"]
         /\ \A i \in FragIds : i # e.id => Applied(h[k], e)[i] = h[k][i]
    BY <2>5, <2>7, AppliedTyped, Zenon
  <2>8. CASE f = moved[k + 1]
    <3>1. h[k + 1][f] = [at |-> e.at, taken |-> FALSE]
      BY <2>4, <2>5, <2>8, <2>10
    <3> QED  BY <2>5, <2>6, <2>8, <3>1
  <2>9. CASE f # moved[k + 1]
    <3>1. h[k + 1][f] = h[k][f]
      BY <2>4, <2>5, <2>9, <2>10
    <3> QED  BY <2>3, <2>6, <2>9, <3>1
  <2> QED  BY <2>8, <2>9
<1>5. Len(moved) \in T
  <2> HIDE DEF T
  <2> QED  BY <1>1, <1>3, <1>4, NaturalInduction
<1>6. Range(moved) = Upto(Len(moved))
  BY DEF Range
<1>7. h[Len(moved)] = Arrived(view, events)
  BY <1>1, <1>2 DEF IsReading
<1>8. h[Len(moved)][f] = IF f \in Upto(Len(moved)) THEN there ELSE view[f]
  <2>1. Len(moved) <= Len(moved)
    BY <1>1
  <2> HIDE DEF Upto, there
  <2> QED  BY <1>5, <2>1
<1> HIDE DEF Upto, T
<1> QED  BY <1>6, <1>7, <1>8 DEF events

(* A view that is as another but for a fragment it has collected already. *)
Ahead(new, old, f) ==
    \A g \in FragIds : /\ new[g].at = old[g].at /\ (old[g].taken => new[g].taken)
                       /\ g # f => new[g] = old[g]

(* It stays so whatever the two are told. *)
LEMMA AheadOnce ==
    ASSUME NEW new \in Screens, NEW old \in Screens, NEW f \in FragIds, NEW ev \in Events, Ahead(new, old, f)
    PROVE  Ahead(Applied(new, ev), Applied(old, ev), f)
<1> DEFINE n == Applied(new, ev)
           o == Applied(old, ev)
<1>1. /\ n[ev.id] = [at |-> IF ev.kind = "respawn" THEN ev.at ELSE new[ev.id].at, taken |-> ev.kind = "taken"]
      /\ \A g \in FragIds : g # ev.id => n[g] = new[g]
  BY AppliedTyped, Zenon
<1>2. /\ o[ev.id] = [at |-> IF ev.kind = "respawn" THEN ev.at ELSE old[ev.id].at, taken |-> ev.kind = "taken"]
      /\ \A g \in FragIds : g # ev.id => o[g] = old[g]
  BY AppliedTyped, Zenon
<1> HIDE DEF n, o
<1>3. ev.id \in FragIds
  BY DEF Events
<1>4. n[ev.id] = o[ev.id]
  <2>1. new[ev.id].at = old[ev.id].at
    BY <1>3 DEF Ahead
  <2> QED  BY <1>1, <1>2, <2>1
<1>5. Ahead(n, o, f)
  <2>1. ASSUME NEW g \in FragIds
        PROVE  /\ n[g].at = o[g].at /\ (o[g].taken => n[g].taken)
               /\ g # f => n[g] = o[g]
    <3>1. CASE g = ev.id
      BY <1>4, <3>1
    <3>2. CASE g # ev.id
      <4>1. n[g] = new[g] /\ o[g] = old[g]
        BY <1>1, <1>2, <3>2
      <4> QED  BY <4>1 DEF Ahead
    <3> QED  BY <3>1, <3>2
  <2> QED  BY <2>1 DEF Ahead
<1> QED  BY <1>5 DEF n, o

(* Also once all of it has arrived. *)
LEMMA AheadSeen ==
    ASSUME NEW new \in Screens, NEW old \in Screens, NEW f \in FragIds, NEW events \in Seq(Events),
           Ahead(new, old, f)
    PROVE  Ahead(Arrived(new, events), Arrived(old, events), f)
<1>1. PICK i \in [0 .. Len(events) -> Screens] : IsReading(i, new, events)
  BY ReadingSteps
<1>2. PICK h \in [0 .. Len(events) -> Screens] : IsReading(h, old, events)
  BY ReadingSteps
<1>3. Len(events) \in Nat /\ \A k \in 1 .. Len(events) : events[k] \in Events
  OBVIOUS
<1> DEFINE T == {k \in Nat : k <= Len(events) => Ahead(i[k], h[k], f)}
<1>4. 0 \in T
  BY <1>1, <1>2 DEF IsReading
<1>5. ASSUME NEW k \in Nat, k \in T PROVE k + 1 \in T
  <2>1. SUFFICES ASSUME k + 1 <= Len(events) PROVE Ahead(i[k + 1], h[k + 1], f)
    OBVIOUS
  <2>2. k \in 0 .. Len(events) - 1 /\ k \in 0 .. Len(events) /\ k + 1 \in 1 .. Len(events)
    BY <1>3, <2>1
  <2>3. Ahead(i[k], h[k], f)
    BY <1>3, <1>5, <2>1
  <2>4. i[k + 1] = Applied(i[k], events[k + 1]) /\ h[k + 1] = Applied(h[k], events[k + 1])
    BY <1>1, <1>2, <2>2 DEF IsReading
  <2>5. i[k] \in Screens /\ h[k] \in Screens /\ events[k + 1] \in Events
    BY <1>3, <2>2
  <2> HIDE DEF T
  <2> QED  BY <2>3, <2>4, <2>5, AheadOnce
<1>6. Len(events) \in T
  <2> HIDE DEF T
  <2> QED  BY <1>3, <1>4, <1>5, NaturalInduction
<1>7. Ahead(i[Len(events)], h[Len(events)], f)
  BY <1>3, <1>6
<1> QED  BY <1>1, <1>2, <1>7 DEF IsReading

(* The parts of what holds of a layout: it follows from the log, its places are apart,   *)
(* and the copies have them.                                                         *)
Follows == placed = Replay(blocked, respawns).places /\ cursor = Replay(blocked, respawns).cursor
PlacesApart ==
    /\ IsInjective(placed) /\ \A f \in FragIds : placed[f] < cursor
    /\ \A f \in FragIds : Hemmed(blocked, placed[f])
InTouch ==
    \A f \in FragIds :
       /\ copy[f].at = placed[f] /\ Arrived(screen, wire)[f].at = placed[f]
       /\ Arrived(screen, wire)[f].taken /\ copy[f].by = Free => f \in Range(asked) \cup lost
       /\ ~ Arrived(screen, wire)[f].taken /\ copy[f].by # Free => f \in refused
LayoutInv == LayoutTypeOK /\ Follows /\ PlacesApart /\ InTouch

(* Together they are what the run checks. *)
LEMMA LayoutInvIs == ASSUME LayoutInv PROVE LayoutTypeOK /\ LayoutReplays
<1>1. LayoutReplays
  BY DEF LayoutInv, LayoutReplays, Follows, PlacesApart, InTouch, Hemmed
<1> QED  BY <1>1 DEF LayoutInv

(* A sequence over some values is one over more. *)
LEMMA WiderSeq == ASSUME NEW S, NEW T, S \subseteq T, NEW q \in Seq(S) PROVE q \in Seq(T)
<1>1. Len(q) \in Nat /\ q \in [1 .. Len(q) -> S]
  OBVIOUS
<1>2. q \in [1 .. Len(q) -> T]
  BY <1>1
<1> QED  BY <1>1, <1>2

(* The variables are among the values the lemmas are about. *)
LEMMA LayoutTypesAre ==
    ASSUME LayoutTypeOK
    PROVE  /\ cursor \in Nat /\ placed \in [FragIds -> Int] /\ screen \in Screens
           /\ wire \in Seq(Events)
<1>1. MaxDraws \in Nat
  BY LayoutAssumption DEF LayoutAssumption
<1>2. 0 .. MaxDraws \subseteq Nat /\ 0 .. MaxDraws \subseteq Int
  BY <1>1
<1>3. cursor \in Nat
  BY <1>2 DEF LayoutTypeOK
<1>4. placed \in [FragIds -> Int]
  BY <1>2 DEF LayoutTypeOK
<1>5. screen \in Screens
  BY <1>2 DEF LayoutTypeOK, Screens
<1>6. wire \in Seq(Events)
  <2>1. [kind : Kinds, id : FragIds, at : 0 .. MaxDraws] \subseteq Events
    BY <1>2 DEF Events
  <2>2. wire \in Seq([kind : Kinds, id : FragIds, at : 0 .. MaxDraws])
    BY DEF LayoutTypeOK, Kinds
  <2> QED  BY <2>1, <2>2, WiderSeq
<1> QED  BY <1>3, <1>4, <1>5, <1>6

(* Where a pass that stays within the draws put things. *)
LEMMA PlacesFit ==
    ASSUME NEW draws, NEW from \in Nat, NEW acc \in Layouts, acc.cursor <= MaxDraws,
           NEW f \in FragIds, PlacedAt(draws, from, acc, f)
    PROVE  acc.places[f] \in 0 .. MaxDraws /\ acc.places[f] < acc.cursor
<1>1. acc.cursor \in Nat /\ acc.places[f] \in Int /\ MaxDraws \in Nat
  BY LayoutAssumption DEF LayoutAssumption, Layouts
<1> QED  BY <1>1 DEF PlacedAt

(* What one more event on the wire changes of what will be seen. *)
LEMMA ToldLast ==
    ASSUME LayoutTypeOK, NEW ev \in Events
    PROVE  /\ Arrived(screen, wire) \in Screens
           /\ Arrived(screen, wire \o <<ev>>)[ev.id] =
                 [at |-> IF ev.kind = "respawn" THEN ev.at ELSE Arrived(screen, wire)[ev.id].at,
                  taken |-> ev.kind = "taken"]
           /\ \A g \in FragIds : g # ev.id => Arrived(screen, wire \o <<ev>>)[g] = Arrived(screen, wire)[g]
<1> DEFINE seen == Arrived(screen, wire)
<1>1. screen \in Screens /\ wire \in Seq(Events)
  BY LayoutTypesAre
<1>2. seen \in Screens
  BY <1>1, ReadTyped
<1>3. <<ev>> \in Seq(Events)
  OBVIOUS
<1>4. Arrived(screen, wire \o <<ev>>) = Arrived(seen, <<ev>>)
  BY <1>1, <1>3, ReadInTurn
<1> HIDE DEF seen
<1>5. Arrived(seen, <<ev>>) = Applied(seen, ev)
  BY <1>2, ReadOne
<1>6. /\ Applied(seen, ev)[ev.id] =
            [at |-> IF ev.kind = "respawn" THEN ev.at ELSE seen[ev.id].at, taken |-> ev.kind = "taken"]
      /\ \A g \in FragIds : g # ev.id => Applied(seen, ev)[g] = seen[g]
  BY <1>2, AppliedTyped, Zenon
<1>7. Arrived(screen, wire \o <<ev>>) = Applied(seen, ev)
  BY <1>4, <1>5
<1> QED  BY <1>2, <1>6, <1>7, Zenon DEF seen

(* One more is asked for. *)
LEMMA AskedMore ==
    ASSUME NEW q \in Seq(FragIds), NEW f \in FragIds
    PROVE  /\ Append(q, f) \in Seq(FragIds) /\ f \in Range(Append(q, f))
           /\ Range(q) \subseteq Range(Append(q, f))
<1> DEFINE more == Append(q, f)
<1>1. /\ more \in Seq(FragIds) /\ DOMAIN more = 1 .. Len(q) + 1 /\ DOMAIN q = 1 .. Len(q) /\ Len(q) \in Nat
      /\ more[Len(q) + 1] = f /\ \A k \in 1 .. Len(q) : more[k] = q[k] /\ k \in 1 .. Len(q) + 1
  OBVIOUS
<1> HIDE DEF more
<1>2. f \in Range(more)
  <2>1. Len(q) + 1 \in DOMAIN more
    BY <1>1
  <2> QED  BY <1>1, <2>1 DEF Range
<1>3. Range(q) \subseteq Range(more)
  BY <1>1 DEF Range
<1> QED  BY <1>1, <1>2, <1>3 DEF more

(* The first is answered: the others are still asked for. *)
LEMMA AskedLess ==
    ASSUME NEW q \in Seq(FragIds), q # <<>>
    PROVE  /\ Tail(q) \in Seq(FragIds) /\ Head(q) \in FragIds
           /\ Range(q) \subseteq Range(Tail(q)) \cup {Head(q)}
<1> DEFINE rest == Tail(q)
<1>1. /\ rest \in Seq(FragIds) /\ DOMAIN rest = 1 .. Len(q) - 1 /\ DOMAIN q = 1 .. Len(q) /\ Len(q) \in Nat
      /\ Head(q) = q[1] /\ q[1] \in FragIds /\ \A k \in 1 .. Len(q) - 1 : rest[k] = q[k + 1]
  OBVIOUS
<1> HIDE DEF rest
<1>2. ASSUME NEW f \in Range(q), f # q[1] PROVE f \in Range(rest)
  <2>1. PICK k \in 1 .. Len(q) : q[k] = f
    BY <1>1 DEF Range
  <2>2. k - 1 \in 1 .. Len(q) - 1 /\ (k - 1) + 1 = k
    BY <1>1, <1>2, <2>1
  <2>3. rest[k - 1] = f
    BY <1>1, <2>1, <2>2
  <2> QED  BY <1>1, <2>2, <2>3 DEF Range
<1> QED  BY <1>1, <1>2 DEF rest

(* A round begins with the layout of its seed, in both copies. *)
LEMMA LayoutStarts == ASSUME LayoutInit PROVE LayoutInv
<1> DEFINE layout == CreateLayout(blocked)
<1>1. /\ layout.cursor <= MaxDraws /\ cursor = layout.cursor /\ placed = layout.places
      /\ copy = [f \in FragIds |-> [at |-> layout.places[f], by |-> Free]]
      /\ screen = [f \in FragIds |-> [at |-> layout.places[f], taken |-> FALSE]]
      /\ respawns = <<>> /\ wire = <<>> /\ asked = <<>> /\ lost = {} /\ refused = {}
  BY DEF LayoutInit
<1>2. layout \in Layouts /\ Passed(blocked, 0, NoPlaces, FragIds, LastId, layout)
  BY CreateTyped
<1>3. FragIds \subseteq Nat /\ FragIds \cap (1 .. LastId) = FragIds /\ \A f \in FragIds : f <= LastId
  BY IdsAre
<1>4. Follows
  BY <1>1, ReplayNone DEF Follows
<1> HIDE DEF layout
<1>5. layout.cursor \in Nat /\ layout.places \in [FragIds -> Int]
  BY <1>2 DEF Layouts
<1>6. \A f \in FragIds : PlacedAt(blocked, 0, layout, f)
  BY <1>2, <1>3 DEF Passed
<1>7. \A f \in FragIds : layout.places[f] \in 0 .. MaxDraws /\ layout.places[f] < layout.cursor
  <2>1. layout.cursor <= MaxDraws
    BY <1>1
  <2> QED  BY <1>2, <1>6, <2>1, PlacesFit
<1>8. PlacesApart
  <2>1. \A f, g \in FragIds : layout.places[f] = layout.places[g] => f = g
    BY <1>2, <1>3 DEF Passed
  <2>2. IsInjective(placed)
    BY <1>1, <1>5, <2>1 DEF IsInjective
  <2>3. \A f \in FragIds : Hemmed(blocked, placed[f])
    BY <1>1, <1>6 DEF PlacedAt
  <2> QED  BY <1>1, <1>7, <2>2, <2>3 DEF PlacesApart
<1>9. LayoutTypeOK
  <2>1. blocked \subseteq 0 .. MaxDraws - 1
    BY DEF LayoutInit, kSubset
  <2>2. cursor \in 0 .. MaxDraws
    BY <1>1, <1>5, LayoutAssumption DEF LayoutAssumption
  <2>3. placed \in [FragIds -> 0 .. MaxDraws]
    BY <1>1, <1>5, <1>7
  <2>4. copy \in [FragIds -> [at : 0 .. MaxDraws, by : Claimers \cup {Viewer, Free}]]
    BY <1>1, <1>7
  <2>5. screen \in [FragIds -> [at : 0 .. MaxDraws, taken : BOOLEAN]]
    BY <1>1, <1>7
  <2>6. respawns \in Seq(Range(FragRarity)) /\ wire \in Seq([kind : {"respawn", "taken", "rejected"}, id : FragIds, at : 0 .. MaxDraws])
    BY <1>1
  <2>7. asked \in Seq(FragIds) /\ lost \subseteq FragIds /\ refused \subseteq FragIds
    BY <1>1
  <2> QED  BY <2>1, <2>2, <2>3, <2>4, <2>5, <2>6, <2>7 DEF LayoutTypeOK
<1>10. InTouch
  <2>1. Arrived(screen, wire) = screen
    BY <1>1, <1>9, LayoutTypesAre, ReadNone
  <2>2. ASSUME NEW f \in FragIds
        PROVE  copy[f].at = placed[f] /\ screen[f].at = placed[f] /\ ~ screen[f].taken /\ copy[f].by = Free
    BY <1>1
  <2> QED  BY <2>1, <2>2 DEF InTouch
<1> QED  BY <1>4, <1>8, <1>9, <1>10 DEF LayoutInv

(* The client applies what comes first, and will see what it would have seen. *)
LEMMA ClientReads == ASSUME LayoutInv, ClientApplies PROVE LayoutInv'
<1> DEFINE E == [kind : Kinds, id : FragIds, at : 0 .. MaxDraws]
           ev == Head(wire)
           rest == Tail(wire)
<1>1. /\ wire \in Seq(E) /\ wire # <<>> /\ screen' = Applied(screen, ev) /\ wire' = rest
      /\ UNCHANGED <<blocked, cursor, placed, respawns, copy, asked, lost, refused>>
  BY DEF LayoutInv, LayoutTypeOK, ClientApplies, streamVars, askVars, Kinds
<1>2. screen \in Screens /\ wire \in Seq(Events)
  BY LayoutTypesAre DEF LayoutInv
<1>3. /\ ev \in E /\ rest \in Seq(E) /\ ev \in Events /\ rest \in Seq(Events)
      /\ wire = <<ev>> \o rest
  <2>1. ev \in E /\ rest \in Seq(E)
    <3> HIDE DEF E
    <3> QED  BY <1>1
  <2>2. ev \in Events /\ rest \in Seq(Events)
    BY <1>1, <1>2
  <2>3. wire = <<ev>> \o rest
    BY <1>1, <1>2
  <2> QED  BY <2>1, <2>2, <2>3
<1> HIDE DEF ev, rest
<1>4. Arrived(screen', wire') = Arrived(screen, wire)
  <2>1. <<ev>> \in Seq(Events)
    BY <1>3
  <2>2. Arrived(screen, <<ev>>) = screen'
    BY <1>1, <1>2, <1>3, ReadOne
  <2>3. Arrived(screen, <<ev>> \o rest) = Arrived(Arrived(screen, <<ev>>), rest)
    BY <1>2, <1>3, <2>1, ReadInTurn
  <2> QED  BY <1>1, <1>3, <2>2, <2>3
<1>5. InTouch'
  BY <1>1, <1>4 DEF LayoutInv, InTouch
<1>6. Follows' /\ PlacesApart'
  BY <1>1 DEF LayoutInv, Follows, PlacesApart
<1>7. LayoutTypeOK'
  <2>1. screen \in [FragIds -> [at : 0 .. MaxDraws, taken : BOOLEAN]]
    BY DEF LayoutInv, LayoutTypeOK
  <2>2. ev.id \in FragIds /\ ev.at \in 0 .. MaxDraws
    BY <1>3
  <2>3. screen' \in [FragIds -> [at : 0 .. MaxDraws, taken : BOOLEAN]]
    <3> DEFINE new == [at |-> IF ev.kind = "respawn" THEN ev.at ELSE screen[ev.id].at, taken |-> ev.kind = "taken"]
    <3>1. new \in [at : 0 .. MaxDraws, taken : BOOLEAN]
      BY <2>1, <2>2
    <3>2. screen' = [screen EXCEPT ![ev.id] = new]
      BY <1>1 DEF Applied
    <3> HIDE DEF new
    <3> QED  BY <2>1, <2>2, <3>1, <3>2
  <2> QED  BY <1>1, <1>3, <2>3 DEF LayoutInv, LayoutTypeOK, Kinds
<1> QED  BY <1>5, <1>6, <1>7 DEF LayoutInv

(* A claim marks the fragment, and the client is told; what else was asked stays asked. *)
LEMMA FragmentTaken ==
    ASSUME LayoutInv, NEW f \in FragIds, NEW s \in Claimers \cup {Viewer}, TakeFragment(f, s),
           asked' \in Seq(FragIds), \A g \in FragIds : g # f /\ g \in Range(asked) => g \in Range(asked')
    PROVE  LayoutInv'
<1> DEFINE E == [kind : Kinds, id : FragIds, at : 0 .. MaxDraws]
           C == [at : 0 .. MaxDraws, by : Claimers \cup {Viewer, Free}]
           ev == Notice("taken", f, copy[f].at)
           seen == Arrived(screen, wire)
           then == Arrived(screen, wire \o <<ev>>)
<1>1. /\ copy' = [copy EXCEPT ![f].by = s] /\ wire' = wire \o <<ev>>
      /\ UNCHANGED <<blocked, cursor, placed, respawns, screen, lost, refused>>
  BY DEF TakeFragment, Tell, streamVars
<1>2. copy \in [FragIds -> C] /\ wire \in Seq(E) /\ LayoutTypeOK
  BY DEF LayoutInv, LayoutTypeOK, Kinds
<1>4. ev \in E /\ ev \in Events /\ ev.id = f /\ ev.kind = "taken"
  <2>1. copy[f].at \in 0 .. MaxDraws /\ MaxDraws \in Nat
    BY <1>2, LayoutAssumption DEF LayoutAssumption
  <2> QED  BY <2>1 DEF Notice, Events, Kinds
<1>5. copy' \in [FragIds -> C] /\ copy'[f].at = copy[f].at /\ copy'[f].by = s
      /\ \A g \in FragIds : g # f => copy'[g] = copy[g]
  BY <1>1, <1>2
<1>6. wire' \in Seq(E)
  <2> HIDE DEF E, ev
  <2> QED  BY <1>1, <1>2, <1>4
<1> HIDE DEF ev
<1>9. /\ then[f] = [at |-> seen[f].at, taken |-> TRUE]
      /\ \A g \in FragIds : g # f => then[g] = seen[g]
  <2>1. /\ then[ev.id] = [at |-> IF ev.kind = "respawn" THEN ev.at ELSE seen[ev.id].at, taken |-> ev.kind = "taken"]
        /\ \A g \in FragIds : g # ev.id => then[g] = seen[g]
    BY <1>2, <1>4, ToldLast, Zenon
  <2> HIDE DEF then, seen
  <2> QED  BY <1>4, <2>1
<1>7. /\ \A g \in FragIds :
            /\ copy[g].at = placed[g] /\ seen[g].at = placed[g]
            /\ seen[g].taken /\ copy[g].by = Free => g \in Range(asked) \cup lost
            /\ ~ seen[g].taken /\ copy[g].by # Free => g \in refused
  BY DEF LayoutInv, InTouch
<1>8. Arrived(screen', wire') = then
  BY <1>1
<1> HIDE DEF then, seen
<1>10. InTouch'
  <2>2. ASSUME NEW g \in FragIds
        PROVE  /\ copy'[g].at = placed[g] /\ then[g].at = placed[g]
               /\ then[g].taken /\ copy'[g].by = Free => g \in Range(asked') \cup lost
               /\ ~ then[g].taken /\ copy'[g].by # Free => g \in refused
    <3>1. CASE g = f
      <4>1. s # Free
        BY LayoutAssumption DEF LayoutAssumption
      <4>2. then[f].at = seen[f].at /\ then[f].taken
        BY <1>9
      <4> QED  BY <1>5, <1>7, <3>1, <4>1, <4>2
    <3>2. CASE g # f
      <4>1. then[g] = seen[g] /\ copy'[g] = copy[g]
        BY <1>5, <1>9, <3>2
      <4> QED  BY <1>7, <3>2, <4>1
    <3> QED  BY <3>1, <3>2
  <2> QED  BY <1>1, <1>8, <2>2 DEF InTouch
<1>11. Follows' /\ PlacesApart'
  BY <1>1 DEF LayoutInv, Follows, PlacesApart
<1>12. LayoutTypeOK'
  BY <1>1, <1>5, <1>6 DEF LayoutInv, LayoutTypeOK, Kinds
<1> QED  BY <1>10, <1>11, <1>12 DEF LayoutInv

(* Another seat's claim. *)
LEMMA OtherTaken ==
    ASSUME LayoutInv, NEW f \in FragIds, NEW s \in Claimers, OtherTakes(f, s)
    PROVE  LayoutInv'
<1>1. TakeFragment(f, s) /\ asked' = asked /\ asked \in Seq(FragIds)
  BY DEF OtherTakes, LayoutInv, LayoutTypeOK
<1> QED  BY <1>1, FragmentTaken

(* The client's own, when the server takes its word. *)
LEMMA AskTakenKeeps == ASSUME LayoutInv, AskTaken PROVE LayoutInv'
<1>1. asked \in Seq(FragIds) /\ asked # <<>> /\ asked' = Tail(asked) /\ TakeFragment(Head(asked), Viewer)
  BY DEF AskTaken, LayoutInv, LayoutTypeOK
<1>2. asked' \in Seq(FragIds) /\ Head(asked) \in FragIds /\ Range(asked) \subseteq Range(asked') \cup {Head(asked)}
  BY <1>1, AskedLess
<1> QED  BY <1>1, <1>2, FragmentTaken

(* A rejection frees the fragment for the client: if it is claimed, that is what it was    *)
(* refused; if not, it is not hidden any more.                                         *)
LEMMA AskRejectedKeeps == ASSUME LayoutInv, AskRejected PROVE LayoutInv'
<1> DEFINE E == [kind : Kinds, id : FragIds, at : 0 .. MaxDraws]
           f == Head(asked)
           ev == Notice("rejected", f, copy[f].at)
           seen == Arrived(screen, wire)
           then == Arrived(screen, wire \o <<ev>>)
<1>1. /\ asked # <<>> /\ asked' = Tail(asked) /\ wire' = wire \o <<ev>>
      /\ refused' = IF copy[f].by = Free THEN refused ELSE refused \cup {f}
      /\ UNCHANGED <<blocked, cursor, placed, respawns, copy, screen, lost>>
  BY DEF AskRejected, Tell, streamVars
<1>2. /\ asked \in Seq(FragIds) /\ wire \in Seq(E) /\ LayoutTypeOK /\ refused \subseteq FragIds
      /\ copy \in [FragIds -> [at : 0 .. MaxDraws, by : Claimers \cup {Viewer, Free}]]
  BY DEF LayoutInv, LayoutTypeOK, Kinds
<1>3. asked' \in Seq(FragIds) /\ f \in FragIds /\ Range(asked) \subseteq Range(asked') \cup {f}
  BY <1>1, <1>2, AskedLess
<1> HIDE DEF f
<1>4. ev \in E /\ ev \in Events /\ ev.id = f /\ ev.kind = "rejected"
  <2>1. copy[f].at \in 0 .. MaxDraws /\ MaxDraws \in Nat
    BY <1>2, <1>3, LayoutAssumption DEF LayoutAssumption
  <2> QED  BY <1>3, <2>1 DEF Notice, Events, Kinds
<1>6. wire' \in Seq(E)
  <2> HIDE DEF E, ev
  <2> QED  BY <1>1, <1>2, <1>4
<1> HIDE DEF ev
<1>9. /\ then[f] = [at |-> seen[f].at, taken |-> FALSE]
      /\ \A g \in FragIds : g # f => then[g] = seen[g]
  <2>1. /\ then[ev.id] = [at |-> IF ev.kind = "respawn" THEN ev.at ELSE seen[ev.id].at, taken |-> ev.kind = "taken"]
        /\ \A g \in FragIds : g # ev.id => then[g] = seen[g]
    BY <1>2, <1>4, ToldLast, Zenon
  <2> HIDE DEF then, seen
  <2> QED  BY <1>4, <2>1
<1>7. /\ \A g \in FragIds :
            /\ copy[g].at = placed[g] /\ seen[g].at = placed[g]
            /\ seen[g].taken /\ copy[g].by = Free => g \in Range(asked) \cup lost
            /\ ~ seen[g].taken /\ copy[g].by # Free => g \in refused
  BY DEF LayoutInv, InTouch
<1>8. Arrived(screen', wire') = then
  BY <1>1
<1> HIDE DEF then, seen
<1>10. InTouch'
  <2>2. ASSUME NEW g \in FragIds
        PROVE  /\ copy[g].at = placed[g] /\ then[g].at = placed[g]
               /\ then[g].taken /\ copy[g].by = Free => g \in Range(asked') \cup lost
               /\ ~ then[g].taken /\ copy[g].by # Free => g \in refused'
    <3>1. CASE g = f
      <4>1. then[f].at = seen[f].at /\ ~ then[f].taken
        BY <1>9
      <4> QED  BY <1>1, <1>7, <3>1, <4>1
    <3>2. CASE g # f
      <4>1. then[g] = seen[g] /\ refused \subseteq refused'
        BY <1>1, <1>9, <3>2
      <4> QED  BY <1>3, <1>7, <3>2, <4>1
    <3> QED  BY <3>1, <3>2
  <2> QED  BY <1>1, <1>8, <2>2 DEF InTouch
<1>11. Follows' /\ PlacesApart'
  BY <1>1 DEF LayoutInv, Follows, PlacesApart
<1>12. LayoutTypeOK'
  <2>1. refused' \subseteq FragIds
    BY <1>1, <1>2, <1>3
  <2> QED  BY <1>1, <1>3, <1>6, <2>1 DEF LayoutInv, LayoutTypeOK, Kinds
<1> QED  BY <1>10, <1>11, <1>12 DEF LayoutInv

(* What is dropped was asked for in vain. *)
LEMMA AskDroppedKeeps == ASSUME LayoutInv, AskDropped PROVE LayoutInv'
<1>1. /\ asked # <<>> /\ asked' = Tail(asked) /\ lost' = lost \cup {Head(asked)}
      /\ UNCHANGED <<blocked, cursor, placed, respawns, copy, wire, screen, refused>>
  BY DEF AskDropped, streamVars
<1>2. asked \in Seq(FragIds) /\ lost \subseteq FragIds
  BY DEF LayoutInv, LayoutTypeOK
<1>3. /\ asked' \in Seq(FragIds) /\ Head(asked) \in FragIds
      /\ Range(asked) \subseteq Range(asked') \cup {Head(asked)}
  BY <1>1, <1>2, AskedLess
<1>4. Range(asked) \cup lost \subseteq Range(asked') \cup lost'
  BY <1>1, <1>3
<1>5. InTouch'
  BY <1>1, <1>4 DEF LayoutInv, InTouch
<1>6. Follows' /\ PlacesApart'
  BY <1>1 DEF LayoutInv, Follows, PlacesApart
<1>7. LayoutTypeOK'
  BY <1>1, <1>2, <1>3 DEF LayoutInv, LayoutTypeOK
<1> QED  BY <1>5, <1>6, <1>7 DEF LayoutInv

(* What the client collects is asked for: whatever it is told next, it is hidden at most     *)
(* while that is under way.                                                            *)
LEMMA ClientAsks ==
    ASSUME LayoutInv, NEW f \in FragIds, ClientCollects(f)
    PROVE  LayoutInv'
<1> DEFINE S == [FragIds -> [at : 0 .. MaxDraws, taken : BOOLEAN]]
           seen == Arrived(screen, wire)
           then == Arrived(screen', wire)
<1>1. /\ screen' = [screen EXCEPT ![f].taken = TRUE] /\ asked' = Append(asked, f)
      /\ UNCHANGED <<blocked, cursor, placed, respawns, copy, wire, lost, refused>>
  BY DEF ClientCollects, streamVars
<1>2. /\ asked \in Seq(FragIds) /\ screen \in S
      /\ screen \in Screens /\ wire \in Seq(Events)
  <2>1. LayoutTypeOK
    BY DEF LayoutInv
  <2> QED  BY <2>1, LayoutTypesAre DEF LayoutTypeOK
<1>3. asked' \in Seq(FragIds) /\ f \in Range(asked') /\ Range(asked) \subseteq Range(asked')
  BY <1>1, <1>2, AskedMore
<1>4. screen' \in S /\ screen'[f].at = screen[f].at /\ screen'[f].taken
      /\ \A g \in FragIds : g # f => screen'[g] = screen[g]
  BY <1>1, <1>2
<1>5. screen' \in Screens
  <2>1. MaxDraws \in Nat
    BY LayoutAssumption DEF LayoutAssumption
  <2> QED  BY <1>4, <2>1 DEF Screens
<1>6. Ahead(screen', screen, f)
  BY <1>4 DEF Ahead
<1>7. Ahead(then, seen, f)
  BY <1>2, <1>5, <1>6, AheadSeen
<1>8. Arrived(screen', wire') = then
  BY <1>1
<1>9. /\ \A g \in FragIds :
            /\ copy[g].at = placed[g] /\ seen[g].at = placed[g]
            /\ seen[g].taken /\ copy[g].by = Free => g \in Range(asked) \cup lost
            /\ ~ seen[g].taken /\ copy[g].by # Free => g \in refused
  BY DEF LayoutInv, InTouch
<1> HIDE DEF then, seen, S
<1>10. InTouch'
  <2>2. ASSUME NEW g \in FragIds
        PROVE  /\ then[g].at = placed[g]
               /\ then[g].taken /\ copy[g].by = Free => g \in Range(asked') \cup lost
               /\ ~ then[g].taken /\ copy[g].by # Free => g \in refused
    <3>1. then[g].at = seen[g].at /\ (seen[g].taken => then[g].taken) /\ (g # f => then[g] = seen[g])
      BY <1>7 DEF Ahead
    <3>2. CASE g = f
      BY <1>3, <1>9, <3>1, <3>2
    <3>3. CASE g # f
      <4>1. then[g] = seen[g]
        BY <3>1, <3>3
      <4> QED  BY <1>3, <1>9, <4>1
    <3> QED  BY <3>2, <3>3
  <2> QED  BY <1>1, <1>8, <1>9, <2>2 DEF InTouch
<1>11. Follows' /\ PlacesApart'
  BY <1>1 DEF LayoutInv, Follows, PlacesApart
<1>12. LayoutTypeOK'
  BY <1>1, <1>3, <1>4 DEF LayoutInv, LayoutTypeOK, S
<1> QED  BY <1>10, <1>11, <1>12 DEF LayoutInv

(* A respawn goes on with the stream: its fragments are placed after all there was, the *)
(* copies get what was placed, and the log has it.                                   *)
LEMMA RarityRespawned ==
    ASSUME LayoutInv, NEW r \in Range(FragRarity), RespawnRarity(r)
    PROVE  LayoutInv'
<1> DEFINE E == [kind : Kinds, id : FragIds, at : 0 .. MaxDraws]
           ids == OfRarity(r)
           after == PlaceAll(blocked, cursor, placed, ids)
           moves == Moves(after.moved, after.places)
           seen == Arrived(screen, wire)
<1>1. /\ after.cursor <= MaxDraws /\ cursor' = after.cursor /\ placed' = after.places
      /\ respawns' = Append(respawns, r) /\ copy' = CopyAfter(after.places, r)
      /\ wire' = wire \o moves /\ UNCHANGED <<blocked, screen, asked>>
      /\ lost' = lost \ ids /\ refused' = refused \ ids
  BY DEF RespawnRarity, Respawned, RespawnFrom, Tell, Moves
<1>2. /\ cursor \in Nat /\ placed \in [FragIds -> Int] /\ screen \in Screens
      /\ wire \in Seq(Events) /\ wire \in Seq(E) /\ respawns \in Seq(Range(FragRarity))
  <2>1. LayoutTypeOK
    BY DEF LayoutInv
  <2> QED  BY <2>1, LayoutTypesAre DEF LayoutTypeOK, Kinds
<1>3. FragIds \subseteq Nat /\ ids \cap (1 .. LastId) = ids /\ \A f \in FragIds : f <= LastId
  BY IdsAre DEF OfRarity
<1>4. Passed(blocked, cursor, placed, ids, LastId, after)
  BY <1>2, PassPlaces
<1>5. \A f \in FragIds : FragRarity[f] = r <=> f \in ids
  BY DEF OfRarity
<1> HIDE DEF after, ids
<1>6. after \in Layouts /\ after.cursor \in Nat /\ after.places \in [FragIds -> Int]
      /\ after.moved \in Seq(FragIds) /\ cursor <= after.cursor
  BY <1>4 DEF Passed, Layouts
<1>7. \A f \in ids : f \in FragIds /\ PlacedAt(blocked, cursor, after, f)
  BY <1>3, <1>4, <1>5 DEF Passed, ids, OfRarity
<1>8. \A f \in FragIds : f \notin ids => after.places[f] = placed[f]
  BY <1>4 DEF Passed
<1>9. \A f, g \in ids : after.places[f] = after.places[g] => f = g
  BY <1>3, <1>4 DEF Passed
<1>10. Range(after.moved) = ids
  BY <1>3, <1>4 DEF Passed
<1>11. \A f \in FragIds : placed[f] < cursor /\ Hemmed(blocked, placed[f])
  BY DEF LayoutInv, PlacesApart
<1>12. \A f \in ids : cursor <= after.places[f] /\ after.places[f] < after.cursor
                      /\ Hemmed(blocked, after.places[f])
  BY <1>7 DEF PlacedAt
<1>13. \A f \in FragIds : after.places[f] < after.cursor /\ Hemmed(blocked, after.places[f])
  <2>1. ASSUME NEW f \in FragIds
        PROVE  after.places[f] < after.cursor /\ Hemmed(blocked, after.places[f])
    <3>1. CASE f \in ids
      BY <1>12, <3>1
    <3>2. CASE f \notin ids
      <4>1. after.places[f] = placed[f]
        BY <1>8, <3>2
      <4>2. placed[f] < cursor /\ Hemmed(blocked, placed[f]) /\ placed[f] \in Int
        BY <1>2, <1>11
      <4> QED  BY <1>2, <1>6, <4>1, <4>2
    <3> QED  BY <3>1, <3>2
  <2> QED  BY <2>1
<1>14. ASSUME NEW f \in FragIds, NEW g \in FragIds, after.places[f] = after.places[g] PROVE f = g
  <2>1. \A e \in FragIds : placed[e] \in Int /\ after.places[e] \in Int
    BY <1>2, <1>6
  <2>2. CASE f \in ids /\ g \in ids
    BY <1>9, <1>14, <2>2
  <2>3. CASE f \notin ids /\ g \notin ids
    <3>1. placed[f] = placed[g]
      BY <1>8, <1>14, <2>3
    <3> QED  BY <1>2, <3>1 DEF LayoutInv, PlacesApart, IsInjective
  <2>4. ASSUME NEW d \in ids, NEW e \in FragIds, e \notin ids PROVE after.places[d] # after.places[e]
    <3>1. cursor <= after.places[d] /\ placed[e] < cursor /\ after.places[e] = placed[e]
      BY <1>8, <1>11, <1>12, <2>4
    <3>2. d \in FragIds
      BY <1>7
    <3> QED  BY <1>2, <2>1, <3>1, <3>2
  <2> QED  BY <1>14, <2>2, <2>3, <2>4
<1>15. PlacesApart'
  <2>1. IsInjective(placed')
    BY <1>1, <1>6, <1>14 DEF IsInjective
  <2> QED  BY <1>1, <1>13, <2>1 DEF PlacesApart
<1>16. Follows'
  <2>1. Replay(blocked, Append(respawns, r)) = Again(blocked, Replay(blocked, respawns), r)
    BY <1>2, ReplayMore
  <2>2. Again(blocked, Replay(blocked, respawns), r) = after
    BY DEF LayoutInv, Follows, Again, after, ids
  <2>3. Replay(blocked, respawns') = after
    BY <1>1, <2>1, <2>2
  <2> QED  BY <1>1, <2>3 DEF Follows
<1>17. \A f \in FragIds : after.places[f] \in 0 .. MaxDraws
  <2>1. \A f \in ids : after.places[f] \in 0 .. MaxDraws
    BY <1>1, <1>2, <1>6, <1>7, PlacesFit
  <2>2. \A f \in FragIds : placed[f] \in 0 .. MaxDraws
    BY DEF LayoutInv, LayoutTypeOK
  <2> QED  BY <1>8, <2>1, <2>2
<1>18. \A f \in FragIds : copy'[f] =
          IF f \in ids THEN [at |-> after.places[f], by |-> Free] ELSE copy[f]
  BY <1>1, <1>5 DEF CopyAfter, Freed
<1>19. LayoutTypeOK'
  <2>1. cursor' \in 0 .. MaxDraws
    BY <1>1, <1>6, LayoutAssumption DEF LayoutAssumption
  <2>2. placed' \in [FragIds -> 0 .. MaxDraws]
    BY <1>1, <1>6, <1>17
  <2>3. copy' \in [FragIds -> [at : 0 .. MaxDraws, by : Claimers \cup {Viewer, Free}]]
    <3>1. copy \in [FragIds -> [at : 0 .. MaxDraws, by : Claimers \cup {Viewer, Free}]]
      BY DEF LayoutInv, LayoutTypeOK
    <3>2. \A f \in FragIds : copy'[f] \in [at : 0 .. MaxDraws, by : Claimers \cup {Viewer, Free}]
      <4>1. ASSUME NEW f \in FragIds
            PROVE  copy'[f] \in [at : 0 .. MaxDraws, by : Claimers \cup {Viewer, Free}]
        <5>1. CASE f \in ids
          <6>1. copy'[f] = [at |-> after.places[f], by |-> Free]
            BY <1>18, <5>1, Zenon
          <6> QED  BY <1>17, <6>1
        <5>2. CASE f \notin ids
          <6>1. copy'[f] = copy[f]
            BY <1>18, <5>2, Zenon
          <6> QED  BY <3>1, <6>1
        <5> QED  BY <5>1, <5>2
      <4> QED  BY <4>1
    <3>3. copy' = [f \in FragIds |-> copy'[f]]
      BY <1>1 DEF CopyAfter
    <3> QED  BY <3>2, <3>3
  <2>4. respawns' \in Seq(Range(FragRarity))
    BY <1>1, <1>2
  <2>5. wire' \in Seq(E)
    <3>1. \A k \in 1 .. Len(after.moved) : after.moved[k] \in FragIds
      BY <1>6
    <3>2. \A k \in 1 .. Len(after.moved) : Notice("respawn", after.moved[k], after.places[after.moved[k]]) \in E
      BY <1>17, <3>1 DEF Notice, Kinds
    <3>3. Len(after.moved) \in Nat /\ DOMAIN after.moved = 1 .. Len(after.moved)
      BY <1>6
    <3>4. moves \in [1 .. Len(after.moved) -> E]
      BY <3>2, <3>3 DEF Moves
    <3> HIDE DEF moves, E
    <3>5. moves \in Seq(E)
      BY <3>3, <3>4
    <3> QED  BY <1>1, <1>2, <3>5
  <2> QED  BY <1>1, <2>1, <2>2, <2>3, <2>4, <2>5 DEF LayoutInv, LayoutTypeOK, Kinds
<1>20. InTouch'
  <2>1. moves \in Seq(Events)
    BY <1>6, MovesAreEvents
  <2>2. seen \in Screens
    BY <1>2, ReadTyped
  <2>3. Arrived(screen', wire') = Arrived(seen, moves)
    <3> HIDE DEF moves
    <3> QED  BY <1>1, <1>2, <2>1, ReadInTurn
  <2>4. \A f \in FragIds :
           /\ copy[f].at = placed[f] /\ seen[f].at = placed[f]
           /\ seen[f].taken /\ copy[f].by = Free => f \in Range(asked) \cup lost
           /\ ~ seen[f].taken /\ copy[f].by # Free => f \in refused
    BY DEF LayoutInv, InTouch
  <2> HIDE DEF seen
  <2>5. \A f \in FragIds : Arrived(seen, moves)[f] =
           IF f \in ids THEN [at |-> after.places[f], taken |-> FALSE] ELSE seen[f]
    <3>1. ASSUME NEW f \in FragIds
          PROVE  Arrived(seen, moves)[f] =
                    IF f \in ids THEN [at |-> after.places[f], taken |-> FALSE] ELSE seen[f]
      <4>1. after.moved \in Seq(FragIds) /\ after.places \in [FragIds -> Int]
        BY <1>6
      <4>2. Arrived(seen, moves)[f] =
               IF f \in Range(after.moved) THEN [at |-> after.places[f], taken |-> FALSE] ELSE seen[f]
        BY <2>2, <4>1, MovesSeen, Zenon
      <4> HIDE DEF moves
      <4> QED  BY <1>10, <4>2
    <3> QED  BY <3>1
  <2> HIDE DEF moves
  <2> DEFINE then == Arrived(seen, moves)
  <2>6. ASSUME NEW f \in FragIds
        PROVE  /\ copy'[f].at = placed'[f] /\ then[f].at = placed'[f]
               /\ then[f].taken /\ copy'[f].by = Free => f \in Range(asked) \cup lost'
               /\ ~ then[f].taken /\ copy'[f].by # Free => f \in refused'
    <3>1. CASE f \in ids
      <4>1. copy'[f].at = after.places[f] /\ copy'[f].by = Free
        <5>1. copy'[f] = [at |-> after.places[f], by |-> Free]
          BY <1>18, <3>1, Zenon
        <5> QED  BY <5>1
      <4>3. then[f] = [at |-> after.places[f], taken |-> FALSE]
        BY <2>5, <3>1
      <4>4. then[f].at = after.places[f] /\ ~ then[f].taken
        BY <4>3
      <4> HIDE DEF then
      <4> QED  BY <1>1, <4>1, <4>4
    <3>2. CASE f \notin ids
      <4>1. copy'[f] = copy[f] /\ after.places[f] = placed[f] /\ then[f] = seen[f]
        BY <1>8, <1>18, <2>5, <3>2
      <4>2. (f \in lost => f \in lost') /\ (f \in refused => f \in refused')
        BY <1>1, <3>2
      <4> HIDE DEF then
      <4> QED  BY <1>1, <2>4, <4>1, <4>2
    <3> QED  BY <3>1, <3>2
  <2> HIDE DEF then
  <2>7. Arrived(screen', wire') = then
    BY <2>3 DEF then
  <2> QED  BY <1>1, <2>6, <2>7 DEF InTouch
<1> QED  BY <1>15, <1>16, <1>19, <1>20 DEF LayoutInv

(* A step that leaves the layout alone leaves all of it. *)
LEMMA LayoutIdles == ASSUME LayoutInv, UNCHANGED layoutVars PROVE LayoutInv'
<1>1. LayoutTypeOK'
  BY DEF LayoutInv, layoutVars, streamVars, askVars, LayoutTypeOK
<1>2. Follows' /\ PlacesApart' /\ InTouch'
  BY DEF LayoutInv, layoutVars, streamVars, askVars, Follows, PlacesApart, InTouch
<1> QED  BY <1>1, <1>2 DEF LayoutInv

(* The inductive invariant of a layout (layout.cjs, lobbyFrags.js): its types, and the parts *)
(* of LayoutReplays.                                                                    *)
THEOREM LayoutInvAlways == LayoutSpec => []LayoutInv
<1>1. LayoutInit => LayoutInv
  BY LayoutStarts
<1>2. LayoutInv /\ [LayoutNext]_layoutVars => LayoutInv'
  <2>1. SUFFICES ASSUME LayoutInv, [LayoutNext]_layoutVars PROVE LayoutInv'
    OBVIOUS
  <2>2. CASE ClientApplies
    BY <2>1, <2>2, ClientReads
  <2>3. CASE \E r \in Range(FragRarity) : RespawnRarity(r)
    BY <2>1, <2>3, RarityRespawned
  <2>4. CASE \E f \in FragIds, s \in Claimers : OtherTakes(f, s)
    BY <2>1, <2>4, OtherTaken
  <2>5. CASE UNCHANGED layoutVars
    BY <2>1, <2>5, LayoutIdles
  <2>6. CASE \E f \in FragIds : ClientCollects(f)
    BY <2>1, <2>6, ClientAsks
  <2>7. CASE AskTaken
    BY <2>1, <2>7, AskTakenKeeps
  <2>8. CASE AskRejected
    BY <2>1, <2>8, AskRejectedKeeps
  <2>9. CASE AskDropped
    BY <2>1, <2>9, AskDroppedKeeps
  <2> QED  BY <2>1, <2>2, <2>3, <2>4, <2>5, <2>6, <2>7, <2>8, <2>9 DEF LayoutNext
<1> QED  BY <1>1, <1>2, PTL DEF LayoutSpec

(* A layout keeps its types, whatever the stream, the fragments and the bounds. *)
THEOREM LayoutTyped == LayoutSpec => []LayoutTypeOK
<1>1. LayoutInv => LayoutTypeOK
  BY DEF LayoutInv
<1> QED  BY <1>1, LayoutInvAlways, PTL

(* The places follow from the seed and the log of respawns, no draw places two fragments, *)
(* and the copies of the server and of a client that collects before it is answered are     *)
(* where they are (layout.cjs, soloRounds.js, lobbyFrags.js, lobbyActions.js, index.html),    *)
(* for any stream, fragments, respawns, claims, rejections and drops.                       *)
THEOREM LayoutsReplay == LayoutSpec => []LayoutReplays
<1>1. LayoutInv => LayoutReplays
  BY LayoutInvIs
<1> QED  BY <1>1, LayoutInvAlways, PTL

-----------------------------------------------------------------------------
(* Whichever part a behaviour of Game is of, it is a behaviour of every part: the one that *)
(* is played takes its steps and the others stutter, so what is proved of a part holds     *)
(* side by side with the others (Game: GameSpec).                                    *)
THEOREM GamePlaysItsParts == GameSpec =>
    /\ RoundSpec
    /\ MoveSpec
    /\ PowerupSpec
    /\ LayoutSpec
    /\ CollectionSpec
    /\ SandboxSpec
<1>1. GameInit => RoundInit  BY DEF GameInit
<1>2. [GameNext]_gameVars => [RoundNext]_roundVars  BY DEF GameNext, gameVars
<1>3. GameInit => MoveInit  BY DEF GameInit
<1>4. [GameNext]_gameVars => [MoveNext]_moveVars  BY DEF GameNext, gameVars
<1>5. GameInit => PowerupInit  BY DEF GameInit
<1>6. [GameNext]_gameVars => [PowerupNext]_powerupVars  BY DEF GameNext, gameVars
<1>7. GameInit => LayoutInit  BY DEF GameInit
<1>8. [GameNext]_gameVars => [LayoutNext]_layoutVars  BY DEF GameNext, gameVars
<1>9. GameInit => CollectionInit  BY DEF GameInit
<1>10. [GameNext]_gameVars => [CollectionNext]_collectionVars  BY DEF GameNext, gameVars
<1>11. GameInit => SandboxInit  BY DEF GameInit
<1>12. [GameNext]_gameVars => [SandboxNext]_hallVars  BY DEF GameNext, gameVars
<1> QED
  BY <1>1, <1>2, <1>3, <1>4, <1>5, <1>6, <1>7, <1>8, <1>9, <1>10, <1>11, <1>12, PTL
  DEF GameSpec, RoundSpec, MoveSpec, PowerupSpec, LayoutSpec, CollectionSpec, SandboxSpec

(* GameTypeOK: every variable of the game keeps its type, whatever is played.            *)
THEOREM GameTyped == GameSpec => []GameTypeOK
<1>1. RoundTypeOK /\ MoveTypeOK /\ PowerupTypeOK /\ LayoutTypeOK /\ CollectionTypeOK /\ SandboxTypeOK => GameTypeOK
  BY DEF GameTypeOK
<1> QED
  BY <1>1, GamePlaysItsParts, RoundTyped, MoveTyped, PowerupTyped, LayoutTyped, CollectionTyped, SandboxTypes, PTL
===============================================================================
