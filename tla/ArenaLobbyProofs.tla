--------------------------- MODULE ArenaLobbyProofs ---------------------------
(***************************************************************************)
(* What a stakeable lobby keeps and what its steps may do, for any connections,      *)
(* wallets, seats and number of lobbies.  A handler makes one record of another, so   *)
(* the lemmas are about records: what Fits goes through the handler with, whatever    *)
(* the INSERTs do; what StakesAreTrue goes through with, when none outlasts the        *)
(* steps around it.                                                               *)
(***************************************************************************)
EXTENDS ArenaLobby, TLAPS

(* No clock of another phase runs. *)
ClocksFit(L) ==
    /\ L.counting => L.status = "countdown"
    /\ L.playing => L.status = "active"

Fits(L) == L \in LobbyType /\ AwayIsStaked(L) /\ ClocksFit(L)

(* A lobby that is seen open is open; who is staked entered it; the countdown has      *)
(* dropped whoever is not; and nobody departs before the round or twice in it.       *)
StakesAreTrue(L) ==
    /\ L.seen = "open" => L.chain = "open"
    /\ Staked(L) # {} => L.seen = "open"
    /\ Staked(L) \subseteq L.entered
    /\ L.counting \/ L.status = "active" => L.seen = "open" /\ Seated(L) = Staked(L)
    /\ L.status \in {"unborn", "waiting", "countdown"} => L.departed = {}
    /\ L.status = "active" => Seated(L) \cap L.departed = {}

(* The next phase, or the same one. *)
MovesOn(L, M) ==
    \/ M.status = L.status
    \/ <<L.status, M.status>> \in
          {<<"unborn", "waiting">>, <<"waiting", "countdown">>,
           <<"countdown", "active">>, <<"active", "ended">>}

(* What EveryoneIsRanked says of one lobby, and StakedSeatSurvives but for the         *)
(* connections in gone.                                                            *)
Roster(L) == Seated(L) \cup L.departed
RosterStays(L, M) ==
    L.status = "active" =>
        /\ Seated(L) \cap L.departed = {}
        /\ IF M.status = "ended" THEN M.ranked = Roster(L) ELSE Roster(M) = Roster(L)
StakesStay(L, M, gone) ==
    L.status \in {"waiting", "countdown"} =>
        \A p \in Staked(L) :
            /\ p \in Staked(M)
            /\ L.seats[p].sock \in gone \/ M.seats[p].sock = L.seats[p].sock

(* What a step makes of a lobby. *)
Steps(L, M, gone) ==
    /\ Fits(M) /\ MovesOn(L, M)
    /\ StakesAreTrue(L) => StakesAreTrue(M) /\ RosterStays(L, M) /\ StakesStay(L, M, gone)

(* What the end of a handler leaves alone. *)
SameSeats(L, M) ==
    /\ M.seats = L.seats /\ M.departed = L.departed
    /\ M.entered = L.entered /\ M.chain = L.chain /\ M.seen = L.seen

-----------------------------------------------------------------------------
(* Seats. *)

(* The seats of a record are a map from some of the players to seats. *)
LEMMA SeatsOf ==
    ASSUME NEW L \in LobbyType
    PROVE  L.seats \in [Seated(L) -> SeatType] /\ Seated(L) \in SUBSET Players
<1>1. L.seats \in SeatMaps  BY DEF LobbyType
<1>2. PICK S \in SUBSET Players : L.seats \in [S -> SeatType]  BY <1>1 DEF SeatMaps
<1> QED  BY <1>2 DEF Seated

(* Any assignment of seats to some players is such a map. *)
LEMMA SeatsIn ==
    ASSUME NEW S \in SUBSET Players, NEW f \in [S -> SeatType]
    PROVE  f \in SeatMaps
BY DEF SeatMaps

(* Who sits, who is staked and who is away only depends on the seats. *)
LEMMA SeatsDecide ==
    ASSUME NEW L, NEW M, M.seats = L.seats
    PROVE  /\ Seated(M) = Seated(L) /\ Staked(M) = Staked(L)
           /\ AwayIsStaked(L) => AwayIsStaked(M)
BY DEF Seated, Staked, AwayIsStaked

(* A record whose seats, departed and chain are the same holds the same stakes, if it  *)
(* counts and plays only when the other did.                                        *)
LEMMA SameStakes ==
    ASSUME NEW L, NEW M, SameSeats(L, M), MovesOn(L, M), Fits(M),
           M.counting => L.counting, M.status # L.status => L.status = "unborn" \/ M.status = "ended",
           M.status = "ended" /\ L.status = "active" => M.ranked = Roster(L),
           NEW gone
    PROVE  Steps(L, M, gone)
<1>1. Seated(M) = Seated(L) /\ Staked(M) = Staked(L)  BY SeatsDecide DEF SameSeats
<1> QED  BY <1>1 DEF Steps, StakesAreTrue, RosterStays, StakesStay, SameSeats, MovesOn, Roster, Fits, LobbyType, Statuses

(* Two steps are one, if the first stays in the phase. *)
LEMMA StepsChain ==
    ASSUME NEW L, NEW K, NEW M, NEW gone,
           Steps(L, K, gone), Steps(K, M, gone), K.status = L.status
    PROVE  Steps(L, M, gone)
BY DEF Steps, MovesOn, RosterStays, StakesStay, Roster, Fits, LobbyType

-----------------------------------------------------------------------------
(* What the server does to a lobby. *)

(* abandonLobby. *)
LEMMA AbandonSteps ==
    ASSUME NEW L, Fits(L), NEW gone
    PROVE  /\ Steps(L, Abandon(L), gone) /\ SameSeats(L, Abandon(L))
           /\ Abandon(L).status = L.status /\ ~Abandon(L).counting
<1> DEFINE M == Abandon(L)
<1>1. /\ SameSeats(L, M) /\ M.status = L.status /\ ~M.counting /\ ~M.playing
      /\ M \in LobbyType
  BY DEF Fits, LobbyType, SameSeats, Abandon, ClearTimers
<1> HIDE DEF M
<1>2. Fits(M)  BY <1>1, SeatsDecide DEF Fits, ClocksFit, SameSeats
<1>3. M.status # "ended" \/ L.status # "active"  BY <1>1
<1>4. Steps(L, M, gone)  BY <1>1, <1>2, <1>3, SameStakes DEF MovesOn
<1> QED  BY <1>1, <1>4 DEF M

(* endRound, which the clock and the last leaver call. *)
LEMMA EndRoundSteps ==
    ASSUME NEW L, Fits(L), NEW K, K \in {ClearTimers(L), [L EXCEPT !.playing = FALSE]},
           L.status = "active", NEW gone
    PROVE  Steps(L, EndRound(K), gone) /\ SameSeats(L, EndRound(K))
<1> DEFINE M == EndRound(K)
<1>1. /\ SameSeats(L, K) /\ ~K.playing /\ ~K.counting /\ K \in LobbyType
  BY DEF Fits, ClocksFit, LobbyType, SameSeats, ClearTimers
<1>2. Seated(K) = Seated(L)  BY <1>1 DEF Seated, SameSeats
<1>3. Seated(K) \in SUBSET Players  BY <1>1, SeatsOf
<1>4. /\ SameSeats(L, M) /\ M.status = "ended" /\ ~M.counting /\ ~M.playing
      /\ M.ranked = Roster(L)
      /\ M \in LobbyType
  BY <1>1, <1>2, <1>3 DEF LobbyType, SameSeats, EndRound, Statuses, Roster
<1> HIDE DEF M
<1>5. Fits(M)  BY <1>4, SeatsDecide DEF Fits, ClocksFit, SameSeats
<1>6. Steps(L, M, gone)  BY <1>4, <1>5, SameStakes DEF MovesOn
<1> QED  BY <1>4, <1>6 DEF M

(* A lobby is left by its last human. *)
LEMMA EmptiedSteps ==
    ASSUME NEW L, Fits(L), NEW gone
    PROVE  /\ Steps(L, Emptied(L), gone) /\ SameSeats(L, Emptied(L))
           /\ L.status # "active" => /\ Emptied(L).status = L.status
                                     /\ Emptied(L).counting => L.counting
<1>1. CASE L.status = "active"
  BY <1>1, EndRoundSteps DEF Emptied
<1>2. CASE L.status # "active" /\ Away(L) # {} /\ ~L.grace
  <2> DEFINE M == [L EXCEPT !.grace = TRUE]
  <2>1. /\ SameSeats(L, M) /\ M.status = L.status /\ M.counting = L.counting
        /\ M.playing = L.playing /\ M \in LobbyType
    BY DEF Fits, LobbyType, SameSeats
  <2>2. Emptied(L) = M  BY <1>2 DEF Emptied
  <2> HIDE DEF M
  <2>3. Fits(M)  BY <2>1, SeatsDecide DEF Fits, ClocksFit, SameSeats
  <2>4. Steps(L, M, gone)  BY <1>2, <2>1, <2>3, SameStakes DEF MovesOn
  <2> QED  BY <2>1, <2>2, <2>4
<1>3. CASE L.status = "ended" /\ (Away(L) = {} \/ L.grace)
  <2>1. Emptied(L) = L  BY <1>3 DEF Emptied
  <2>2. Steps(L, L, gone)  BY <1>3, SameStakes DEF MovesOn, SameSeats
  <2> QED  BY <1>3, <2>1, <2>2 DEF SameSeats
<1>4. CASE L.status \notin {"active", "ended"} /\ (Away(L) = {} \/ L.grace)
  <2>1. Emptied(L) = Abandon(L)  BY <1>4 DEF Emptied
  <2> QED  BY <2>1, AbandonSteps
<1>5. L.grace \in BOOLEAN  BY DEF Fits, LobbyType
<1> QED  BY <1>1, <1>2, <1>3, <1>4, <1>5

(* The same, if it was the last. *)
LEMMA AfterLeaveSteps ==
    ASSUME NEW L, Fits(L), NEW up, NEW gone
    PROVE  /\ Steps(L, AfterLeave(L, up), gone) /\ SameSeats(L, AfterLeave(L, up))
           /\ L.status # "active" => /\ AfterLeave(L, up).status = L.status
                                     /\ AfterLeave(L, up).counting => L.counting
<1>1. CASE Live(L, up) = {}  BY <1>1, EmptiedSteps DEF AfterLeave
<1>2. CASE Live(L, up) # {}
  <2>1. L.status # "ended" \/ L.status # "active"  OBVIOUS
  <2>2. SameSeats(L, L)  BY DEF SameSeats
  <2>3. Steps(L, L, gone)  BY <2>1, <2>2, SameStakes DEF MovesOn
  <2> QED  BY <1>2, <2>2, <2>3 DEF AfterLeave
<1> QED  BY <1>1, <1>2

-----------------------------------------------------------------------------
(* Seats taken away. *)

(* A record with other seats, and only these and what they drag along different: the   *)
(* stale checks and the departed.                                                  *)
OtherSeats(L, M) ==
    /\ M \in LobbyType
    /\ M.status = L.status /\ M.counting = L.counting /\ M.playing = L.playing
    /\ M.entered = L.entered /\ M.chain = L.chain /\ M.seen = L.seen

(* The seat of an address is dropped. *)
LEMMA WithoutDrops ==
    ASSUME NEW L, Fits(L), NEW p \in Seated(L)
    PROVE  /\ OtherSeats(L, Without(L, p)) /\ Without(L, p).departed = L.departed
           /\ Seated(Without(L, p)) = Seated(L) \ {p}
           /\ \A q \in Seated(L) \ {p} : Without(L, p).seats[q] = L.seats[q]
<1> DEFINE f == Restrict(L.seats, Seated(L) \ {p})
           stale == IF L.seats[p].checking THEN L.stale \cup {p} ELSE L.stale
           M == [L EXCEPT !.seats = f, !.stale = stale]
<1>1. L \in LobbyType  BY DEF Fits
<1>2. L.seats \in [Seated(L) -> SeatType] /\ Seated(L) \in SUBSET Players  BY <1>1, SeatsOf
<1>3. f \in [Seated(L) \ {p} -> SeatType] /\ \A q \in Seated(L) \ {p} : f[q] = L.seats[q]
  BY <1>2 DEF Restrict
<1>4. f \in SeatMaps  BY <1>2, <1>3, SeatsIn
<1>5. stale \in SUBSET Players  BY <1>1, <1>2 DEF LobbyType
<1>6. Without(L, p) = M  BY <1>1 DEF Without, LobbyType
<1> HIDE DEF f, stale
<1>7. OtherSeats(L, M) /\ M.departed = L.departed /\ M.seats = f
  BY <1>1, <1>4, <1>5 DEF LobbyType, OtherSeats
<1> HIDE DEF M
<1> QED  BY <1>3, <1>6, <1>7 DEF Seated

(* leaveSeat: in a live round the seat departs, a staked one before it waits for its    *)
(* player, any other is dropped.                                                   *)
LEMMA LeaveSeatSteps ==
    ASSUME NEW L, Fits(L), NEW p \in Seated(L), NEW up, NEW gone,
           L.seats[p].sock \in gone \/ L.status \notin {"waiting", "countdown"}
    PROVE  /\ Steps(L, LeaveSeat(L, p, up), gone)
           /\ LeaveSeat(L, p, up).seen = L.seen
<1>1. L \in LobbyType /\ AwayIsStaked(L) /\ ClocksFit(L)  BY DEF Fits
<1>2. L.seats \in [Seated(L) -> SeatType] /\ Seated(L) \in SUBSET Players  BY <1>1, SeatsOf
<1> DEFINE outcome == SeatOnLeave(L.status, L.seats[p].staked)
           N == Without(L, p)
<1>3. /\ OtherSeats(L, N) /\ N.departed = L.departed
      /\ Seated(N) = Seated(L) \ {p} /\ \A q \in Seated(L) \ {p} : N.seats[q] = L.seats[q]
  BY WithoutDrops
<1>4. ASSUME NEW K, Steps(L, K, gone), K.status = L.status, K.seen = L.seen,
             LeaveSeat(L, p, up) = AfterLeave(K, up)
      PROVE  Steps(L, LeaveSeat(L, p, up), gone) /\ LeaveSeat(L, p, up).seen = L.seen
  <2>1. Fits(K)  BY <1>4 DEF Steps
  <2>2. Steps(K, AfterLeave(K, up), gone) /\ SameSeats(K, AfterLeave(K, up))  BY <2>1, AfterLeaveSteps
  <2> QED  BY <1>4, <2>2, StepsChain DEF SameSeats
<1>5. CASE L.status = "active"
  <2> DEFINE K == [N EXCEPT !.departed = @ \cup {p}]
  <2>1. LeaveSeat(L, p, up) = AfterLeave(K, up)  BY <1>5 DEF LeaveSeat, SeatOnLeave
  <2>2. OtherSeats(L, K) /\ K.seats = N.seats /\ K.departed = L.departed \cup {p}
    BY <1>2, <1>3 DEF OtherSeats, LobbyType
  <2> HIDE DEF K, N
  <2>3. Seated(K) = Seated(L) \ {p} /\ Staked(K) = Staked(L) \ {p}
    BY <1>3, <2>2 DEF Seated, Staked
  <2>4. AwayIsStaked(K)  BY <1>1, <1>3, <2>2, <2>3 DEF AwayIsStaked, Seated
  <2>5. Fits(K)  BY <1>1, <2>2, <2>4 DEF Fits, ClocksFit, OtherSeats
  <2>6. StakesAreTrue(L) => StakesAreTrue(K)
    BY <1>5, <2>2, <2>3 DEF StakesAreTrue, OtherSeats
  <2>7. StakesAreTrue(L) => RosterStays(L, K)
    BY <1>5, <2>2, <2>3 DEF StakesAreTrue, OtherSeats, RosterStays, Roster
  <2>8. Steps(L, K, gone)
    BY <1>5, <2>2, <2>5, <2>6, <2>7 DEF Steps, MovesOn, StakesStay, OtherSeats
  <2> QED  BY <1>4, <2>1, <2>2, <2>8 DEF OtherSeats
<1>6. CASE L.seats[p].staked /\ L.status \in {"waiting", "countdown"}
  <2> DEFINE f == [L.seats EXCEPT ![p].sock = NoSocket]
             K == [L EXCEPT !.seats = f]
  <2>1. LeaveSeat(L, p, up) = AfterLeave(K, up)
    BY <1>1, <1>6 DEF LeaveSeat, SeatOnLeave, LobbyType
  <2>2. f \in [Seated(L) -> SeatType]  BY <1>2 DEF SeatType
  <2>3. /\ f[p].staked
        /\ \A q \in Seated(L) : f[q].staked = L.seats[q].staked
        /\ \A q \in Seated(L) \ {p} : f[q] = L.seats[q]
    BY <1>2, <1>6 DEF SeatType
  <2>4. f \in SeatMaps  BY <1>2, <2>2, SeatsIn
  <2> HIDE DEF f
  <2>5. OtherSeats(L, K) /\ K.seats = f /\ K.departed = L.departed
    BY <1>1, <2>4 DEF OtherSeats, LobbyType
  <2> HIDE DEF K
  <2>6. Seated(K) = Seated(L) /\ Staked(K) = Staked(L)
    BY <2>2, <2>3, <2>5 DEF Seated, Staked
  <2>7. AwayIsStaked(K)  BY <1>1, <2>3, <2>5, <2>6 DEF AwayIsStaked
  <2>8. Fits(K)  BY <1>1, <2>5, <2>7 DEF Fits, ClocksFit, OtherSeats
  <2>9. StakesAreTrue(L) => StakesAreTrue(K)
    BY <2>5, <2>6 DEF StakesAreTrue, OtherSeats
  <2>10. StakesStay(L, K, gone)
    BY <1>6, <2>3, <2>5, <2>6 DEF StakesStay, Staked
  <2>11. Steps(L, K, gone)
    BY <1>6, <2>5, <2>8, <2>9, <2>10 DEF Steps, MovesOn, RosterStays, OtherSeats
  <2> QED  BY <1>4, <2>1, <2>5, <2>11 DEF OtherSeats
<1>7. CASE L.status # "active" /\ ~(L.seats[p].staked /\ L.status \in {"waiting", "countdown"})
  <2>1. LeaveSeat(L, p, up) = AfterLeave(N, up)  BY <1>7 DEF LeaveSeat, SeatOnLeave
  <2> HIDE DEF N
  <2>2. Staked(N) = Staked(L) \ {p}  BY <1>3 DEF Staked
  <2>3. L.status \in {"waiting", "countdown"} => p \notin Staked(L)  BY <1>7 DEF Staked
  <2>4. AwayIsStaked(N)  BY <1>1, <1>3 DEF AwayIsStaked
  <2>5. Fits(N)  BY <1>1, <1>3, <2>4 DEF Fits, ClocksFit, OtherSeats
  <2>6. StakesAreTrue(L) => StakesAreTrue(N)
    BY <1>1, <1>3, <1>7, <2>2, <2>3 DEF StakesAreTrue, OtherSeats, ClocksFit
  <2>7. StakesStay(L, N, gone)
    BY <1>3, <2>2, <2>3 DEF StakesStay, Staked
  <2>8. Steps(L, N, gone)
    BY <1>3, <1>7, <2>5, <2>6, <2>7 DEF Steps, MovesOn, RosterStays, OtherSeats
  <2> QED  BY <1>3, <1>4, <2>1, <2>8 DEF OtherSeats
<1> QED  BY <1>5, <1>6, <1>7

(* A record is a step of itself. *)
LEMMA StaysSteps ==
    ASSUME NEW L, Fits(L), NEW gone
    PROVE  Steps(L, L, gone)
<1>1. SameSeats(L, L)  BY DEF SameSeats
<1>2. L.status # "ended" \/ L.status # "active"  OBVIOUS
<1> QED  BY <1>1, <1>2, SameStakes DEF MovesOn

(* The disconnect handler. *)
LEMMA GoneSteps ==
    ASSUME NEW L, Fits(L), NEW s, NEW up, NEW gone, s \in gone
    PROVE  Steps(L, Gone(L, s, up), gone) /\ Gone(L, s, up).seen = L.seen
<1>1. CASE Holds(L, Owner[s], s)
  <2>1. Owner[s] \in Seated(L) /\ L.seats[Owner[s]].sock \in gone  BY <1>1 DEF Holds
  <2> QED  BY <1>1, <2>1, LeaveSeatSteps DEF Gone
<1>2. CASE ~Holds(L, Owner[s], s)  BY <1>2, StaysSteps DEF Gone
<1> QED  BY <1>1, <1>2

(* startWait. *)
LEMMA StartWaitSteps ==
    ASSUME NEW L, Fits(L), NEW gone
    PROVE  /\ Steps(L, StartWait(L), gone) /\ StartWait(L).status = L.status
           /\ StartWait(L).seen = L.seen
<1> DEFINE M == [L EXCEPT !.waited = TRUE, !.ticking = TRUE]
<1>1. CASE L.waited \/ L.status # "waiting"  BY <1>1, StaysSteps DEF StartWait
<1>2. CASE ~(L.waited \/ L.status # "waiting")
  <2>1. StartWait(L) = M  BY <1>2 DEF StartWait
  <2>2. /\ SameSeats(L, M) /\ M.status = L.status /\ M.counting = L.counting
        /\ M.playing = L.playing /\ M \in LobbyType
    BY DEF Fits, LobbyType, SameSeats
  <2> HIDE DEF M
  <2>3. Fits(M)  BY <2>2, SeatsDecide DEF Fits, ClocksFit, SameSeats
  <2>4. Steps(L, M, gone)  BY <1>2, <2>2, <2>3, SameStakes DEF MovesOn
  <2> QED  BY <2>1, <2>2, <2>4 DEF SameSeats
<1> QED  BY <1>1, <1>2

(* beginCountdown, whatever its disconnections did to the lobby. *)
LEMMA BeginCountdownSteps ==
    ASSUME NEW L, Fits(L), L.status = "waiting", NEW up, NEW gone
    PROVE  /\ Steps(L, BeginCountdown(L, up), gone)
           /\ BeginCountdown(L, up).seen = L.seen
<1>1. L \in LobbyType /\ AwayIsStaked(L) /\ ClocksFit(L)  BY DEF Fits
<1>2. L.seats \in [Seated(L) -> SeatType] /\ Seated(L) \in SUBSET Players  BY <1>1, SeatsOf
<1> DEFINE C == [L EXCEPT !.status = "countdown", !.ticking = FALSE]
           f == Restrict(L.seats, Staked(L))
           stale == L.stale \cup {p \in Seated(L) \ Staked(L) : L.seats[p].checking}
           K == [C EXCEPT !.seats = f, !.stale = stale]
           R == IF Live(C, up) \ Seated(K) # {} THEN AfterLeave(K, up) ELSE K
           M == IF Seated(R) = {} THEN Abandon(R) ELSE [R EXCEPT !.counting = TRUE]
<1>3. C.seats = L.seats  BY <1>1 DEF LobbyType
<1>4. Seated(C) = Seated(L) /\ Staked(C) = Staked(L)  BY <1>3, SeatsDecide
<1>5. Seated(C) \ Unstaked(C, up) = Staked(L)  BY <1>4 DEF Unstaked, Staked
<1>6. Keep(C, Seated(C) \ Unstaked(C, up)) = K  BY <1>1, <1>3, <1>4, <1>5 DEF Keep, LobbyType
<1>7. BeginCountdown(L, up) = M  BY <1>6 DEF BeginCountdown
<1>8. f \in [Staked(L) -> SeatType] /\ \A p \in Staked(L) : f[p] = L.seats[p]
  BY <1>2 DEF Restrict, Staked
<1>9. f \in SeatMaps /\ stale \in SUBSET Players  BY <1>1, <1>2, <1>8, SeatsIn DEF Staked, LobbyType
<1> HIDE DEF f, stale
<1>10. /\ K \in LobbyType /\ K.status = "countdown" /\ ~K.counting /\ ~K.playing
       /\ K.seats = f /\ K.departed = L.departed
       /\ K.entered = L.entered /\ K.chain = L.chain /\ K.seen = L.seen
  BY <1>1, <1>9 DEF LobbyType, Statuses, ClocksFit
<1> HIDE DEF K
<1>11. Seated(K) = Staked(L) /\ Staked(K) = Staked(L)
  BY <1>8, <1>10 DEF Seated, Staked
<1>12. AwayIsStaked(K)  BY <1>11 DEF AwayIsStaked, Staked
<1>13. Fits(K)  BY <1>10, <1>12 DEF Fits, ClocksFit
<1>14. /\ SameSeats(K, R) /\ R.status = "countdown" /\ ~R.counting /\ Fits(R)
  BY <1>10, <1>13, AfterLeaveSteps DEF Steps, SameSeats
<1> HIDE DEF R
<1>15. /\ SameSeats(R, M) /\ M.status = "countdown"
       /\ M.counting => Seated(R) # {}
       /\ Fits(M)
  <2>1. CASE Seated(R) = {}  BY <1>14, <2>1, AbandonSteps DEF Steps
  <2>2. CASE Seated(R) # {}
    <3> DEFINE N == [R EXCEPT !.counting = TRUE]
    <3>1. SameSeats(R, N) /\ N.status = "countdown" /\ N.playing = R.playing /\ N \in LobbyType
      BY <1>14 DEF Fits, LobbyType, SameSeats
    <3>2. M = N  BY <2>2
    <3> HIDE DEF N
    <3>3. Fits(N)  BY <1>14, <3>1, SeatsDecide DEF Fits, ClocksFit, SameSeats
    <3> QED  BY <2>2, <3>1, <3>2, <3>3
  <2> QED  BY <2>1, <2>2
<1> HIDE DEF M
<1>16. M.seats = f /\ Seated(M) = Staked(L) /\ Staked(M) = Staked(L) /\ Seated(R) = Staked(L)
  BY <1>10, <1>11, <1>14, <1>15, SeatsDecide DEF SameSeats
<1>17. StakesAreTrue(L) => StakesAreTrue(M)
  BY <1>10, <1>14, <1>15, <1>16 DEF StakesAreTrue, SameSeats
<1>18. StakesStay(L, M, gone)  BY <1>8, <1>16 DEF StakesStay
<1>19. Steps(L, M, gone)
  BY <1>15, <1>17, <1>18 DEF Steps, MovesOn, RosterStays
<1> QED  BY <1>7, <1>10, <1>14, <1>15, <1>19 DEF SameSeats

(* A new seat, over an older one of the same address if there is one. *)
LEMMA SetSeatSeats ==
    ASSUME NEW L, Fits(L), NEW s \in Sockets
    PROVE  /\ Fits(SetSeat(L, s)) /\ OtherSeats(L, SetSeat(L, s))
           /\ SetSeat(L, s).departed = L.departed
           /\ Seated(SetSeat(L, s)) = Seated(L) \cup {Owner[s]}
           /\ Staked(SetSeat(L, s)) = Staked(L) \ {Owner[s]}
           /\ \A q \in Seated(L) \ {Owner[s]} : SetSeat(L, s).seats[q] = L.seats[q]
<1>1. L \in LobbyType /\ AwayIsStaked(L) /\ ClocksFit(L)  BY DEF Fits
<1>2. L.seats \in [Seated(L) -> SeatType] /\ Seated(L) \in SUBSET Players  BY <1>1, SeatsOf
<1> DEFINE p == Owner[s]
           f == [q \in Seated(L) \cup {p} |-> IF q = p THEN Seat(s) ELSE L.seats[q]]
           stale == IF p \in Seated(L) /\ L.seats[p].checking THEN L.stale \cup {p} ELSE L.stale
           M == [L EXCEPT !.seats = f, !.stale = stale]
<1>3. p \in Players  BY LobbyAssumption DEF LobbyAssumption
<1>4. Seat(s) \in SeatType /\ ~Seat(s).staked /\ Seat(s).sock # NoSocket
  BY LobbyAssumption DEF Seat, SeatType, LobbyAssumption
<1>5. f \in [Seated(L) \cup {p} -> SeatType]  BY <1>2, <1>4
<1>6. f \in SeatMaps  BY <1>2, <1>3, <1>5, SeatsIn
<1>7. stale \in SUBSET Players  BY <1>1, <1>3 DEF LobbyType
<1>8. SetSeat(L, s) = M  BY <1>1 DEF SetSeat, LobbyType
<1>9. f[p] = Seat(s) /\ \A q \in Seated(L) \ {p} : f[q] = L.seats[q]  OBVIOUS
<1> HIDE DEF f, stale
<1>10. OtherSeats(L, M) /\ M.seats = f /\ M.departed = L.departed
  BY <1>1, <1>6, <1>7 DEF OtherSeats, LobbyType
<1> HIDE DEF M
<1>11. Seated(M) = Seated(L) \cup {p} /\ Staked(M) = Staked(L) \ {p}
  BY <1>4, <1>5, <1>9, <1>10 DEF Seated, Staked
<1>12. AwayIsStaked(M)  BY <1>1, <1>4, <1>9, <1>10, <1>11 DEF AwayIsStaked
<1>13. Fits(M)  BY <1>1, <1>10, <1>12 DEF Fits, ClocksFit, OtherSeats
<1> QED  BY <1>8, <1>9, <1>10, <1>11, <1>13

(* It is a step where no stake is lost by it and nobody joins a round that counts. *)
LEMMA SetSeatSteps ==
    ASSUME NEW L, Fits(L), NEW s \in Sockets, NEW gone,
           L.status # "active" /\ ~L.counting,
           L.status \in {"waiting", "countdown"} => Owner[s] \notin Staked(L)
    PROVE  Steps(L, SetSeat(L, s), gone)
<1> DEFINE M == SetSeat(L, s)
<1>1. /\ Fits(M) /\ OtherSeats(L, M) /\ M.departed = L.departed
      /\ Seated(M) = Seated(L) \cup {Owner[s]} /\ Staked(M) = Staked(L) \ {Owner[s]}
      /\ \A q \in Seated(L) \ {Owner[s]} : M.seats[q] = L.seats[q]
  BY SetSeatSeats
<1> HIDE DEF M
<1>2. StakesAreTrue(L) => StakesAreTrue(M)  BY <1>1 DEF StakesAreTrue, OtherSeats
<1>3. StakesAreTrue(L) => StakesStay(L, M, gone)  BY <1>1 DEF StakesStay, Staked
<1>4. StakesAreTrue(L) => RosterStays(L, M)  BY DEF RosterStays
<1>5. Steps(L, M, gone)  BY <1>1, <1>2, <1>3, <1>4 DEF Steps, MovesOn, OtherSeats
<1> QED  BY <1>5 DEF M

(* A seat marked: given another connection, a check or, by the chain, a stake. *)
LEMMA MarkSteps ==
    ASSUME NEW L, Fits(L), NEW p \in Seated(L), NEW seat \in SeatType, NEW gone,
           NEW M, OtherSeats(L, M), M.departed = L.departed,
           M.seats = [L.seats EXCEPT ![p] = seat],
           L.seats[p].staked => seat.staked,
           seat.sock = NoSocket => seat.staked,
           seat.staked /\ ~L.seats[p].staked => L.seen = "open" /\ p \in L.entered,
           seat.sock = L.seats[p].sock \/ L.seats[p].sock \in gone
    PROVE  Steps(L, M, gone)
<1>1. L \in LobbyType /\ AwayIsStaked(L) /\ ClocksFit(L)  BY DEF Fits
<1>2. L.seats \in [Seated(L) -> SeatType] /\ Seated(L) \in SUBSET Players  BY <1>1, SeatsOf
<1>3. Seated(M) = Seated(L)  BY <1>2 DEF Seated
<1>4. M.seats[p] = seat /\ \A q \in Seated(L) \ {p} : M.seats[q] = L.seats[q]  BY <1>2
<1>5. Staked(L) \subseteq Staked(M) /\ Staked(M) \subseteq Staked(L) \cup {p}
      /\ (p \in Staked(M) /\ p \notin Staked(L) => L.seen = "open" /\ p \in L.entered)
  BY <1>3, <1>4 DEF Staked, SeatType
<1>6. AwayIsStaked(M)  BY <1>1, <1>3, <1>4 DEF AwayIsStaked
<1>7. Fits(M)  BY <1>1, <1>6 DEF Fits, ClocksFit, OtherSeats
<1>8. Staked(M) \subseteq Seated(M)  BY DEF Staked
<1>9. StakesAreTrue(L) => StakesAreTrue(M)
  BY <1>3, <1>5, <1>8 DEF StakesAreTrue, OtherSeats
<1>10. StakesStay(L, M, gone)
  <2>1. \A q \in Staked(L) : L.seats[q].sock \in gone \/ M.seats[q].sock = L.seats[q].sock
    BY <1>4 DEF Staked
  <2> QED  BY <1>5, <2>1 DEF StakesStay
<1>11. StakesAreTrue(L) => RosterStays(L, M)
  BY <1>1, <1>3 DEF RosterStays, StakesAreTrue, Roster, OtherSeats
<1> QED  BY <1>7, <1>9, <1>10, <1>11 DEF Steps, MovesOn, OtherSeats

(* The chain has said that the address entered. *)
LEMMA StakedSteps ==
    ASSUME NEW L, Fits(L), NEW p \in Seated(L), EntrySeen(L, p), NEW gone
    PROVE  /\ Steps(L, StartWait([L EXCEPT !.seats[p].staked = TRUE]), gone)
           /\ StartWait([L EXCEPT !.seats[p].staked = TRUE]).status = L.status
           /\ StartWait([L EXCEPT !.seats[p].staked = TRUE]).seen = L.seen
<1> DEFINE seat == [L.seats[p] EXCEPT !.staked = TRUE]
           f == [L.seats EXCEPT ![p] = seat]
           M == [L EXCEPT !.seats = f]
<1>1. L \in LobbyType  BY DEF Fits
<1>2. L.seats \in [Seated(L) -> SeatType] /\ Seated(L) \in SUBSET Players  BY <1>1, SeatsOf
<1>3. seat \in SeatType /\ seat.staked /\ seat.sock = L.seats[p].sock  BY <1>2 DEF SeatType
<1>4. [L EXCEPT !.seats[p].staked = TRUE] = M  BY <1>1, <1>2 DEF LobbyType
<1>5. f \in SeatMaps  BY <1>2, <1>3, SeatsIn
<1> HIDE DEF seat
<1>6. OtherSeats(L, M) /\ M.departed = L.departed /\ M.seats = f
  BY <1>1, <1>5 DEF OtherSeats, LobbyType
<1>7. L.seen = "open" /\ p \in L.entered  BY DEF EntrySeen
<1> HIDE DEF M
<1>8. Steps(L, M, gone)  BY <1>3, <1>6, <1>7, MarkSteps
<1>9. Fits(M)  BY <1>8 DEF Steps
<1>10. Steps(M, StartWait(M), gone) /\ StartWait(M).status = M.status /\ StartWait(M).seen = M.seen
  BY <1>9, StartWaitSteps
<1>11. Steps(L, StartWait(M), gone)  BY <1>6, <1>8, <1>10, StepsChain DEF OtherSeats
<1> QED  BY <1>4, <1>6, <1>10, <1>11 DEF OtherSeats

(* A check of a seat begins or ends. *)
LEMMA CheckingSteps ==
    ASSUME NEW L, Fits(L), NEW p \in Seated(L), NEW checking \in BOOLEAN, NEW gone
    PROVE  /\ Steps(L, [L EXCEPT !.seats[p].checking = checking], gone)
           /\ OtherSeats(L, [L EXCEPT !.seats[p].checking = checking])
           /\ Seated([L EXCEPT !.seats[p].checking = checking]) = Seated(L)
<1> DEFINE seat == [L.seats[p] EXCEPT !.checking = checking]
           f == [L.seats EXCEPT ![p] = seat]
           M == [L EXCEPT !.seats = f]
<1>1. L \in LobbyType /\ AwayIsStaked(L)  BY DEF Fits
<1>2. L.seats \in [Seated(L) -> SeatType] /\ Seated(L) \in SUBSET Players  BY <1>1, SeatsOf
<1>3. seat \in SeatType /\ seat.staked = L.seats[p].staked /\ seat.sock = L.seats[p].sock
  BY <1>2 DEF SeatType
<1>4. [L EXCEPT !.seats[p].checking = checking] = M  BY <1>1, <1>2 DEF LobbyType
<1>5. f \in SeatMaps  BY <1>2, <1>3, SeatsIn
<1>6. seat.sock = NoSocket => seat.staked  BY <1>1, <1>3 DEF AwayIsStaked
<1> HIDE DEF seat
<1>7. OtherSeats(L, M) /\ M.departed = L.departed /\ M.seats = f
  BY <1>1, <1>5 DEF OtherSeats, LobbyType
<1> HIDE DEF M
<1>8. Seated(M) = Seated(L)  BY <1>2, <1>7 DEF Seated
<1>9. Steps(L, M, gone)  BY <1>3, <1>6, <1>7, MarkSteps
<1> QED  BY <1>4, <1>7, <1>8, <1>9

-----------------------------------------------------------------------------
(* The state. *)

LobbiesFit == TypeOK /\ \A l \in LobbyIds : ClocksFit(lobby[l])

(* A lobby whose round is being issued has not been seen open. *)
NoneEarly == \A s \in Sockets : At(s, "issuing") => lobby[sock[s].lobby].seen # "open"

StakesFit == (\A l \in LobbyIds : StakesAreTrue(lobby[l])) /\ NoneEarly

(* Whoever is not connected before and after a step. *)
Lost == (Sockets \cup {NoSocket}) \ {s \in Up : sock'[s].up}

Honest == ~SlowInserts /\ StakesFit

(* What every action does. *)
Moves(l) ==
    /\ Fits(lobby'[l]) /\ MovesOn(lobby[l], lobby'[l])
    /\ Honest => Steps(lobby[l], lobby'[l], Lost)
StepFits ==
    /\ lobby' \in [LobbyIds -> LobbyType] /\ sock' \in [Sockets -> SockType]
    /\ \A l \in LobbyIds : Moves(l)
    /\ Honest => NoneEarly'

(* The parts of the invariant, by lobby and by connection. *)
LEMMA LobbyFits ==
    ASSUME LobbiesFit
    PROVE  /\ \A l \in LobbyIds : Fits(lobby[l])
           /\ \A s \in Sockets : sock[s] \in SockType /\ (~At(s, "new") => sock[s].lobby \in LobbyIds)
<1>1. \A s \in Sockets : sock[s] \in SockType  BY DEF LobbiesFit, TypeOK
<1>2. \A s \in Sockets : ~At(s, "new") => sock[s].lobby \in LobbyIds
  BY <1>1, LobbyAssumption DEF LobbyAssumption, SockType, At, LobbyIds
<1> QED  BY <1>1, <1>2 DEF LobbiesFit, TypeOK, Fits

(* A handler that makes a record of one lobby. *)
LEMMA OneLobby ==
    ASSUME LobbiesFit, NEW l \in LobbyIds, NEW M, lobby' = [lobby EXCEPT ![l] = M],
           Fits(M), MovesOn(lobby[l], M), Honest => Steps(lobby[l], M, Lost),
           sock' \in [Sockets -> SockType], Honest => NoneEarly'
    PROVE  StepFits
<1>1. lobby \in [LobbyIds -> LobbyType] /\ M \in LobbyType  BY DEF LobbiesFit, TypeOK, Fits
<1>2. lobby' \in [LobbyIds -> LobbyType]  BY <1>1
<1>3. \A k \in LobbyIds : lobby'[k] = IF k = l THEN M ELSE lobby[k]  BY <1>1
<1>4. \A k \in LobbyIds : Fits(lobby[k]) /\ Steps(lobby[k], lobby[k], Lost)
  BY LobbyFits, StaysSteps
<1>5. \A k \in LobbyIds : Moves(k)  BY <1>3, <1>4 DEF Moves, MovesOn
<1> QED  BY <1>2, <1>5 DEF StepFits

(* It is enough to know the step, where it is one whatever the INSERTs do. *)
LEMMA ManySteps ==
    ASSUME LobbiesFit, NEW after, lobby' = [l \in LobbyIds |-> after[l]],
           \A l \in LobbyIds : Steps(lobby[l], after[l], Lost) /\ after[l].seen = lobby[l].seen,
           sock' \in [Sockets -> SockType],
           \A s \in Sockets : At(s, "issuing")' =>
              \/ At(s, "issuing") /\ sock'[s].lobby = sock[s].lobby
              \/ sock'[s].lobby \in LobbyIds /\ lobby[sock'[s].lobby].seen = "none"
    PROVE  StepFits
<1>1. \A l \in LobbyIds : lobby'[l] = after[l]  OBVIOUS
<1>2. \A l \in LobbyIds : Fits(after[l])  BY DEF Steps
<1>3. lobby' \in [LobbyIds -> LobbyType]  BY <1>1, <1>2 DEF Fits
<1>4. \A l \in LobbyIds : Moves(l)  BY <1>1 DEF Moves, Steps
<1>5. \A s \in Sockets : At(s, "issuing") => sock[s].lobby \in LobbyIds  BY LobbyFits DEF At
<1>6. NoneEarly => NoneEarly'  BY <1>1, <1>5 DEF NoneEarly
<1> QED  BY <1>3, <1>4, <1>6 DEF StepFits, Honest, StakesFit

(* The same for one lobby. *)
LEMMA OneStep ==
    ASSUME LobbiesFit, NEW l \in LobbyIds, NEW M, lobby' = [lobby EXCEPT ![l] = M],
           Steps(lobby[l], M, Lost), M.seen = lobby[l].seen,
           sock' \in [Sockets -> SockType],
           \A s \in Sockets : At(s, "issuing")' => At(s, "issuing") /\ sock'[s].lobby = sock[s].lobby
    PROVE  StepFits
<1>1. lobby \in [LobbyIds -> LobbyType]  BY DEF LobbiesFit, TypeOK
<1>2. \A k \in LobbyIds : lobby'[k].seen = lobby[k].seen  BY <1>1
<1>3. \A s \in Sockets : At(s, "issuing") => sock[s].lobby \in LobbyIds  BY LobbyFits DEF At
<1>4. NoneEarly => NoneEarly'  BY <1>2, <1>3 DEF NoneEarly
<1> QED  BY <1>4, OneLobby DEF Steps, Honest, StakesFit

(* Connections that only go down or come in. *)
LEMMA SockMoves ==
    ASSUME LobbiesFit, NEW out, NEW s \in Sockets, ~At(s, "new"),
           sock' = [q \in Sockets |->
               [sock[q] EXCEPT !.up = @ /\ q \notin out, !.pc = IF q = s THEN "in" ELSE @]]
    PROVE  /\ sock' \in [Sockets -> SockType]
           /\ \A q \in Sockets : At(q, "issuing")' => At(q, "issuing") /\ sock'[q].lobby = sock[q].lobby
<1>1. \A q \in Sockets : sock[q] \in SockType  BY LobbyFits
<1>2. \A q \in Sockets : sock'[q] = [sock[q] EXCEPT !.up = @ /\ q \notin out, !.pc = IF q = s THEN "in" ELSE @]
  OBVIOUS
<1>3. \A q \in Sockets : sock'[q] \in SockType
  <2> TAKE q \in Sockets
  <2> DEFINE up == sock[q].up /\ q \notin out
  <2>1. up \in BOOLEAN  OBVIOUS
  <2>2. sock'[q] = [sock[q] EXCEPT !.up = up, !.pc = IF q = s THEN "in" ELSE @]  BY <1>2
  <2> HIDE DEF up
  <2> QED  BY <1>1, <2>1, <2>2 DEF SockType, At
<1>4. \A q \in Sockets : At(q, "issuing")' => At(q, "issuing") /\ sock'[q].lobby = sock[q].lobby
  BY <1>1, <1>2 DEF SockType, At
<1> QED  BY <1>3, <1>4

(* A connection that comes to stand somewhere else, at most one other going down. *)
LEMMA SockGoes ==
    ASSUME LobbiesFit, NEW s \in Sockets, NEW old,
           sock' = [q \in Sockets |-> sock'[q]], sock'[s] \in SockType,
           \A q \in Sockets \ {s} : sock'[q] = IF q = old THEN [sock[q] EXCEPT !.up = FALSE] ELSE sock[q]
    PROVE  /\ sock' \in [Sockets -> SockType]
           /\ \A q \in Sockets \ {s} : At(q, "issuing")' => At(q, "issuing") /\ sock'[q].lobby = sock[q].lobby
<1>1. \A q \in Sockets : sock[q] \in SockType  BY LobbyFits
<1>2. \A q \in Sockets \ {s} : sock'[q] \in SockType
  <2>1. \A c \in SockType : [c EXCEPT !.up = FALSE] \in SockType  BY DEF SockType
  <2> QED  BY <1>1, <2>1
<1>3. sock' \in [Sockets -> SockType]  BY <1>2
<1>4. \A q \in Sockets \ {s} : At(q, "issuing")' => At(q, "issuing") /\ sock'[q].lobby = sock[q].lobby
  BY <1>1 DEF SockType, At
<1> QED  BY <1>3, <1>4

(* The lobby a connection stands at is one. *)
LEMMA IdsAreIds ==
    ASSUME NEW l \in LobbyIds
    PROVE  l \in 0 .. MaxLobbies /\ l # 0
BY LobbyAssumption DEF LobbyAssumption, LobbyIds

-----------------------------------------------------------------------------
(* The connections. *)

(* The seats a join releases on its way are those of live rounds. *)
LEMMA ReleasedSteps ==
    ASSUME LobbiesFit, NEW s \in Sockets, NEW until, NEW l \in LobbyIds, NEW gone
    PROVE  /\ Steps(lobby[l], Released(s, until)[l], gone)
           /\ Released(s, until)[l].seen = lobby[l].seen
           /\ Decision(s, l) # "release" => Released(s, until)[l] = lobby[l]
<1>1. Fits(lobby[l])  BY LobbyFits
<1>2. CASE l \in Mine(s) /\ l < until /\ Decision(s, l) = "release"
  <2>1. Released(s, until)[l] = LeaveSeat(lobby[l], Owner[s], Up)  BY <1>2 DEF Released
  <2>2. lobby[l].status = "active"  BY <1>2 DEF Decision, SeatOnRejoin
  <2>3. Owner[s] \in Seated(lobby[l])  BY <1>2 DEF Mine
  <2> QED  BY <1>1, <1>2, <2>1, <2>2, <2>3, LeaveSeatSteps
<1>3. CASE ~(l \in Mine(s) /\ l < until /\ Decision(s, l) = "release")
  BY <1>1, <1>3, StaysSteps DEF Released
<1> QED  BY <1>2, <1>3

(* A seat taken back: the connection that held it is no longer up, or is this one. *)
LEMMA ReclaimMoves ==
    ASSUME LobbiesFit, NEW s \in Sockets, Reclaim(s)
    PROVE  StepFits
<1>1. PICK l \in LobbyIds :
          /\ l \in Deciding(s) /\ Decision(s, l) = "reclaim"
          /\ lobby' = [Released(s, l) EXCEPT
                ![l] = IF Alive(s, l)
                       THEN Gone([Released(s, l)[l] EXCEPT !.seats[Owner[s]].sock = s, !.grace = FALSE],
                                 lobby[l].seats[Owner[s]].sock, Up \ {lobby[l].seats[Owner[s]].sock})
                       ELSE [Released(s, l)[l] EXCEPT !.seats[Owner[s]].sock = s, !.grace = FALSE]]
          /\ sock' = [q \in Sockets |->
                CASE q = s -> [up |-> TRUE, pc |-> "in", lobby |-> l]
                  [] q = lobby[l].seats[Owner[s]].sock /\ q # s -> [sock[q] EXCEPT !.up = FALSE]
                  [] OTHER -> sock[q]]
  BY DEF Reclaim, First
<1> DEFINE L == lobby[l]
           p == Owner[s]
           old == L.seats[p].sock
           seat == [L.seats[p] EXCEPT !.sock = s]
           T == [L EXCEPT !.seats = [L.seats EXCEPT ![p] = seat], !.grace = FALSE]
           G == IF Alive(s, l) THEN Gone(T, old, Up \ {old}) ELSE T
           after == [k \in LobbyIds |-> IF k = l THEN G ELSE Released(s, l)[k]]
<1>2. Fits(L) /\ p \in Seated(L)  BY <1>1, LobbyFits DEF Deciding, Mine
<1>3. L.seats \in [Seated(L) -> SeatType] /\ Seated(L) \in SUBSET Players  BY <1>2, SeatsOf DEF Fits
<1>4. Released(s, l)[l] = L  BY <1>1, ReleasedSteps
<1>5. [L EXCEPT !.seats[p].sock = s, !.grace = FALSE] = T  BY <1>2, <1>3 DEF Fits, LobbyType, Seated
<1>6. seat \in SeatType /\ seat.sock = s /\ seat.staked = L.seats[p].staked /\ s # NoSocket
  BY <1>2, <1>3, LobbyAssumption DEF SeatType, LobbyAssumption
<1>7. [L.seats EXCEPT ![p] = seat] \in SeatMaps  BY <1>3, <1>6, SeatsIn
<1>8. OtherSeats(L, T) /\ T.departed = L.departed /\ T.seats = [L.seats EXCEPT ![p] = seat]
  BY <1>2, <1>7 DEF OtherSeats, Fits, LobbyType
<1>9. sock' \in [Sockets -> SockType]
      /\ (\A q \in Sockets \ {s} : At(q, "issuing")' => At(q, "issuing") /\ sock'[q].lobby = sock[q].lobby)
      /\ sock'[s] = [up |-> TRUE, pc |-> "in", lobby |-> l]
  <2>1. sock' = [q \in Sockets |-> sock'[q]]  BY <1>1
  <2>2. sock'[s] = [up |-> TRUE, pc |-> "in", lobby |-> l]  BY <1>1
  <2>3. \A q \in Sockets \ {s} : sock'[q] = IF q = old THEN [sock[q] EXCEPT !.up = FALSE] ELSE sock[q]
    BY <1>1
  <2>4. sock'[s] \in SockType  BY <2>2, IdsAreIds DEF SockType
  <2> HIDE DEF old
  <2> QED  BY <2>1, <2>2, <2>3, <2>4, SockGoes
<1>10. old = s \/ old \in Lost
  <2>1. old \in Sockets \cup {NoSocket}  BY <1>2, <1>3 DEF SeatType
  <2>2. CASE old \in Sockets /\ old # s
    <3>1. sock'[old] = [sock[old] EXCEPT !.up = FALSE]  BY <1>1, <2>2
    <3>2. ~sock'[old].up  BY <2>2, <3>1, LobbyFits DEF SockType
    <3> QED  BY <2>1, <3>2 DEF Lost
  <2>3. CASE old = NoSocket  BY <2>3, LobbyAssumption DEF Lost, LobbyAssumption, Up
  <2> QED  BY <2>1, <2>2, <2>3
<1> HIDE DEF T, seat
<1>11. Steps(L, T, Lost)  BY <1>2, <1>3, <1>6, <1>8, <1>10, MarkSteps DEF SeatType
<1>12. Steps(L, G, Lost) /\ G.seen = L.seen
  <2>1. CASE Alive(s, l)
    <3>1. old \in Lost  BY <1>10, <2>1 DEF Alive
    <3>2. Steps(T, G, Lost) /\ G.seen = T.seen
      BY <1>11, <2>1, <3>1, GoneSteps DEF Steps
    <3> QED  BY <1>8, <1>11, <3>2, StepsChain DEF OtherSeats
  <2>2. CASE ~Alive(s, l)  BY <1>8, <1>11, <2>2 DEF OtherSeats
  <2> QED  BY <2>1, <2>2
<1>13. lobby' = [k \in LobbyIds |-> after[k]]
  <2>1. Released(s, l) = [k \in LobbyIds |-> Released(s, l)[k]]  BY DEF Released
  <2>2. lobby' = [Released(s, l) EXCEPT ![l] = G]  BY <1>1, <1>4, <1>5
  <2> HIDE DEF G
  <2> QED  BY <2>1, <2>2
<1>14. \A k \in LobbyIds : Steps(lobby[k], after[k], Lost) /\ after[k].seen = lobby[k].seen
  BY <1>12, ReleasedSteps
<1> HIDE DEF after
<1>15. ~At(s, "issuing")'  BY <1>9 DEF At
<1> QED  BY <1>9, <1>13, <1>14, <1>15, ManySteps

(* A fresh seat: in a lobby where the address has none, or in one not yet issued. *)
LEMMA JoinFreshMoves ==
    ASSUME LobbiesFit, NEW s \in Sockets, JoinFresh(s)
    PROVE  StepFits
<1> DEFINE R == Released(s, MaxLobbies + 1)
           Opened(L) == [L EXCEPT !.status = "waiting", !.mapped = TRUE]
<1>1. PICK l \in LobbyIds :
          /\ l \in Choice
          /\ \/ /\ lobby[l].seen = "none"
                /\ lobby' = [R EXCEPT ![l].status = "waiting", ![l].mapped = TRUE]
                /\ Goto(s, "issuing", l)
             \/ /\ lobby[l].seen # "none"
                /\ lobby' = [R EXCEPT ![l] = SetSeat(@, s)]
                /\ Goto(s, "entering", l)
  BY DEF JoinFresh, First
<1> DEFINE L == lobby[l]
           M == IF L.seen = "none" THEN Opened(L) ELSE SetSeat(L, s)
           after == [k \in LobbyIds |-> IF k = l THEN M ELSE R[k]]
<1>2. sock[s].up /\ Deciding(s) = {}  BY DEF JoinFresh
<1>3. Fits(L) /\ L.status \in {"unborn", "waiting"}  BY <1>1, LobbyFits DEF Choice, Open, NextId
<1>4. L.status = "waiting" => Owner[s] \notin Seated(L)
  <2> SUFFICES ASSUME L.status = "waiting", Owner[s] \in Seated(L)  PROVE FALSE
    OBVIOUS
  <2>1. L.mapped  BY <1>1 DEF Choice, Open, NextId
  <2>2. l \in Mine(s) /\ Decision(s, l) = "reclaim"  BY <2>1 DEF Mine, Decision, SeatOnRejoin
  <2> QED  BY <1>2, <2>2 DEF Deciding
<1>5. R[l] = L  BY <1>3, ReleasedSteps DEF Decision, SeatOnRejoin
<1>6. R = [k \in LobbyIds |-> R[k]]  BY DEF Released
<1>7. ~L.counting  BY <1>3 DEF Fits, ClocksFit
<1>8. Steps(L, M, Lost) /\ M.seen = L.seen
  <2>1. CASE L.seen = "none"
    <3> DEFINE N == Opened(L)
    <3>1. /\ SameSeats(L, N) /\ N.status = "waiting" /\ N.counting = L.counting
          /\ N.playing = L.playing /\ N \in LobbyType
      BY <1>3 DEF Fits, LobbyType, Statuses, SameSeats
    <3>2. M = N  BY <2>1
    <3> HIDE DEF N
    <3>3. Fits(N)  BY <1>3, <3>1, SeatsDecide DEF Fits, ClocksFit, SameSeats
    <3>4. Steps(L, N, Lost)  BY <1>3, <3>1, <3>3, SameStakes DEF MovesOn
    <3> QED  BY <3>1, <3>2, <3>4 DEF SameSeats
  <2>2. CASE L.seen # "none"
    <3>1. Staked(L) \subseteq Seated(L)  BY DEF Staked
    <3>2. Steps(L, SetSeat(L, s), Lost)  BY <1>3, <1>4, <1>7, <3>1, SetSeatSteps
    <3>3. SetSeat(L, s).seen = L.seen  BY <1>3, SetSeatSeats DEF OtherSeats
    <3> QED  BY <2>2, <3>2, <3>3
  <2> QED  BY <2>1, <2>2
<1>9. lobby' = [R EXCEPT ![l] = M]
  <2>1. CASE L.seen = "none"
    <3>1. lobby' = [R EXCEPT ![l] = Opened(L)]  BY <1>1, <1>3, <1>5, <1>6, <2>1 DEF Fits, LobbyType
    <3> QED  BY <2>1, <3>1
  <2>2. CASE L.seen # "none"
    <3>1. lobby' = [R EXCEPT ![l] = SetSeat(L, s)]  BY <1>1, <1>5, <1>6, <2>2
    <3> QED  BY <2>2, <3>1
  <2> QED  BY <2>1, <2>2
<1>10. PICK pc \in {"issuing", "entering"} :
          /\ sock' = [sock EXCEPT ![s] = [@ EXCEPT !.pc = pc, !.lobby = l]]
          /\ pc = "issuing" => L.seen = "none"
  BY <1>1 DEF Goto
<1>11. /\ sock' \in [Sockets -> SockType]
       /\ \A q \in Sockets \ {s} : At(q, "issuing")' => At(q, "issuing") /\ sock'[q].lobby = sock[q].lobby
       /\ sock'[s].lobby = l /\ sock'[s].pc = pc
  <2>1. sock \in [Sockets -> SockType]  BY DEF LobbiesFit, TypeOK
  <2>2. sock'[s] = [sock[s] EXCEPT !.pc = pc, !.lobby = l]  BY <1>10, <2>1
  <2>3. sock[s] \in SockType  BY <2>1
  <2>4. pc \in {"issuing", "entering", "in"}  OBVIOUS
  <2>5. sock'[s] \in SockType /\ sock'[s].lobby = l /\ sock'[s].pc = pc
    BY <2>2, <2>3, <2>4, IdsAreIds DEF SockType
  <2>6. sock' = [q \in Sockets |-> sock'[q]] /\ \A q \in Sockets \ {s} : sock'[q] = sock[q]
    BY <1>10, <2>1
  <2> QED  BY <2>5, <2>6, SockGoes
<1> HIDE DEF R, M
<1>12. lobby' = [k \in LobbyIds |-> after[k]]  BY <1>6, <1>9
<1>13. \A k \in LobbyIds : Steps(lobby[k], after[k], Lost) /\ after[k].seen = lobby[k].seen
  BY <1>8, ReleasedSteps DEF R
<1> HIDE DEF after
<1>14. At(s, "issuing")' => lobby[sock'[s].lobby].seen = "none"  BY <1>10, <1>11 DEF At
<1> QED  BY <1>11, <1>12, <1>13, <1>14, ManySteps

(* The INSERT answered: the seat is set in the lobby as it is now.  No stake is in it     *)
(* when no INSERT outlasts what the others do.                                       *)
LEMMA IssuedMoves ==
    ASSUME LobbiesFit, NEW s \in Sockets, Issued(s)
    PROVE  StepFits
<1> DEFINE l == sock[s].lobby
           L == lobby[l]
<1>1. At(s, "issuing") /\ l \in LobbyIds  BY LobbyFits DEF Issued, At
<1>2. lobby \in [LobbyIds -> LobbyType] /\ Fits(L)  BY <1>1, LobbyFits DEF LobbiesFit, TypeOK
<1>3. PICK written \in IF SlowInserts THEN BOOLEAN ELSE {TRUE} :
          lobby' = [lobby EXCEPT ![l] = SetSeat(WithRound(L, written), s)]
  BY DEF Issued
<1> DEFINE K == WithRound(L, written)
           M == SetSeat(K, s)
<1>4. /\ K \in LobbyType /\ K.seats = L.seats /\ K.status = L.status /\ K.counting = L.counting
      /\ K.playing = L.playing /\ K.departed = L.departed /\ K.seen # "open"
  <2> DEFINE orphaned == L.orphaned \/ L.row = "lobby"
             stranded == L.stranded \/ (L.row = "lobby" /\ L.entered # {})
             leaked == L.leaked \/ (written /\ L.watching)
             watching == L.watching \/ written
             row == IF written THEN "lobby" ELSE "none"
             chain == IF written THEN "open_requested" ELSE "none"
             seen == IF written THEN "open_requested" ELSE "dead"
  <2>1. orphaned \in BOOLEAN /\ stranded \in BOOLEAN /\ leaked \in BOOLEAN /\ watching \in BOOLEAN
    OBVIOUS
  <2>2. row \in {"none", "lobby", "abandoned", "completed"}
        /\ chain \in ChainStatuses /\ seen \in ChainStatuses /\ seen # "open"
    BY DEF ChainStatuses
  <2>3. K = [L EXCEPT !.orphaned = orphaned, !.stranded = stranded, !.row = row, !.chain = chain,
                      !.seen = seen, !.entered = {}, !.leaked = leaked, !.watching = watching]
    BY <1>2 DEF Fits, LobbyType, WithRound
  <2> HIDE DEF orphaned, stranded, leaked, watching, row, chain, seen, K
  <2> DEFINE N == [L EXCEPT !.orphaned = orphaned, !.stranded = stranded, !.row = row]
  <2>4. N \in LobbyType /\ N.seats = L.seats /\ N.status = L.status /\ N.counting = L.counting
        /\ N.playing = L.playing /\ N.departed = L.departed  BY <1>2, <2>1, <2>2 DEF Fits, LobbyType
  <2>5. K = [N EXCEPT !.chain = chain, !.seen = seen, !.entered = {}, !.leaked = leaked,
                      !.watching = watching]
    BY <1>2, <2>3 DEF Fits, LobbyType
  <2> HIDE DEF N
  <2> QED  BY <1>2, <2>1, <2>2, <2>4, <2>5 DEF Fits, LobbyType
<1> HIDE DEF K
<1>5. Fits(K) /\ Seated(K) = Seated(L) /\ Staked(K) = Staked(L)
  BY <1>2, <1>4, SeatsDecide DEF Fits, ClocksFit
<1>6. /\ Fits(M) /\ OtherSeats(K, M) /\ M.departed = K.departed
      /\ Seated(M) = Seated(K) \cup {Owner[s]} /\ Staked(M) = Staked(K) \ {Owner[s]}
  BY <1>5, SetSeatSeats
<1>7. MovesOn(L, M)  BY <1>4, <1>6 DEF MovesOn, OtherSeats
<1>8. Honest => Steps(L, M, Lost)
  <2> SUFFICES ASSUME Honest PROVE Steps(L, M, Lost)
    OBVIOUS
  <2>1. StakesAreTrue(L) /\ L.seen # "open"  BY <1>1 DEF Honest, StakesFit, NoneEarly
  <2>2. Staked(L) = {} /\ ~L.counting /\ L.status # "active"  BY <2>1 DEF StakesAreTrue
  <2>3. Staked(M) = {} /\ M.seen # "open" /\ M.status = L.status /\ M.counting = L.counting
        /\ M.departed = L.departed
    BY <1>4, <1>5, <1>6, <2>2 DEF OtherSeats
  <2>4. StakesAreTrue(M)  BY <2>1, <2>2, <2>3 DEF StakesAreTrue
  <2> QED  BY <1>6, <1>7, <2>2, <2>4 DEF Steps, RosterStays, StakesStay
<1>9. /\ sock' \in [Sockets -> SockType]
      /\ \A q \in Sockets : At(q, "issuing")' => At(q, "issuing") /\ sock'[q].lobby = sock[q].lobby
  <2>1. sock \in [Sockets -> SockType]  BY DEF LobbiesFit, TypeOK
  <2>2. sock' = [sock EXCEPT ![s] = [@ EXCEPT !.pc = "entering", !.lobby = l]]
    BY DEF Issued, Goto
  <2>3. sock'[s] = [sock[s] EXCEPT !.pc = "entering", !.lobby = l]  BY <2>1, <2>2
  <2>4. sock[s] \in SockType  BY <2>1
  <2>5. sock'[s] \in SockType /\ sock'[s].pc = "entering"
    BY <1>1, <2>3, <2>4, IdsAreIds DEF SockType
  <2>7. sock' = [q \in Sockets |-> sock'[q]] /\ \A q \in Sockets \ {s} : sock'[q] = sock[q]
    BY <2>1, <2>2
  <2>8. ~At(s, "issuing")'  BY <2>5 DEF At
  <2> QED  BY <2>5, <2>7, <2>8, SockGoes
<1>10. Honest => NoneEarly'
  <2>1. M.seen # "open"  BY <1>4, <1>6 DEF OtherSeats
  <2>2. lobby' = [lobby EXCEPT ![l] = M]  BY <1>3 DEF K
  <2> HIDE DEF M
  <2>3. \A k \in LobbyIds : lobby'[k] = IF k = l THEN M ELSE lobby[k]  BY <1>2, <2>2
  <2>4. \A q \in Sockets : At(q, "issuing") => sock[q].lobby \in LobbyIds  BY LobbyFits DEF At
  <2> QED  BY <1>9, <2>1, <2>3, <2>4 DEF NoneEarly, Honest, StakesFit
<1>11. lobby' = [lobby EXCEPT ![l] = M]  BY <1>3 DEF K
<1> HIDE DEF M
<1> QED  BY <1>1, <1>6, <1>7, <1>8, <1>9, <1>10, <1>11, OneLobby

(* The answers of the chain are a no, or a yes of an entry. *)
LEMMA YesOfAnEntry ==
    ASSUME NEW L, NEW p, NEW yes \in Answers(L, p), yes
    PROVE  EntrySeen(L, p)
BY DEF Answers

(* The chain has answered at the join, and a full lobby begins its countdown. *)
LEMMA ArrivedMoves ==
    ASSUME LobbiesFit, NEW s \in Sockets, Arrived(s)
    PROVE  StepFits
<1> DEFINE l == sock[s].lobby
           p == Owner[s]
<1>1. At(s, "entering") /\ l \in LobbyIds  BY LobbyFits DEF Arrived, At
<1>2. Fits(lobby[l])  BY <1>1, LobbyFits
<1>3. PICK L :
          /\ \/ L = lobby[l]
             \/ /\ EntrySeen(lobby[l], p) /\ p \in Seated(lobby[l])
                /\ L = StartWait([lobby[l] EXCEPT !.seats[p].staked = TRUE])
          /\ lobby' = [lobby EXCEPT ![l] = IF Full(L) THEN BeginCountdown(L, Up) ELSE L]
          /\ \E out : sock' = [q \in Sockets |->
                [sock[q] EXCEPT !.up = @ /\ q \notin out, !.pc = IF q = s THEN "in" ELSE @]]
  <2>1. PICK yes \in Answers(lobby[l], p) :
          LET L == IF yes /\ p \in Seated(lobby[l])
                   THEN StartWait([lobby[l] EXCEPT !.seats[p].staked = TRUE]) ELSE lobby[l]
              out == IF Full(L) THEN DroppedBy(L, Up) ELSE {}
          IN /\ lobby' = [lobby EXCEPT ![l] = IF Full(L) THEN BeginCountdown(L, Up) ELSE L]
             /\ sock' = [q \in Sockets |->
                   [sock[q] EXCEPT !.up = @ /\ q \notin out, !.pc = IF q = s THEN "in" ELSE @]]
    BY DEF Arrived
  <2>2. CASE yes /\ p \in Seated(lobby[l])
    <3>1. EntrySeen(lobby[l], p)  BY <2>2, YesOfAnEntry
    <3> QED  BY <2>1, <2>2, <3>1
  <2>3. CASE ~(yes /\ p \in Seated(lobby[l]))  BY <2>1, <2>3
  <2> QED  BY <2>2, <2>3
<1>4. Steps(lobby[l], L, Lost) /\ L.status = lobby[l].status /\ L.seen = lobby[l].seen
  <2>1. CASE L = lobby[l]  BY <1>2, <2>1, StaysSteps
  <2>2. CASE EntrySeen(lobby[l], p) /\ p \in Seated(lobby[l])
             /\ L = StartWait([lobby[l] EXCEPT !.seats[p].staked = TRUE])
    BY <1>2, <2>2, StakedSteps
  <2> QED  BY <1>3, <2>1, <2>2
<1> DEFINE M == IF Full(L) THEN BeginCountdown(L, Up) ELSE L
<1>5. Steps(lobby[l], M, Lost) /\ M.seen = lobby[l].seen
  <2>1. CASE Full(L)
    <3>1. Steps(L, BeginCountdown(L, Up), Lost) /\ BeginCountdown(L, Up).seen = L.seen
      BY <1>4, <2>1, BeginCountdownSteps DEF Steps, Full
    <3> QED  BY <1>4, <2>1, <3>1, StepsChain
  <2>2. CASE ~Full(L)  BY <1>4, <2>2
  <2> QED  BY <2>1, <2>2
<1>6. /\ sock' \in [Sockets -> SockType]
      /\ \A q \in Sockets : At(q, "issuing")' => At(q, "issuing") /\ sock'[q].lobby = sock[q].lobby
  <2>1. ~At(s, "new")  BY <1>1 DEF At
  <2>2. PICK out : sock' = [q \in Sockets |->
            [sock[q] EXCEPT !.up = @ /\ q \notin out, !.pc = IF q = s THEN "in" ELSE @]]
    BY <1>3
  <2> QED  BY <2>1, <2>2, SockMoves
<1> HIDE DEF M
<1>7. lobby' = [lobby EXCEPT ![l] = M]  BY <1>3 DEF M
<1> QED  BY <1>1, <1>5, <1>6, <1>7, OneStep

(* A step of one lobby that moves no connection. *)
LEMMA LobbyOnly ==
    ASSUME LobbiesFit, NEW l \in LobbyIds, NEW M, lobby' = [lobby EXCEPT ![l] = M],
           Steps(lobby[l], M, Lost), M.seen = lobby[l].seen, UNCHANGED sock
    PROVE  StepFits
BY OneStep DEF LobbiesFit, TypeOK, At

(* A stake said to be on its way begins a check. *)
LEMMA SubmitMoves ==
    ASSUME LobbiesFit, NEW s \in Sockets, Submit(s)
    PROVE  StepFits
<1> DEFINE l == sock[s].lobby
           p == Owner[s]
           M == [lobby[l] EXCEPT !.seats[p].checking = TRUE]
<1>1. l \in LobbyIds  BY LobbyFits DEF Submit, At
<1>2. p \in Seated(lobby[l]) /\ Fits(lobby[l])  BY <1>1, LobbyFits DEF Submit
<1>3. lobby' = [lobby EXCEPT ![l] = M] /\ UNCHANGED sock  BY DEF Submit
<1>4. Steps(lobby[l], M, Lost) /\ M.seen = lobby[l].seen  BY <1>2, CheckingSteps DEF OtherSeats
<1> HIDE DEF M
<1> QED  BY <1>1, <1>3, <1>4, LobbyOnly

(* A check returns. *)
LEMMA CheckedMoves ==
    ASSUME LobbiesFit, NEW l \in LobbyIds, NEW p \in Players, Checked(l, p)
    PROVE  StepFits
<1> DEFINE L == [lobby[l] EXCEPT !.seats[p].checking = FALSE]
<1>1. p \in Seated(lobby[l]) /\ Fits(lobby[l]) /\ UNCHANGED sock  BY LobbyFits DEF Checked
<1>2. PICK yes \in Answers(L, p) :
          lobby' = [lobby EXCEPT ![l] = IF yes THEN StartWait([L EXCEPT !.seats[p].staked = TRUE]) ELSE L]
  BY DEF Checked
<1> DEFINE M == IF yes THEN StartWait([L EXCEPT !.seats[p].staked = TRUE]) ELSE L
<1>3. Steps(lobby[l], L, Lost) /\ OtherSeats(lobby[l], L) /\ p \in Seated(L)
  BY <1>1, CheckingSteps
<1> HIDE DEF L
<1>4. Steps(lobby[l], M, Lost) /\ M.seen = lobby[l].seen
  <2>1. CASE yes
    <3>1. EntrySeen(L, p)  BY <2>1, YesOfAnEntry
    <3>2. Steps(L, M, Lost) /\ M.seen = L.seen  BY <1>3, <2>1, <3>1, StakedSteps DEF Steps
    <3> QED  BY <1>3, <3>2, StepsChain DEF OtherSeats
  <2>2. CASE ~yes  BY <1>3, <2>2 DEF OtherSeats
  <2> QED  BY <2>1, <2>2
<1>5. lobby' = [lobby EXCEPT ![l] = M]  BY <1>2
<1> HIDE DEF M
<1> QED  BY <1>1, <1>4, <1>5, LobbyOnly

(* So does one whose seat is gone. *)
LEMMA CheckedTooLateMoves ==
    ASSUME LobbiesFit, NEW l \in LobbyIds, NEW p \in Players, CheckedTooLate(l, p)
    PROVE  StepFits
<1> DEFINE L == [lobby[l] EXCEPT !.stale = @ \ {p}]
           M == IF p \in Seated(L) /\ EntrySeen(L, p) THEN StartWait(L) ELSE L
<1>1. Fits(lobby[l])  BY LobbyFits
<1>2. lobby' = [lobby EXCEPT ![l] = M] /\ UNCHANGED sock  BY DEF CheckedTooLate
<1>3. /\ SameSeats(lobby[l], L) /\ L.status = lobby[l].status /\ L.counting = lobby[l].counting
      /\ L.playing = lobby[l].playing /\ L.ranked = lobby[l].ranked /\ L \in LobbyType
  BY <1>1 DEF Fits, LobbyType, SameSeats
<1> HIDE DEF L
<1>4. Fits(L)  BY <1>1, <1>3, SeatsDecide DEF Fits, ClocksFit, SameSeats
<1>5. L.status # "ended" \/ lobby[l].status # "active"  BY <1>3
<1>6. Steps(lobby[l], L, Lost)  BY <1>3, <1>4, <1>5, SameStakes DEF MovesOn
<1>7. Steps(L, StartWait(L), Lost) /\ StartWait(L).seen = L.seen  BY <1>4, StartWaitSteps
<1>8. Steps(lobby[l], M, Lost) /\ M.seen = lobby[l].seen
  BY <1>3, <1>6, <1>7, StepsChain DEF SameSeats
<1> HIDE DEF M
<1> QED  BY <1>2, <1>8, LobbyOnly

(* A connection lost: one that has come as far as its seat leaves it. *)
LEMMA DisconnectMoves ==
    ASSUME LobbiesFit, NEW s \in Sockets, Disconnect(s)
    PROVE  StepFits
<1> DEFINE l == sock[s].lobby
           M == IF sock[s].pc \in {"entering", "in"} THEN Gone(lobby[l], s, Up \ {s}) ELSE lobby[l]
<1>1. sock[s] \in SockType /\ l \in LobbyIds /\ Fits(lobby[l])  BY LobbyFits DEF Disconnect
<1>2. /\ sock \in [Sockets -> SockType] /\ lobby \in [LobbyIds -> LobbyType]
      /\ sock' = [sock EXCEPT ![s].up = FALSE]
  BY DEF LobbiesFit, TypeOK, Disconnect
<1>3. \A c \in SockType : [c EXCEPT !.up = FALSE] \in SockType  BY DEF SockType
<1>4. sock' \in [Sockets -> SockType]  BY <1>2, <1>3
<1>5. ~sock'[s].up  BY <1>1, <1>2 DEF SockType
<1>6. \A q \in Sockets : At(q, "issuing")' => At(q, "issuing") /\ sock'[q].lobby = sock[q].lobby
  BY <1>2 DEF At, SockType
<1>7. s \in Lost  BY <1>5 DEF Lost
<1>8. Steps(lobby[l], M, Lost) /\ M.seen = lobby[l].seen  BY <1>1, <1>7, GoneSteps, StaysSteps
<1>9. lobby' = [lobby EXCEPT ![l] = M]
  <2>1. CASE sock[s].pc \in {"entering", "in"}  BY <2>1 DEF Disconnect
  <2>2. CASE sock[s].pc \notin {"entering", "in"}
    <3>1. lobby' = lobby  BY <2>2 DEF Disconnect
    <3> QED  BY <1>2, <2>2, <3>1
  <2> QED  BY <2>1, <2>2
<1> HIDE DEF M
<1> QED  BY <1>1, <1>4, <1>6, <1>8, <1>9, OneStep

-----------------------------------------------------------------------------
(* The timers. *)

(* The wait is over. *)
LEMMA WaitOverMoves ==
    ASSUME LobbiesFit, NEW l \in LobbyIds, WaitOver(l)
    PROVE  StepFits
<1>1. Fits(lobby[l]) /\ lobby[l].status = "waiting"  BY LobbyFits DEF WaitOver
<1>2. /\ Steps(lobby[l], BeginCountdown(lobby[l], Up), Lost)
      /\ BeginCountdown(lobby[l], Up).seen = lobby[l].seen
  BY <1>1, BeginCountdownSteps
<1>3. PICK out : sock' = [q \in Sockets |-> [sock[q] EXCEPT !.up = @ /\ q \notin out]]
  BY DEF WaitOver
<1>4. \A q \in Sockets : sock[q] \in SockType  BY LobbyFits
<1>5. \A q \in Sockets : sock'[q] \in SockType /\ sock'[q].pc = sock[q].pc /\ sock'[q].lobby = sock[q].lobby
  <2> TAKE q \in Sockets
  <2> DEFINE up == sock[q].up /\ q \notin out
  <2>1. up \in BOOLEAN  OBVIOUS
  <2>2. sock'[q] = [sock[q] EXCEPT !.up = up]  BY <1>3
  <2> HIDE DEF up
  <2> QED  BY <1>4, <2>1, <2>2 DEF SockType
<1>6. sock' \in [Sockets -> SockType]  BY <1>3, <1>5
<1>7. \A q \in Sockets : At(q, "issuing")' => At(q, "issuing") /\ sock'[q].lobby = sock[q].lobby
  BY <1>5 DEF At
<1>8. lobby' = [lobby EXCEPT ![l] = BeginCountdown(lobby[l], Up)]  BY DEF WaitOver
<1> QED  BY <1>2, <1>6, <1>7, <1>8, OneStep

(* The countdown is over: whoever is seated is staked. *)
LEMMA StartRoundMoves ==
    ASSUME LobbiesFit, NEW l \in LobbyIds, StartRound(l)
    PROVE  StepFits
<1> DEFINE L == lobby[l]
           M == [L EXCEPT !.counting = FALSE, !.status = "active", !.playing = TRUE]
<1>1. Fits(L) /\ L.counting  BY LobbyFits DEF StartRound
<1>2. L.status = "countdown"  BY <1>1 DEF Fits, ClocksFit
<1>3. lobby' = [lobby EXCEPT ![l] = M] /\ UNCHANGED sock  BY DEF StartRound
<1>4. /\ SameSeats(L, M) /\ M.status = "active" /\ ~M.counting /\ M \in LobbyType
  BY <1>1 DEF Fits, LobbyType, Statuses, SameSeats
<1> HIDE DEF M
<1>5. Fits(M)  BY <1>1, <1>4, SeatsDecide DEF Fits, ClocksFit, SameSeats
<1>6. Seated(M) = Seated(L) /\ Staked(M) = Staked(L)  BY <1>4, SeatsDecide DEF SameSeats
<1>7. StakesAreTrue(L) => StakesAreTrue(M)
  BY <1>1, <1>2, <1>4, <1>6 DEF StakesAreTrue, SameSeats
<1>8. Steps(L, M, Lost)
  BY <1>2, <1>4, <1>5, <1>6, <1>7 DEF Steps, MovesOn, RosterStays, StakesStay, SameSeats
<1> QED  BY <1>3, <1>4, <1>8, LobbyOnly DEF SameSeats

(* The round is over. *)
LEMMA TimeUpMoves ==
    ASSUME LobbiesFit, NEW l \in LobbyIds, TimeUp(l)
    PROVE  StepFits
<1> DEFINE M == EndRound([lobby[l] EXCEPT !.playing = FALSE])
<1>1. Fits(lobby[l]) /\ lobby[l].status = "active"  BY LobbyFits DEF TimeUp
<1>2. Steps(lobby[l], M, Lost) /\ SameSeats(lobby[l], M)  BY <1>1, EndRoundSteps
<1>3. lobby' = [lobby EXCEPT ![l] = M] /\ UNCHANGED sock  BY DEF TimeUp
<1> HIDE DEF M
<1> QED  BY <1>2, <1>3, LobbyOnly DEF SameSeats

(* A record that only loses a timer or its place in the map. *)
LEMMA QuietSteps ==
    ASSUME NEW L, Fits(L), NEW M, M \in {[L EXCEPT !.grace = FALSE], [L EXCEPT !.mapped = FALSE]}, NEW gone
    PROVE  Steps(L, M, gone) /\ M.seen = L.seen /\ M.status = L.status
<1>1. /\ SameSeats(L, M) /\ M.status = L.status /\ M.counting = L.counting
      /\ M.playing = L.playing /\ M \in LobbyType
  BY DEF Fits, LobbyType, SameSeats
<1>2. Fits(M)  BY <1>1, SeatsDecide DEF Fits, ClocksFit, SameSeats
<1>3. M.status # "ended" \/ L.status # "active"  BY <1>1
<1> QED  BY <1>1, <1>2, <1>3, SameStakes DEF MovesOn, SameSeats

(* The grace is over, the lobby is forgotten or cleaned away. *)
LEMMA QuietMoves ==
    ASSUME LobbiesFit, NEW l \in LobbyIds, GraceOver(l) \/ Forget(l) \/ Cleanup(l)
    PROVE  StepFits
<1>1. Fits(lobby[l])  BY LobbyFits
<1>2. CASE GraceOver(l)
  <2> DEFINE L == [lobby[l] EXCEPT !.grace = FALSE]
             M == IF L.mapped /\ L.status \notin {"active", "ended"} /\ Live(L, Up) = {}
                  THEN Abandon(L) ELSE L
  <2>1. lobby' = [lobby EXCEPT ![l] = M] /\ UNCHANGED sock  BY <1>2 DEF GraceOver
  <2>2. Steps(lobby[l], L, Lost) /\ L.seen = lobby[l].seen /\ L.status = lobby[l].status
    BY <1>1, QuietSteps
  <2> HIDE DEF L
  <2>3. Steps(L, Abandon(L), Lost) /\ SameSeats(L, Abandon(L))  BY <2>2, AbandonSteps DEF Steps
  <2>4. Steps(lobby[l], M, Lost) /\ M.seen = lobby[l].seen
    BY <2>2, <2>3, StepsChain DEF SameSeats
  <2> HIDE DEF M
  <2> QED  BY <2>1, <2>4, LobbyOnly
<1>3. CASE Forget(l) \/ Cleanup(l)
  <2> DEFINE M == [lobby[l] EXCEPT !.mapped = FALSE]
  <2>1. lobby' = [lobby EXCEPT ![l] = M] /\ UNCHANGED sock
    BY <1>3 DEF Forget, Cleanup, LobbiesFit, TypeOK
  <2>2. Steps(lobby[l], M, Lost) /\ M.seen = lobby[l].seen  BY <1>1, QuietSteps
  <2> HIDE DEF M
  <2> QED  BY <2>1, <2>2, LobbyOnly
<1> QED  BY <1>2, <1>3

-----------------------------------------------------------------------------
(* The worker and the chain. *)

(* A lobby that is not seen open holds no stakes, whatever is written of its round. *)
LEMMA ChainSteps ==
    ASSUME NEW L, Fits(L), NEW M, M \in LobbyType,
           M.seats = L.seats, M.departed = L.departed, M.entered = L.entered,
           M.status = L.status, M.counting = L.counting, M.playing = L.playing,
           L.seen = "open" => L.chain # "open",
           M.seen = "open" => M.chain = "open",
           NEW gone
    PROVE  Steps(L, M, gone)
<1>1. Seated(M) = Seated(L) /\ Staked(M) = Staked(L)  BY SeatsDecide
<1>2. Fits(M)  BY SeatsDecide DEF Fits, ClocksFit
<1>3. ASSUME StakesAreTrue(L)
      PROVE  Staked(L) = {} /\ ~L.counting /\ L.status # "active"
  BY <1>3 DEF StakesAreTrue
<1>4. StakesAreTrue(L) => StakesAreTrue(M)  BY <1>1, <1>3 DEF StakesAreTrue
<1>5. StakesAreTrue(L) => RosterStays(L, M) /\ StakesStay(L, M, gone)
  BY <1>3 DEF RosterStays, StakesStay
<1> QED  BY <1>2, <1>4, <1>5 DEF Steps, MovesOn

(* The worker writes what became of the round: it never takes an open one back. *)
LEMMA WorkerReportsMoves ==
    ASSUME LobbiesFit, NEW l \in LobbyIds, NEW status \in Reports, WorkerReports(l, status)
    PROVE  StepFits
<1> DEFINE L == lobby[l]
           M == [L EXCEPT !.chain = status]
<1>1. Fits(L) /\ L.chain # "open"  BY LobbyFits DEF WorkerReports
<1>2. lobby' = [lobby EXCEPT ![l] = M] /\ UNCHANGED sock  BY DEF WorkerReports
<1>3. status \in ChainStatuses  BY LobbyAssumption DEF LobbyAssumption, ChainStatuses
<1>4. /\ M \in LobbyType /\ M.seats = L.seats /\ M.departed = L.departed /\ M.entered = L.entered
      /\ M.status = L.status /\ M.counting = L.counting /\ M.playing = L.playing /\ M.seen = L.seen
  BY <1>1, <1>3 DEF Fits, LobbyType
<1> HIDE DEF M
<1>5. CASE L.seen # "open"
  <2>1. Steps(L, M, Lost)  BY <1>1, <1>4, <1>5, ChainSteps
  <2> QED  BY <1>2, <1>4, <2>1, LobbyOnly
<1>6. CASE L.seen = "open"
  <2>1. ~StakesAreTrue(L)  BY <1>1, <1>6 DEF StakesAreTrue
  <2>2. Fits(M)  BY <1>1, <1>4, SeatsDecide DEF Fits, ClocksFit
  <2>3. Steps(L, M, Lost)  BY <1>4, <2>1, <2>2 DEF Steps, MovesOn
  <2> QED  BY <1>2, <1>4, <2>3, LobbyOnly
<1> QED  BY <1>5, <1>6

(* The poll sees what the worker wrote, in a lobby whose round is not just being issued. *)
LEMMA WatchMoves ==
    ASSUME LobbiesFit, NEW l \in LobbyIds, Watch(l)
    PROVE  StepFits
<1> DEFINE L == lobby[l]
           M == [L EXCEPT !.seen = lobby[l].chain, !.watching = FALSE]
<1>1. Fits(L) /\ L.chain # L.seen /\ (SlowInserts \/ ~InFlight(l))  BY LobbyFits DEF Watch
<1>2. lobby' = [lobby EXCEPT ![l] = M] /\ UNCHANGED sock  BY DEF Watch
<1>3. /\ M \in LobbyType /\ M.seats = L.seats /\ M.departed = L.departed /\ M.entered = L.entered
      /\ M.status = L.status /\ M.counting = L.counting /\ M.playing = L.playing
      /\ M.seen = L.chain /\ M.chain = L.chain
  BY <1>1 DEF Fits, LobbyType
<1> HIDE DEF M
<1>4. Steps(L, M, Lost)  BY <1>1, <1>3, ChainSteps
<1>5. lobby \in [LobbyIds -> LobbyType] /\ sock' \in [Sockets -> SockType]
  BY <1>2 DEF LobbiesFit, TypeOK
<1>6. Honest => NoneEarly'
  <2> SUFFICES ASSUME Honest, NEW s \in Sockets, At(s, "issuing")'
               PROVE  lobby'[sock'[s].lobby].seen # "open"
    BY DEF NoneEarly
  <2>1. At(s, "issuing") /\ sock'[s].lobby = sock[s].lobby  BY <1>2 DEF At
  <2>2. sock[s].lobby # l  BY <1>1, <2>1 DEF InFlight, Honest
  <2>3. lobby'[sock[s].lobby] = lobby[sock[s].lobby]
    <3>1. sock[s].lobby \in LobbyIds  BY <2>1, LobbyFits DEF At
    <3> QED  BY <1>2, <1>5, <2>2, <3>1
  <2> QED  BY <2>1, <2>3 DEF Honest, StakesFit, NoneEarly
<1> QED  BY <1>2, <1>4, <1>5, <1>6, OneLobby DEF Steps

(* A player enters on chain. *)
LEMMA EnterOnChainMoves ==
    ASSUME LobbiesFit, NEW l \in LobbyIds, NEW p \in Players, EnterOnChain(l, p)
    PROVE  StepFits
<1> DEFINE L == lobby[l]
           entered == L.entered \cup {p}
           M == [L EXCEPT !.entered = entered]
<1>1. Fits(L)  BY LobbyFits
<1>2. lobby' = [lobby EXCEPT ![l] = M] /\ UNCHANGED sock  BY DEF EnterOnChain
<1>3. entered \in SUBSET Players /\ L.entered \subseteq entered  BY <1>1 DEF Fits, LobbyType
<1> HIDE DEF entered
<1>4. /\ M \in LobbyType /\ M.seats = L.seats /\ M.departed = L.departed /\ M.entered = entered
      /\ M.status = L.status /\ M.counting = L.counting /\ M.playing = L.playing
      /\ M.seen = L.seen /\ M.chain = L.chain
  BY <1>1, <1>3 DEF Fits, LobbyType
<1> HIDE DEF M
<1>5. Seated(M) = Seated(L) /\ Staked(M) = Staked(L)  BY <1>4, SeatsDecide
<1>6. Fits(M)  BY <1>1, <1>4, SeatsDecide DEF Fits, ClocksFit
<1>7. StakesAreTrue(L) => StakesAreTrue(M)  BY <1>3, <1>4, <1>5 DEF StakesAreTrue
<1>8. StakesAreTrue(L) => RosterStays(L, M)
  BY <1>4, <1>5 DEF StakesAreTrue, RosterStays, Roster
<1>9. StakesStay(L, M, Lost)  BY <1>4, <1>5 DEF StakesStay
<1>10. Steps(L, M, Lost)  BY <1>4, <1>6, <1>7, <1>8, <1>9 DEF Steps, MovesOn
<1> QED  BY <1>2, <1>4, <1>10, LobbyOnly

-----------------------------------------------------------------------------
(* The invariant and what it gives. *)

(* Every step is one of these. *)
LEMMA NextMoves ==
    ASSUME LobbiesFit, Next
    PROVE  StepFits
<1>1. CASE \E s \in Sockets : SocketNext(s)
  BY <1>1, ReclaimMoves, JoinFreshMoves, IssuedMoves, ArrivedMoves, SubmitMoves, DisconnectMoves
     DEF SocketNext
<1>2. CASE \E l \in LobbyIds : TimerNext(l)
  BY <1>2, WaitOverMoves, StartRoundMoves, TimeUpMoves, QuietMoves DEF TimerNext
<1>3. CASE \E l \in LobbyIds : ChainNext(l)
  BY <1>3, WatchMoves, WorkerReportsMoves, EnterOnChainMoves DEF ChainNext
<1>4. CASE \E l \in LobbyIds, p \in Players : Checked(l, p) \/ CheckedTooLate(l, p)
  BY <1>4, CheckedMoves, CheckedTooLateMoves
<1> QED  BY <1>1, <1>2, <1>3, <1>4 DEF Next

(* A step keeps what it needs. *)
LEMMA FitsStays ==
    ASSUME LobbiesFit, [Next]_vars
    PROVE  LobbiesFit'
<1>1. CASE Next
  <2>1. StepFits  BY <1>1, NextMoves
  <2>2. \A l \in LobbyIds : Fits(lobby'[l])  BY <2>1 DEF StepFits, Moves
  <2> QED  BY <2>1, <2>2 DEF StepFits, LobbiesFit, TypeOK, Fits
<1>2. CASE UNCHANGED vars  BY <1>2 DEF vars, LobbiesFit, TypeOK
<1> QED  BY <1>1, <1>2

(* And, when no INSERT outlasts the steps around it, what the stakes need. *)
LEMMA StakesStayTrue ==
    ASSUME LobbiesFit, Honest, [Next]_vars
    PROVE  StakesFit'
<1>1. CASE Next
  <2>1. StepFits  BY <1>1, NextMoves
  <2>2. \A l \in LobbyIds : StakesAreTrue(lobby'[l])
    BY <2>1 DEF StepFits, Moves, Steps, Honest, StakesFit
  <2> QED  BY <2>1, <2>2 DEF StepFits, StakesFit
<1>2. CASE UNCHANGED vars
  <2>1. lobby' = lobby /\ sock' = sock  BY <1>2 DEF vars
  <2>2. NoneEarly'  BY <2>1 DEF Honest, StakesFit, NoneEarly, At
  <2> QED  BY <2>1, <2>2 DEF Honest, StakesFit
<1> QED  BY <1>1, <1>2

(* Nobody has joined. *)
LEMMA InitFits ==
    ASSUME Init
    PROVE  LobbiesFit /\ StakesFit
<1>1. Unborn.seats \in SeatMaps /\ Seated(Unborn) = {}
  <2>1. << >> \in [{} -> SeatType] /\ DOMAIN << >> = {}  OBVIOUS
  <2>2. << >> \in SeatMaps  BY <2>1, SeatsIn
  <2> QED  BY <2>1, <2>2 DEF Unborn, Seated
<1>2. Staked(Unborn) = {}  BY <1>1 DEF Staked
<1>3. Fits(Unborn)
  BY <1>1 DEF Fits, Unborn, LobbyType, Statuses, ChainStatuses, AwayIsStaked, ClocksFit
<1>4. StakesAreTrue(Unborn)
  <2>1. Unborn.departed = {} /\ Unborn.seen = "none" /\ ~Unborn.counting /\ Unborn.status = "unborn"
    BY DEF Unborn
  <2> QED  BY <1>2, <2>1 DEF StakesAreTrue
<1>5. \A l \in LobbyIds : lobby[l] = Unborn  BY DEF Init
<1>6. lobby \in [LobbyIds -> LobbyType]  BY <1>3 DEF Init, Fits
<1>7. sock \in [Sockets -> SockType]
  BY LobbyAssumption DEF Init, SockType, LobbyAssumption
<1>8. NoneEarly  BY DEF Init, NoneEarly, At
<1> QED  BY <1>3, <1>4, <1>5, <1>6, <1>7, <1>8 DEF LobbiesFit, StakesFit, TypeOK, Fits

(* Types, and no clock of another phase. *)
THEOREM LobbyInv == Spec => []LobbiesFit
<1>1. Init => LobbiesFit  BY InitFits
<1>2. LobbiesFit /\ [Next]_vars => LobbiesFit'  BY FitsStays
<1> QED  BY <1>1, <1>2, PTL DEF Spec

(* TypeOK, whatever the INSERTs and the worker do. *)
THEOREM LobbyTypeCorrect == Spec => []TypeOK
<1>1. LobbiesFit => TypeOK  BY DEF LobbiesFit
<1> QED  BY <1>1, LobbyInv, PTL

(* PhasesInOrder, whatever the INSERTs and the worker do: a lobby goes through its     *)
(* phases once and in order, and no clock of an earlier one is left running.         *)
THEOREM PhasesAreInOrder == Spec => PhasesInOrder
<1> DEFINE InOrder(l) ==
        /\ Phase[lobby'[l].status] \in {Phase[lobby[l].status], Phase[lobby[l].status] + 1}
        /\ lobby'[l].counting => Phase[lobby'[l].status] = 2
        /\ lobby'[l].playing => Phase[lobby'[l].status] = 3
<1>1. ASSUME LobbiesFit, Next, NEW l \in LobbyIds
      PROVE  InOrder(l)
  <2>1. Fits(lobby'[l]) /\ MovesOn(lobby[l], lobby'[l])
    BY <1>1, NextMoves DEF StepFits, Moves
  <2>2. lobby[l].status \in Statuses /\ lobby'[l].status \in Statuses
    BY <1>1, <2>1, LobbyFits DEF Fits, LobbyType
  <2>3. /\ Phase["unborn"] = 0 /\ Phase["waiting"] = 1 /\ Phase["countdown"] = 2
        /\ Phase["active"] = 3 /\ Phase["ended"] = 4
    BY DEF Phase, Statuses
  <2> QED  BY <2>1, <2>2, <2>3 DEF MovesOn, Fits, ClocksFit, Statuses
<1>2. LobbiesFit /\ [Next]_vars => [\A l \in LobbyIds : InOrder(l)]_vars
  BY <1>1
<1>3. [][\A l \in LobbyIds : InOrder(l)]_vars => PhasesInOrder
  BY PTL DEF PhasesInOrder
<1> QED  BY <1>2, <1>3, LobbyInv, PTL DEF Spec

(* What the stakes need, when no INSERT outlasts the steps around it. *)
THEOREM StakesInv ==
    ASSUME ~SlowInserts
    PROVE  Spec => [](LobbiesFit /\ StakesFit)
<1>1. Init => LobbiesFit /\ StakesFit  BY InitFits
<1>2. LobbiesFit /\ StakesFit /\ [Next]_vars => (LobbiesFit /\ StakesFit)'
  BY FitsStays, StakesStayTrue DEF Honest
<1> QED  BY <1>1, <1>2, PTL DEF Spec

(* OnlyEntrantsPlay: a seat is staked only by an entry of this round, and whoever      *)
(* plays a live round is staked.                                                   *)
THEOREM EntrantsPlay ==
    ASSUME ~SlowInserts
    PROVE  Spec => []OnlyEntrantsPlay
<1>1. StakesFit => OnlyEntrantsPlay  BY DEF StakesFit, StakesAreTrue, OnlyEntrantsPlay
<1> QED  BY <1>1, StakesInv, PTL

(* EveryoneIsRanked: nobody is lost from a live round or counted twice in it.        *)
THEOREM EveryPlayerIsRanked ==
    ASSUME ~SlowInserts
    PROVE  Spec => EveryoneIsRanked
<1>1. ASSUME LobbiesFit, StakesFit, Next, NEW l \in LobbyIds
      PROVE  RosterStays(lobby[l], lobby'[l])
  BY <1>1, NextMoves DEF StepFits, Moves, Steps, Honest, StakesFit
<1>2. LobbiesFit /\ StakesFit /\ [Next]_vars =>
        [\A l \in LobbyIds : RosterStays(lobby[l], lobby'[l])]_vars
  BY <1>1
<1>3. [][\A l \in LobbyIds : RosterStays(lobby[l], lobby'[l])]_vars => EveryoneIsRanked
  <2>1. (\A l \in LobbyIds : RosterStays(lobby[l], lobby'[l])) =>
          \A l \in LobbyIds : lobby[l].status = "active" =>
             LET roster == Seated(lobby[l]) \cup lobby[l].departed IN
             /\ Seated(lobby[l]) \cap lobby[l].departed = {}
             /\ IF lobby'[l].status = "ended" THEN lobby'[l].ranked = roster
                ELSE Seated(lobby'[l]) \cup lobby'[l].departed = roster
    BY DEF RosterStays, Roster
  <2> QED  BY <2>1, PTL DEF EveryoneIsRanked
<1> QED  BY <1>2, <1>3, StakesInv, PTL DEF Spec

(* StakedSeatSurvives: a stake stays where it is, with the connection that holds it,   *)
(* until the round starts or the connection goes.                                  *)
THEOREM StakesSurvive ==
    ASSUME ~SlowInserts
    PROVE  Spec => StakedSeatSurvives
<1> DEFINE Survives ==
        \A l \in LobbyIds : lobby[l].status \in {"waiting", "countdown"} =>
          \A p \in Staked(lobby[l]) :
             /\ p \in Staked(lobby'[l])
             /\ LET s == lobby[l].seats[p].sock IN
                s \in Up /\ sock'[s].up => lobby'[l].seats[p].sock = s
<1>1. ASSUME LobbiesFit, StakesFit, Next
      PROVE  Survives
  <2>1. \A l \in LobbyIds : StakesStay(lobby[l], lobby'[l], Lost)
    BY <1>1, NextMoves DEF StepFits, Moves, Steps, Honest, StakesFit
  <2>2. \A s : s \in Up /\ sock'[s].up => s \notin Lost  BY DEF Lost
  <2> QED  BY <2>1, <2>2 DEF StakesStay
<1>2. LobbiesFit /\ StakesFit /\ [Next]_vars => [Survives]_vars  BY <1>1
<1>3. [][Survives]_vars => StakedSeatSurvives  BY PTL DEF StakedSeatSurvives
<1> QED  BY <1>2, <1>3, StakesInv, PTL DEF Spec
===============================================================================
