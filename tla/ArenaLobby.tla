------------------------------ MODULE ArenaLobby ------------------------------
(***************************************************************************)
(* A stakeable lobby of server/src/ws/gameSocket.js, from the first           *)
(* quickmatch to the end of its round: who holds which seat, what happens to   *)
(* a seat whose connection goes away, and when a lobby starts, ends or is       *)
(* given up.  The server is one thread: a handler runs without interruption    *)
(* from one `await` to the next, and that is one action here; an event a        *)
(* handler raises itself (disconnecting another tab, kicking a seat) is part    *)
(* of its action.                                                              *)
(*                                                                             *)
(* Lobbies are records and a handler is written as the record it leaves.  The  *)
(* row of the lobby's round and what the chain says of that round are fields of *)
(* it: status of the row, chain_status, and who entered.  Bots fill the seats   *)
(* left at countdown and never leave; no decision here reads them.              *)
(***************************************************************************)
EXTENDS Integers, FiniteSets, Functions

CONSTANTS
    Sockets,        \* connections; each joins at most once
    Players,        \* wallet addresses
    Owner,          \* the address whose session a connection presents
    NoSocket,
    MaxPlayers,     \* MAX_PLAYERS
    MaxLobbies,     \* bound on lobbies created
    SlowInserts,    \* may the INSERT of issueRound outlast what others do meanwhile?
    Reports         \* what the worker may make of a row: of open, stalled and dead

ASSUME LobbyAssumption ==
    /\ NoSocket \notin Sockets
    /\ Owner \in [Sockets -> Players]
    /\ MaxPlayers \in Nat \ {0} /\ MaxLobbies \in Nat \ {0}
    /\ SlowInserts \in BOOLEAN
    /\ Reports \subseteq {"open", "stalled", "dead"}

LobbyIds == 1 .. MaxLobbies

VARIABLES
    lobby,  \* per lobby id, its record
    sock    \* per connection: up, where its quickmatch handler is, and its lobby

vars == <<lobby, sock>>

Unborn ==
    [status |-> "unborn", mapped |-> FALSE,  \* mapped: in the `lobbies` map
     seats |-> << >>,                        \* the players map: address to seat
     departed |-> {}, ranked |-> {},
     row |-> "none",                         \* rounds.status, as last asked for
     orphaned |-> FALSE, stranded |-> FALSE, \* was an open row replaced, one that somebody had entered?
     chain |-> "none", entered |-> {},       \* rounds.chain_status; the escrow's entered
     seen |-> "none",                        \* lobby.chainStatus
     watching |-> FALSE, leaked |-> FALSE,   \* chainWatch; an interval nobody holds any more
     waited |-> FALSE, ticking |-> FALSE,    \* waitStartedAt, waitTickInterval
     counting |-> FALSE, playing |-> FALSE,  \* countdownInterval, tickInterval
     grace |-> FALSE,                        \* graceTimer
     stale |-> {}]                           \* whose entry check holds a seat that is gone

Up == {s \in Sockets : sock[s].up}

Seated(L) == DOMAIN L.seats
Staked(L) == {p \in Seated(L) : L.seats[p].staked}
Away(L) == {p \in Staked(L) : L.seats[p].sock = NoSocket}
Live(L, up) == {p \in Seated(L) : L.seats[p].sock \in up}

-----------------------------------------------------------------------------
(* seats.js, and what the server does to a lobby. *)

SeatOnRejoin(status, alive) ==
    CASE status = "ended" -> "new"
      [] status = "active" -> IF alive THEN "refuse" ELSE "release"
      [] OTHER -> "reclaim"

SeatOnLeaveKeepAll(status, staked) ==  \* slip: every seat waits for its player
    IF status = "active" THEN "depart" ELSE IF status = "ended" THEN "drop" ELSE "keep"
SeatOnLeave(status, staked) ==
    CASE status = "active" -> "depart"
      [] staked /\ status \in {"waiting", "countdown"} -> "keep"
      [] OTHER -> "drop"

ClearTimers(L) ==
    [L EXCEPT !.ticking = FALSE, !.counting = FALSE, !.playing = FALSE,
              !.watching = FALSE, !.grace = FALSE]

(* The UPDATE spares a completed row; an ended lobby writes none. *)
Abandon(L) ==
    [ClearTimers(L) EXCEPT
        !.mapped = FALSE,
        !.row = IF @ = "lobby" /\ L.status # "ended" THEN "abandoned" ELSE @]

(* endRound and the UPDATE of saveResults, or its INSERT for a round without a row. *)
EndRoundLive(L) == [L EXCEPT !.status = "ended", !.ranked = Seated(L), !.row = "completed"]  \* slip
EndRound(L) ==
    [L EXCEPT !.status = "ended", !.ranked = Seated(L) \cup L.departed, !.row = "completed"]

Without(L, p) ==
    [L EXCEPT !.seats = Restrict(@, Seated(L) \ {p}),
              !.stale = IF L.seats[p].checking THEN @ \cup {p} ELSE @]

(* The end of leaveSeat, when no human is on a live socket any more. *)
Emptied(L) ==
    CASE L.status = "active" -> EndRound(ClearTimers(L))
      [] L.status # "active" /\ Away(L) # {} /\ ~L.grace -> [L EXCEPT !.grace = TRUE]
      [] L.status = "ended" /\ (Away(L) = {} \/ L.grace) -> L
      [] OTHER -> Abandon(L)

AfterLeave(L, up) == IF Live(L, up) = {} THEN Emptied(L) ELSE L

LeaveSeat(L, p, up) ==
    LET outcome == SeatOnLeave(L.status, L.seats[p].staked) IN
    AfterLeave(CASE outcome = "depart" -> [Without(L, p) EXCEPT !.departed = @ \cup {p}]
              [] outcome = "keep" -> [L EXCEPT !.seats[p].sock = NoSocket]
              [] outcome = "drop" -> Without(L, p),
            up)

(* The disconnect handler: only the socket that holds the seat leaves it. *)
HoldsAny(L, p, s) == p \in Seated(L)  \* slip
Holds(L, p, s) == p \in Seated(L) /\ L.seats[p].sock = s
Gone(L, s, up) == IF Holds(L, Owner[s], s) THEN LeaveSeat(L, Owner[s], up) ELSE L

StartWaitForTwo(L) ==  \* slip: the sandbox's two players
    IF L.waited \/ L.status # "waiting" \/ Cardinality(Staked(L)) < 2 THEN L
    ELSE [L EXCEPT !.waited = TRUE, !.ticking = TRUE]
StartWait(L) ==
    IF L.waited \/ L.status # "waiting" THEN L ELSE [L EXCEPT !.waited = TRUE, !.ticking = TRUE]

(* beginCountdown drops the seats without a stake: a connected one through its    *)
(* disconnect handler, the last of which may give the lobby up, a dead one from   *)
(* the map.  Whatever that did, the countdown goes on if a human seat is left.    *)
Unstaked(L, up) == Seated(L) \ Staked(L)

Keep(L, S) ==
    [L EXCEPT !.seats = Restrict(@, S),
              !.stale = @ \cup {p \in Seated(L) \ S : L.seats[p].checking}]

BeginCountdown(L, up) ==
    LET C == [L EXCEPT !.status = "countdown", !.ticking = FALSE]
        K == Keep(C, Seated(C) \ Unstaked(C, up))
        R == IF Live(C, up) \ Seated(K) # {} THEN AfterLeave(K, up) ELSE K
    IN IF Seated(R) = {} THEN Abandon(R) ELSE [R EXCEPT !.counting = TRUE]

DroppedBy(L, up) == {L.seats[p].sock : p \in Unstaked(L, up)} \cap up

FullAnyTime(L) == Cardinality(Seated(L)) >= MaxPlayers  \* slip: the status is not asked
Full(L) == Cardinality(Seated(L)) >= MaxPlayers /\ L.status = "waiting"

Seat(s) == [sock |-> s, staked |-> FALSE, checking |-> FALSE]

SetSeat(L, s) ==
    LET p == Owner[s] IN
    [L EXCEPT !.seats = [q \in Seated(L) \cup {p} |-> IF q = p THEN Seat(s) ELSE L.seats[q]],
              !.stale = IF p \in Seated(L) /\ L.seats[p].checking THEN @ \cup {p} ELSE @]

-----------------------------------------------------------------------------
(* Connections. *)

At(s, pc) == sock[s].pc = pc
Goto(s, pc, l) == sock' = [sock EXCEPT ![s] = [@ EXCEPT !.pc = pc, !.lobby = l]]

Alive(s, l) == lobby[l].seats[Owner[s]].sock \in Up \ {s}
Decision(s, l) == SeatOnRejoin(lobby[l].status, Alive(s, l))
Mine(s) == {l \in LobbyIds : lobby[l].mapped /\ Owner[s] \in Seated(lobby[l])}

(* The lobbies that settle the matter, of which the first in the order of creation does. *)
First(l, S) == l \in S /\ \A k \in S : l <= k
Deciding(s) == {l \in Mine(s) : Decision(s, l) \in {"reclaim", "refuse"}}

(* Seats of live rounds on dead connections depart on the way. *)
Released(s, until) ==
    [l \in LobbyIds |->
        IF l \in Mine(s) /\ l < until /\ Decision(s, l) = "release"
        THEN LeaveSeat(lobby[l], Owner[s], Up) ELSE lobby[l]]

(* The seat goes to this socket first; a live older one is then disconnected and *)
(* its handler finds the seat is no longer its own.                              *)
Reclaim(s) ==
    /\ sock[s].up /\ At(s, "new")
    /\ \E l \in LobbyIds :
          LET old == lobby[l].seats[Owner[s]].sock
              taken == [Released(s, l)[l] EXCEPT !.seats[Owner[s]].sock = s, !.grace = FALSE]
          IN /\ First(l, Deciding(s)) /\ Decision(s, l) = "reclaim"
             /\ lobby' = [Released(s, l) EXCEPT
                   ![l] = IF Alive(s, l) THEN Gone(taken, old, Up \ {old}) ELSE taken]
             /\ sock' = [q \in Sockets |->
                   CASE q = s -> [up |-> TRUE, pc |-> "in", lobby |-> l]
                     [] q = old /\ q # s -> [sock[q] EXCEPT !.up = FALSE]
                     [] OTHER -> sock[q]]

(* A fresh seat, in the first waiting lobby with room or else in a new one.  The  *)
(* lobby's round is issued first when it has none, and that awaits the INSERT.     *)
Open == {l \in LobbyIds :
            lobby[l].mapped /\ lobby[l].status = "waiting" /\ Cardinality(Seated(lobby[l])) < MaxPlayers}
NextId == {l \in LobbyIds : lobby[l].status = "unborn"}
Choice == IF Open # {} THEN Open ELSE NextId

JoinFresh(s) ==
    /\ sock[s].up /\ At(s, "new")
    /\ Deciding(s) = {}
    /\ \E l \in LobbyIds :
          LET after == Released(s, MaxLobbies + 1) IN
          /\ First(l, Choice)
          /\ \/ /\ lobby[l].seen = "none"
                /\ lobby' = [after EXCEPT ![l].status = "waiting", ![l].mapped = TRUE]
                /\ Goto(s, "issuing", l)
             \/ /\ lobby[l].seen # "none"
                /\ lobby' = [after EXCEPT ![l] = SetSeat(@, s)]
                /\ Goto(s, "entering", l)

(* issueLobbyRound once the INSERT has answered.  Without a row the round is dead on  *)
(* arrival.                                                                        *)
WithRound(L, written) ==
    [L EXCEPT !.orphaned = @ \/ L.row = "lobby",
              !.stranded = @ \/ (L.row = "lobby" /\ L.entered # {}),
              !.row = IF written THEN "lobby" ELSE "none",
              !.chain = IF written THEN "open_requested" ELSE "none",
              !.seen = IF written THEN "open_requested" ELSE "dead",
              !.entered = {},
              !.leaked = @ \/ (written /\ L.watching),
              !.watching = @ \/ written]

(* The rest of quickmatch up to its next await: the lobby found before the INSERT is   *)
(* used as it is now, whatever became of it.                                       *)
Issued(s) ==
    /\ At(s, "issuing")
    /\ LET l == sock[s].lobby IN
       /\ \E written \in IF SlowInserts THEN BOOLEAN ELSE {TRUE} :
             lobby' = [lobby EXCEPT ![l] = SetSeat(WithRound(@, written), s)]
       /\ Goto(s, "entering", l)

(* The chain is asked whether this address entered already; a failed call, or one *)
(* answered before the entry, says no.  Then a full lobby starts its countdown.    *)
EntrySeenAny(L, p) == L.seen = "open"  \* slip: the client's word
EntrySeen(L, p) == L.seen = "open" /\ p \in L.entered

(* Asked once at the join, or again and again up to a deadline (waitForEntry), with   *)
(* failed reads taken for a no: the answer is yes of an entry only, and may be no.   *)
Answers(L, p) == {FALSE} \cup {EntrySeen(L, p)}

Arrived(s) ==
    /\ At(s, "entering")
    /\ LET l == sock[s].lobby
           p == Owner[s]
       IN \E yes \in Answers(lobby[l], p) :
             LET L == IF yes /\ p \in Seated(lobby[l])
                      THEN StartWait([lobby[l] EXCEPT !.seats[p].staked = TRUE]) ELSE lobby[l]
                 out == IF Full(L) THEN DroppedBy(L, Up) ELSE {}
             IN /\ lobby' = [lobby EXCEPT ![l] = IF Full(L) THEN BeginCountdown(L, Up) ELSE L]
                /\ sock' = [q \in Sockets |->
                      [sock[q] EXCEPT !.up = @ /\ q \notin out, !.pc = IF q = s THEN "in" ELSE @]]

(* stake:submitted: one check at a time per seat, only once the round is seen open. *)
Submit(s) ==
    /\ sock[s].up /\ sock[s].pc \in {"entering", "in"}
    /\ LET l == sock[s].lobby
           p == Owner[s]
       IN /\ p \in Seated(lobby[l])
          /\ ~lobby[l].seats[p].staked /\ ~lobby[l].seats[p].checking
          /\ lobby[l].seen = "open"
          /\ lobby' = [lobby EXCEPT ![l].seats[p].checking = TRUE]
    /\ UNCHANGED sock

(* waitForEntry returns: the seat it was called for is marked, if the address still *)
(* has a seat; that seat may be another one by now.                                 *)
Checked(l, p) ==
    /\ p \in Seated(lobby[l]) /\ lobby[l].seats[p].checking
    /\ LET L == [lobby[l] EXCEPT !.seats[p].checking = FALSE] IN
       \E yes \in Answers(L, p) :
          lobby' = [lobby EXCEPT ![l] = IF yes THEN StartWait([L EXCEPT !.seats[p].staked = TRUE]) ELSE L]
    /\ UNCHANGED sock

CheckedTooLate(l, p) ==
    /\ p \in lobby[l].stale
    /\ LET L == [lobby[l] EXCEPT !.stale = @ \ {p}] IN
       lobby' = [lobby EXCEPT ![l] =
                    IF p \in Seated(L) /\ EntrySeen(L, p) THEN StartWait(L) ELSE L]
    /\ UNCHANGED sock

(* A connection that has not come as far as its seat leaves nothing, and one that  *)
(* never asked for a seat may as well stay.                                         *)
Disconnect(s) ==
    /\ sock[s].up /\ ~At(s, "new")
    /\ sock' = [sock EXCEPT ![s].up = FALSE]
    /\ lobby' = IF sock[s].pc \in {"entering", "in"}
                THEN [lobby EXCEPT ![sock[s].lobby] = Gone(@, s, Up \ {s})] ELSE lobby

-----------------------------------------------------------------------------
(* Timers of a lobby. *)

WaitOver(l) ==
    /\ lobby[l].ticking /\ lobby[l].status = "waiting"
    /\ LET out == DroppedBy(lobby[l], Up) IN
       /\ lobby' = [lobby EXCEPT ![l] = BeginCountdown(@, Up)]
       /\ sock' = [q \in Sockets |-> [sock[q] EXCEPT !.up = @ /\ q \notin out]]

StartRound(l) ==
    /\ lobby[l].counting
    /\ lobby' = [lobby EXCEPT ![l] = [@ EXCEPT !.counting = FALSE, !.status = "active", !.playing = TRUE]]
    /\ UNCHANGED sock

TimeUp(l) ==
    /\ lobby[l].playing /\ lobby[l].status = "active"
    /\ lobby' = [lobby EXCEPT ![l] = EndRound([@ EXCEPT !.playing = FALSE])]
    /\ UNCHANGED sock

GraceOver(l) ==
    /\ lobby[l].grace
    /\ LET L == [lobby[l] EXCEPT !.grace = FALSE] IN
       lobby' = [lobby EXCEPT ![l] =
           IF L.mapped /\ L.status \notin {"active", "ended"} /\ Live(L, Up) = {} THEN Abandon(L) ELSE L]
    /\ UNCHANGED sock

(* Thirty seconds after a round the lobby goes. *)
Forget(l) ==
    /\ lobby[l].mapped /\ lobby[l].status = "ended"
    /\ lobby' = [lobby EXCEPT ![l].mapped = FALSE]
    /\ UNCHANGED sock

(* The cleanup interval deletes an empty waiting lobby that is two minutes old: *)
(* one whose first INSERT has taken as long.                                    *)
Cleanup(l) ==
    /\ SlowInserts
    /\ lobby[l].mapped /\ lobby[l].status = "waiting" /\ Seated(lobby[l]) = {}
    /\ lobby' = [lobby EXCEPT ![l].mapped = FALSE]
    /\ UNCHANGED sock

-----------------------------------------------------------------------------
(* The worker and the chain. *)

InFlight(l) == \E s \in Sockets : At(s, "issuing") /\ sock[s].lobby = l

WorkerReports(l, status) ==
    /\ lobby[l].chain \in {"open_requested", "stalled"} \ {status}
    /\ lobby' = [lobby EXCEPT ![l].chain = status]
    /\ UNCHANGED sock

(* The two second poll; every interval that was started reads the current round,  *)
(* and clears the one the lobby holds.                                             *)
Watch(l) ==
    /\ lobby[l].watching \/ lobby[l].leaked
    /\ SlowInserts \/ ~InFlight(l)
    /\ lobby[l].chain \in {"open", "stalled", "dead"} \ {lobby[l].seen}
    /\ lobby' = [lobby EXCEPT ![l] = [@ EXCEPT !.seen = lobby[l].chain, !.watching = FALSE]]
    /\ UNCHANGED sock

EnterOnChain(l, p) ==
    /\ lobby[l].chain = "open"
    /\ p \notin lobby[l].entered
    /\ lobby' = [lobby EXCEPT ![l].entered = @ \cup {p}]
    /\ UNCHANGED sock

-----------------------------------------------------------------------------
Init ==
    /\ lobby = [l \in LobbyIds |-> Unborn]
    /\ sock = [s \in Sockets |-> [up |-> TRUE, pc |-> "new", lobby |-> 0]]

SocketNext(s) ==
    \/ Reclaim(s) \/ JoinFresh(s) \/ Issued(s) \/ Arrived(s)
    \/ Submit(s) \/ Disconnect(s)

TimerNext(l) == WaitOver(l) \/ StartRound(l) \/ TimeUp(l) \/ GraceOver(l) \/ Forget(l) \/ Cleanup(l)

ChainNext(l) ==
    \/ Watch(l)
    \/ \E status \in Reports : WorkerReports(l, status)
    \/ \E p \in Players : EnterOnChain(l, p)

Next ==
    \/ \E s \in Sockets : SocketNext(s)
    \/ \E l \in LobbyIds : TimerNext(l) \/ ChainNext(l)
    \/ \E l \in LobbyIds, p \in Players : Checked(l, p) \/ CheckedTooLate(l, p)

Spec == Init /\ [][Next]_vars

(* Timers of a live process fire: while some timer of a lobby is set, one of them   *)
(* comes to its end.                                                                *)
TimerEnds(l) == WaitOver(l) \/ StartRound(l) \/ TimeUp(l) \/ GraceOver(l)

Fairness == \A l \in LobbyIds : WF_vars(TimerEnds(l))

FairSpec == Spec /\ Fairness
-----------------------------------------------------------------------------
(* Invariants. *)

Statuses == {"unborn", "waiting", "countdown", "active", "ended"}
SeatType == [sock : Sockets \cup {NoSocket}, staked : BOOLEAN, checking : BOOLEAN]

ChainStatuses == {"none", "open_requested", "open", "stalled", "dead"}
SeatMaps == UNION {[S -> SeatType] : S \in SUBSET Players}

LobbyType ==
    [status : Statuses, mapped : BOOLEAN, seats : SeatMaps,
     departed : SUBSET Players, ranked : SUBSET Players, stale : SUBSET Players,
     row : {"none", "lobby", "abandoned", "completed"}, orphaned : BOOLEAN, stranded : BOOLEAN,
     chain : ChainStatuses, entered : SUBSET Players, seen : ChainStatuses,
     watching : BOOLEAN, leaked : BOOLEAN, waited : BOOLEAN, ticking : BOOLEAN,
     counting : BOOLEAN, playing : BOOLEAN, grace : BOOLEAN]

SockType ==
    {c \in [up : BOOLEAN, pc : {"new", "issuing", "entering", "in"}, lobby : 0 .. MaxLobbies] :
        c.pc # "new" => c.lobby # 0}

AwayIsStaked(L) == \A p \in Seated(L) : L.seats[p].sock = NoSocket => L.seats[p].staked

(* The types; a seat without a connection is one that leaveSeat kept, and it keeps    *)
(* only staked ones.                                                              *)
TypeOK ==
    /\ lobby \in [LobbyIds -> LobbyType]
    /\ sock \in [Sockets -> SockType]
    /\ \A l \in LobbyIds : AwayIsStaked(lobby[l])

(* gameSocket.js:524 "the seat is staked when the chain says this address entered  *)
(* this round, and not before": never by the client's word, nor for the round a    *)
(* lobby had before; and docs/phase4-wire.md:125 "an unstaked human is never in a    *)
(* staked round", so whoever plays did enter.                                     *)
OnlyEntrantsPlay ==
    \A l \in LobbyIds :
        /\ Staked(lobby[l]) \subseteq lobby[l].entered
        /\ lobby[l].status = "active" => Seated(lobby[l]) = Staked(lobby[l])

(* gameSocket.js:388 "One seat per address across live lobbies", through reloads,  *)
(* second tabs and joins that overlap.                                             *)
OneSeatPerAddress ==
    \A p \in Players :
        Cardinality({l \in LobbyIds : lobby[l].mapped /\ lobby[l].status # "ended"
                                       /\ p \in Seated(lobby[l])}) <= 1

(* gameSocket.js:196 "A stakeable lobby is a round from birth": one round, so no    *)
(* row is issued that no lobby will ever close.                                    *)
NoOrphanRows == \A l \in LobbyIds : ~lobby[l].orphaned

(* gameSocket.js:113 "Close a lobby that never started": a lobby whose row has been *)
(* abandoned does not go on to play its round.                                     *)
AbandonedNeverPlays == \A l \in LobbyIds : lobby[l].row = "abandoned" => lobby[l].status # "active"

-----------------------------------------------------------------------------
(* Action and liveness properties. *)

Phase == [status \in Statuses |->
    CASE status = "unborn" -> 0 [] status = "waiting" -> 1 [] status = "countdown" -> 2
      [] status = "active" -> 3 [] OTHER -> 4]

(* A lobby goes through its phases once and in order, whoever starts them: the wait  *)
(* clock and a full lobby both begin the countdown (gameSocket.js:245 and :513), the  *)
(* clock and the last human's leaving both end the round, and a handler that was     *)
(* awaiting the database or the chain comes back in a later phase.  No clock of an   *)
(* earlier phase is left running.                                                    *)
PhasesInOrder ==
    [][\A l \in LobbyIds :
          LET before == Phase[lobby[l].status]
              after == Phase[lobby'[l].status] IN
          /\ after \in {before, before + 1}
          /\ lobby'[l].counting => after = 2
          /\ lobby'[l].playing => after = 3]_vars

(* A live round forgets nobody and ranks nobody twice: whoever plays is in a seat   *)
(* or among the departed, never both, until the results name them all, whether the  *)
(* clock or the last human's leaving ends it.                                       *)
EveryoneIsRanked ==
    [][\A l \in LobbyIds : lobby[l].status = "active" =>
          LET roster == Seated(lobby[l]) \cup lobby[l].departed IN
          /\ Seated(lobby[l]) \cap lobby[l].departed = {}
          /\ IF lobby'[l].status = "ended" THEN lobby'[l].ranked = roster
             ELSE Seated(lobby'[l]) \cup lobby'[l].departed = roster]_vars

(* A staked seat of a lobby that has not started stays staked, and stays with the   *)
(* connection that holds it for as long as that is up: an older tab going away does *)
(* not take it (gameSocket.js:624).                                                 *)
StakedSeatSurvives ==
    [][\A l \in LobbyIds : lobby[l].status \in {"waiting", "countdown"} =>
          \A p \in Staked(lobby[l]) :
             /\ p \in Staked(lobby'[l])
             /\ LET s == lobby[l].seats[p].sock IN
                s \in Up /\ sock'[s].up => lobby'[l].seats[p].sock = s]_vars

(* A stake is in the open row of a lobby: who has entered it holds a staked seat.  An  *)
(* entered row that is replaced is stranded for good, so a row that is closed without  *)
(* that is the one the stake is in.                                                  *)
StakeIn(L) == L.row = "lobby" /\ Staked(L) \cap L.entered # {}
Closed(L) == L.row \in {"completed", "abandoned"}

(* gameSocket.js:168 "Money is on the table and nobody is here: wait, then give up":   *)
(* a lobby in the map that is not over closes the row a stake is in, played or         *)
(* abandoned, whether or not anybody stays or comes back; or else an INSERT that       *)
(* answers late puts another row in its place, as NoOrphanRows shows it may.           *)
StakedRoundCloses ==
    \A l \in LobbyIds :
        lobby[l].mapped /\ lobby[l].status # "ended" /\ StakeIn(lobby[l])
            ~> Closed(lobby[l]) \/ lobby[l].stranded

(* docs/phase4-wire.md:135 "a lobby that never starts is abandoned after two minutes    *)
(* with an ALERT": so is one that was given up before the stake, and no row that a      *)
(* stake is in stays open.                                                           *)
EveryStakedRowCloses ==
    \A l \in LobbyIds : StakeIn(lobby[l]) ~> Closed(lobby[l]) /\ ~lobby[l].stranded
=============================================================================
