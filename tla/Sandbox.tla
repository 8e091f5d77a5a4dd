------------------------------- MODULE Sandbox -------------------------------
(***************************************************************************)
(* The free lobby of server/src/ws/gameSocket.js (mode sandbox-lbs of modes.js): *)
(* guests and wallets, a wait that two seats start, no stake, no bots.  Its        *)
(* round is issued at countdown, so the lobby lives across one INSERT and its        *)
(* seats may all go meanwhile.  The stakeable lobby, whose round is issued at its     *)
(* birth, is ArenaLobby; a handler is written here as it is there, as the record      *)
(* it leaves.                                                                     *)
(***************************************************************************)
EXTENDS Integers, FiniteSets, Functions

CONSTANTS
    Conns,      \* connections; each joins at most once
    Wallets,    \* addresses with a session
    IdOf,       \* whom a connection is seated as: an address, or a guest of its own
    HallMax,    \* MAX_PLAYERS
    HallMin,    \* MIN_PLAYERS
    MaxHalls    \* bound on lobbies created

Sitters == {IdOf[c] : c \in Conns}
Halls == 1 .. MaxHalls

ASSUME SandboxAssumption ==
    /\ Wallets \subseteq Sitters
    /\ \A c, d \in Conns : IdOf[c] = IdOf[d] => c = d \/ IdOf[c] \in Wallets
    /\ HallMax \in Nat \ {0} /\ HallMin \in 1 .. HallMax
    /\ MaxHalls \in Nat \ {0}

VARIABLES
    hall,   \* per lobby id, its record
    conn    \* per connection: "new", "in" or "gone", and its lobby

hallVars == <<hall, conn>>

NoHall ==
    [status |-> "unborn", mapped |-> FALSE, \* mapped: in the `lobbies` map
     holder |-> [i \in {} |-> i],           \* who is seated, and on which connection
     departed |-> {},                       \* who left a running round
     ticking |-> FALSE, waited |-> FALSE,   \* waitTickInterval, waitStartedAt
     issuing |-> FALSE,                     \* beginCountdown awaits the INSERT
     counting |-> FALSE, playing |-> FALSE, \* countdownInterval, tickInterval
     row |-> "none", ranked |-> {}]         \* rounds.status; round_results

Sitting(H) == DOMAIN H.holder

-----------------------------------------------------------------------------
(* What a handler makes of a lobby.  Where the row was not written when the lobby  *)
(* is given up there is nothing to close: roundId is still null.                 *)
GivenUpBeforeStart(H) ==  \* slip: the row of a running round is forgotten
    [H EXCEPT !.mapped = FALSE, !.ticking = FALSE, !.counting = FALSE, !.playing = FALSE,
              !.row = IF @ = "active" /\ H.status # "active" THEN "abandoned" ELSE @]
GivenUp(H) ==
    [H EXCEPT !.mapped = FALSE, !.ticking = FALSE, !.counting = FALSE, !.playing = FALSE,
              !.row = IF @ = "active" THEN "abandoned" ELSE @]

(* A seat of a running round is kept for the results, any other is dropped; the   *)
(* last one to go gives the lobby up, and every seat is on a live connection.       *)
Leaves(H, i) ==
    LET rest == [H EXCEPT !.holder = Restrict(@, Sitting(H) \ {i}),
                          !.departed = IF H.status = "active" THEN @ \cup {i} ELSE @]
    IN IF Sitting(rest) = {} /\ H.status # "ended" THEN GivenUp(rest) ELSE rest

Counts(H) == [H EXCEPT !.status = "countdown", !.ticking = FALSE, !.issuing = TRUE]
StartsWait(H) == IF H.waited \/ H.status # "waiting" THEN H ELSE [H EXCEPT !.waited = TRUE, !.ticking = TRUE]

Crowded(H) == Cardinality(Sitting(H)) >= HallMax /\ H.status = "waiting"
Enough(H) == Cardinality(Sitting(H)) >= HallMin

Takes(H, c) ==
    LET seated == [H EXCEPT !.holder = [i \in Sitting(H) \cup {IdOf[c]} |->
                                            IF i = IdOf[c] THEN c ELSE H.holder[i]]]
    IN IF Crowded(seated) THEN Counts(seated)
       ELSE IF Enough(seated) THEN StartsWait(seated) ELSE seated

-----------------------------------------------------------------------------
(* Connections.  A wallet that is seated already gets that seat back before the    *)
(* round, from its older connection, and is refused during it; a guest is new.      *)
SeatedIn(c) ==
    {l \in Halls : /\ IdOf[c] \in Wallets
                   /\ hall[l].mapped /\ hall[l].status # "ended"
                   /\ IdOf[c] \in Sitting(hall[l])}

(* The first one in the order of creation, which is that of the map. *)
First(l, S) == l \in S /\ \A k \in S : l <= k

TakeBack(c) ==
    /\ conn[c].at = "new"
    /\ \E l \in Halls :
          /\ First(l, SeatedIn(c))
          /\ hall[l].status # "active"
          /\ hall' = [hall EXCEPT ![l].holder[IdOf[c]] = c]
          /\ conn' = [conn EXCEPT ![c] = [at |-> "in", hall |-> l],
                                  ![hall[l].holder[IdOf[c]]].at = "gone"]

WithRoom == {l \in Halls : /\ hall[l].mapped /\ hall[l].status = "waiting"
                           /\ Cardinality(Sitting(hall[l])) < HallMax}
NextHall == {l \in Halls : hall[l].status = "unborn"}

SitDown(c) ==
    /\ conn[c].at = "new"
    /\ SeatedIn(c) = {}
    /\ \E l \in Halls :
          /\ First(l, IF WithRoom # {} THEN WithRoom ELSE NextHall)
          /\ hall' = [hall EXCEPT ![l] = Takes([@ EXCEPT !.status = "waiting", !.mapped = TRUE], c)]
          /\ conn' = [conn EXCEPT ![c] = [at |-> "in", hall |-> l]]

(* Only the connection that holds the seat leaves it. *)
HangUp(c) ==
    /\ conn[c].at = "in"
    /\ conn' = [conn EXCEPT ![c].at = "gone"]
    /\ LET l == conn[c].hall
           i == IdOf[c]
       IN hall' = IF i \in Sitting(hall[l]) /\ hall[l].holder[i] = c
                  THEN [hall EXCEPT ![l] = Leaves(@, i)] ELSE hall

-----------------------------------------------------------------------------
(* The timers of a lobby, and its one await.  The wait goes on when seats are      *)
(* given up again, so one seat may be enough at its end.                          *)
WaitEnds(l) ==
    /\ hall[l].ticking /\ hall[l].status = "waiting"
    /\ hall' = [hall EXCEPT ![l] = Counts(@)]
    /\ UNCHANGED conn

(* The INSERT answers or fails, and the countdown starts whatever the lobby has    *)
(* become: its seats are not asked again.                                       *)
CountdownStarts(l) ==
    /\ hall[l].issuing
    /\ \E row \in {"active", "none"} :
          hall' = [hall EXCEPT ![l] = [@ EXCEPT !.issuing = FALSE, !.counting = TRUE, !.row = row]]
    /\ UNCHANGED conn

RoundStarts(l) ==
    /\ hall[l].counting
    /\ hall' = [hall EXCEPT ![l] = [@ EXCEPT !.counting = FALSE, !.status = "active", !.playing = TRUE]]
    /\ UNCHANGED conn

(* The results are those seated and those departed; without a row, one is made. *)
RoundEnds(l) ==
    /\ hall[l].playing /\ hall[l].status = "active"
    /\ hall' = [hall EXCEPT ![l] = [@ EXCEPT !.playing = FALSE, !.status = "ended", !.row = "completed",
                                             !.ranked = Sitting(hall[l]) \cup hall[l].departed]]
    /\ UNCHANGED conn

Dissolves(l) ==
    /\ hall[l].mapped /\ hall[l].status = "ended"
    /\ hall' = [hall EXCEPT ![l].mapped = FALSE]
    /\ UNCHANGED conn

-----------------------------------------------------------------------------
SandboxInit ==
    /\ hall = [l \in Halls |-> NoHall]
    /\ conn = [c \in Conns |-> [at |-> "new", hall |-> 1]]

SandboxNext ==
    \/ \E c \in Conns : TakeBack(c) \/ SitDown(c) \/ HangUp(c)
    \/ \E l \in Halls : WaitEnds(l) \/ CountdownStarts(l) \/ RoundStarts(l) \/ RoundEnds(l) \/ Dissolves(l)

SandboxSpec == SandboxInit /\ [][SandboxNext]_hallVars

-----------------------------------------------------------------------------
Holders == UNION {[S -> Conns] : S \in SUBSET Sitters}

HallRecord ==
    [status : {"unborn", "waiting", "countdown", "active", "ended"}, mapped : BOOLEAN,
     holder : Holders, departed : SUBSET Sitters,
     ticking : BOOLEAN, waited : BOOLEAN, issuing : BOOLEAN, counting : BOOLEAN, playing : BOOLEAN,
     row : {"none", "active", "abandoned", "completed"}, ranked : SUBSET Sitters]

(* The type of every variable. *)
SandboxTypeOK ==
    /\ hall \in [Halls -> HallRecord]
    /\ conn \in [Conns -> [at : {"new", "in", "gone"}, hall : Halls]]

RowIsHeld(H) ==
    /\ H.row = "active" => H.counting \/ H.playing
    /\ H.row = "abandoned" => ~H.mapped /\ ~H.counting /\ ~H.playing /\ ~H.issuing /\ Sitting(H) = {}
    /\ H.row = "completed" => H.status = "ended"

(* A sandbox row left open has a timer that will close it, wherever the seats went  *)
(* and whether or not the lobby is still in the map; a row given up belongs to a      *)
(* lobby that nothing can bring to play, and a completed one to a round that ended    *)
(* (leaveSeat, abandonLobby, beginCountdown across its await, endRound).              *)
OpenRowIsHeld == \A l \in Halls : RowIsHeld(hall[l])

(* Which timers a status allows: what makes OpenRowIsHeld inductive. *)
TimersFit(H) ==
    /\ H.status \in {"unborn", "waiting"} => H.row = "none" /\ ~H.issuing
    /\ H.issuing => H.status = "countdown" /\ H.row = "none" /\ ~H.counting
    /\ H.counting => H.status = "countdown"
    /\ H.playing => H.status = "active"

HallFits(H) == H \in HallRecord /\ TimersFit(H) /\ RowIsHeld(H)

SandboxInductive == SandboxTypeOK /\ \A l \in Halls : HallFits(hall[l])
=============================================================================
