------------------------------ MODULE Settlement ------------------------------
(***************************************************************************)
(* A stakeable round from birth to the end of its settlement, across the four *)
(* parts that share it: the game server that issues the row and writes the     *)
(* results (server/src/ws/gameSocket.js, server/src/game/rounds.js), the       *)
(* database rows, the settlement worker (services/settler) and the escrow.     *)
(* Every `await` of the code is a point where the other parts may run, so each *)
(* is the end of an action.                                                    *)
(*                                                                             *)
(* Of the escrow only what the worker reads and writes is kept: per round      *)
(* whether it is open and settled, who entered and who was placed.  Of the     *)
(* operator's mempool, the transactions at the next nonce: tx.js takes its     *)
(* nonce from the last mined transaction, so all it ever sent and not mined     *)
(* compete for one nonce and the one that mines drops the others.  Seats are    *)
(* humans; ranks are fixed when a round ends, so a placement is its player.     *)
(***************************************************************************)
EXTENDS Integers, Sequences, FiniteSets

CONSTANTS
    Players,
    MaxRounds,     \* bound on rows; rows are issued in the order of their ids
    MaxAttempts,   \* cfg.maxAttempts of services/settler/config.js
    PickLimit,     \* LIMIT of the worker's PICK query
    FaultKinds,    \* what may fail: of chain, db, server and worker
    MaxFaults      \* bound on failures of all kinds together

ASSUME SettlementAssumption ==
    /\ MaxRounds \in Nat \ {0} /\ MaxAttempts \in Nat \ {0} /\ PickLimit \in Nat \ {0}
    /\ FaultKinds \subseteq {"chain", "db", "server", "worker"} /\ MaxFaults \in Nat

Rounds == 1 .. MaxRounds

VARIABLES
    game,       \* what the game server's memory holds of each round
    seats,      \* who is in the results of each round, once it has ended
    rows,       \* table rounds
    results,    \* table round_results: the participants of each round
    payouts,    \* the participants whose payout_units is written
    chain,      \* the escrow's view of each round
    mempool,    \* the operator's transactions at the next nonce
    batch,      \* the rows PICK returned that are still to be processed
    job,        \* the worker's progress on one row
    budget      \* faults and crashes that may still happen

serverVars == <<game, seats>>
dbVars == <<rows, results, payouts>>
workerVars == <<batch, job>>
vars == <<serverVars, dbVars, chain, mempool, workerVars, budget>>

NoRecord == {"none"}
NoRow == [status |-> "none", chainStatus |-> "none", openTx |-> FALSE, attempts |-> 0, record |-> NoRecord]
Idle == [pc |-> "idle", round |-> 0, row |-> NoRow, placing |-> {}]

ClosedOrLive(row) == row.status # "none"  \* slip
Closed(row) == row.status \in {"completed", "abandoned"}

Spend(what) == what \in FaultKinds /\ budget > 0 /\ budget' = budget - 1

-----------------------------------------------------------------------------
(* The game server. *)

(* issueRound: the row is born with chain_status open_requested. *)
Issue(r) ==
    /\ game[r] = "unborn"
    /\ \A q \in 1 .. r - 1 : game[q] # "unborn"
    /\ game' = [game EXCEPT ![r] = "lobby"]
    /\ rows' = [rows EXCEPT ![r] = [NoRow EXCEPT !.status = "lobby", !.chainStatus = "open_requested"]]
    /\ UNCHANGED <<seats, results, payouts, chain, mempool, workerVars, budget>>

(* A round starts with the seats the chain said entered, at least one.  Whoever *)
(* entered and was not seen in time is not among them.                          *)
StartRound(r) ==
    /\ game[r] = "lobby"
    /\ \E staked \in (SUBSET chain[r].entered) \ {{}} : seats' = [seats EXCEPT ![r] = staked]
    /\ game' = [game EXCEPT ![r] = "active"]
    /\ UNCHANGED <<dbVars, chain, mempool, workerVars, budget>>

(* endRound ranks the seats, live and departed, and calls saveResults. *)
EndRound(r) ==
    /\ game[r] = "active"
    /\ game' = [game EXCEPT ![r] = "ending"]
    /\ UNCHANGED <<seats, dbVars, chain, mempool, workerVars, budget>>

AbandonLobby(r) ==
    /\ game[r] = "lobby"
    /\ game' = [game EXCEPT ![r] = "abandoning"]
    /\ UNCHANGED <<seats, dbVars, chain, mempool, workerVars, budget>>

WriteAbandoned(r) ==
    /\ game[r] = "abandoning"
    /\ game' = [game EXCEPT ![r] = "over"]
    /\ rows' = [rows EXCEPT ![r].status = IF @ = "completed" THEN @ ELSE "abandoned"]
    /\ UNCHANGED <<seats, results, payouts, chain, mempool, workerVars, budget>>

(* saveResults: first the row is completed, then each result is inserted. *)
WriteCompleted(r) ==
    /\ game[r] = "ending"
    /\ game' = [game EXCEPT ![r] = "saving"]
    /\ rows' = [rows EXCEPT ![r].status = "completed"]
    /\ UNCHANGED <<seats, results, payouts, chain, mempool, workerVars, budget>>

InsertResult(r, p) ==
    /\ game[r] = "saving"
    /\ p \in seats[r] \ results[r]
    /\ results' = [results EXCEPT ![r] = @ \cup {p}]
    /\ game' = [game EXCEPT ![r] = IF results'[r] = seats[r] THEN "over" ELSE "saving"]
    /\ UNCHANGED <<seats, rows, payouts, chain, mempool, workerVars, budget>>

(* A query of saveResults or abandonLobby rejects: the catch logs, and nothing *)
(* tries again.                                                                *)
ServerQueryFails(r) ==
    /\ game[r] \in {"ending", "saving", "abandoning"}
    /\ Spend("db")
    /\ game' = [game EXCEPT ![r] = "over"]
    /\ UNCHANGED <<seats, dbVars, chain, mempool, workerVars>>

(* Lobbies live in memory only. *)
ServerCrash ==
    /\ \E r \in Rounds : game[r] \notin {"unborn", "over"}
    /\ Spend("server")
    /\ game' = [r \in Rounds |-> IF game[r] = "unborn" THEN "unborn" ELSE "over"]
    /\ UNCHANGED <<seats, dbVars, chain, mempool, workerVars>>

-----------------------------------------------------------------------------
(* The escrow and the mempool. *)

Enter(p, r) ==
    /\ chain[r].open /\ ~chain[r].settled
    /\ p \notin chain[r].entered
    /\ chain' = [chain EXCEPT ![r].entered = @ \cup {p}]
    /\ UNCHANGED <<serverVars, dbVars, mempool, workerVars, budget>>

AcceptsAgain(tx) ==  \* slip: a settled round settles again
    \/ tx.kind = "open" /\ ~chain[tx.round].open
    \/ tx.kind = "settle" /\ chain[tx.round].open /\ tx.placing \subseteq chain[tx.round].entered
Accepts(tx) ==
    \/ tx.kind = "open" /\ ~chain[tx.round].open
    \/ /\ tx.kind = "settle" /\ chain[tx.round].open /\ ~chain[tx.round].settled
       /\ tx.placing \subseteq chain[tx.round].entered

Execute(tx) ==
    chain' = [chain EXCEPT ![tx.round] =
        IF tx.kind = "open" THEN [@ EXCEPT !.open = TRUE]
        ELSE [@ EXCEPT !.settled = TRUE, !.placed = tx.placing]]

(* The receipt the worker waits for is that of its own hashes. *)
AnyReceipt(tx, ok) == [job EXCEPT !.pc = IF @ = "waiting" /\ ok THEN "mined" ELSE @]  \* slip
Receipt(tx, ok) ==
    [job EXCEPT !.pc = IF tx.own /\ @ = "waiting" THEN (IF ok THEN "mined" ELSE "reverted") ELSE @]

Mine(tx) ==
    /\ tx \in mempool
    /\ mempool' = {}
    /\ \/ Accepts(tx) /\ Execute(tx) /\ job' = Receipt(tx, TRUE)
       \/ ~Accepts(tx) /\ UNCHANGED chain /\ job' = Receipt(tx, FALSE)
    /\ UNCHANGED <<serverVars, dbVars, batch, budget>>

(* The escrow refuses for a reason of its own: paused, a cap, the pool. *)
MineRefused(tx) ==
    /\ tx \in mempool
    /\ Spend("chain")
    /\ mempool' = {}
    /\ job' = Receipt(tx, FALSE)
    /\ UNCHANGED <<serverVars, dbVars, chain, batch>>

-----------------------------------------------------------------------------
(* The worker: PICK, then processRound on each row in turn. *)

PickedNotStalled(row) ==  \* slip
    row.chainStatus \in {"open_requested", "settling"} \/ (row.chainStatus = "open" /\ Closed(row))
PickedStatuses(row) ==
    \/ row.chainStatus \in {"open_requested", "settling", "stalled"}
    \/ row.chainStatus = "open" /\ Closed(row)

Picked == {r \in Rounds : PickedStatuses(rows[r])}

Firsts(S) == {r \in S : Cardinality({q \in S : q < r}) < PickLimit}

Pick ==
    /\ job = Idle /\ batch = {} /\ Picked # {}
    /\ batch' = {[round |-> r, row |-> rows[r]] : r \in Firsts(Picked)}
    /\ UNCHANGED <<serverVars, dbVars, chain, mempool, job, budget>>

OpenBranch(row) == row.chainStatus = "open_requested" \/ (row.chainStatus = "stalled" /\ ~row.openTx)
SettleBranch(row) == ~OpenBranch(row) /\ row.chainStatus \in {"open", "settling", "stalled"} /\ Closed(row)

(* The row is processed as PICK read it, however long ago that was. *)
Take ==
    /\ job = Idle
    /\ \E next \in batch :
          /\ \A other \in batch : next.round <= other.round
          /\ batch' = batch \ {next}
          /\ job' = IF OpenBranch(next.row) \/ SettleBranch(next.row)
                    THEN [pc |-> IF OpenBranch(next.row) THEN "readOpen" ELSE "readSettled",
                          round |-> next.round, row |-> next.row, placing |-> {}]
                    ELSE Idle
    /\ UNCHANGED <<serverVars, dbVars, chain, mempool, budget>>

Goto(pc) == job' = [job EXCEPT !.pc = pc]

(* The chain is asked before anything is sent. *)
ReadOpen ==
    /\ job.pc = "readOpen"
    /\ Goto(IF chain[job.round].open THEN "markOpen" ELSE "sendOpen")
    /\ UNCHANGED <<serverVars, dbVars, chain, mempool, batch, budget>>

MarkOpen ==
    /\ job.pc = "markOpen"
    /\ rows' = [rows EXCEPT ![job.round].chainStatus = "open"]
    /\ job' = Idle
    /\ UNCHANGED <<serverVars, results, payouts, chain, mempool, batch, budget>>

ReadSettled ==
    /\ job.pc = "readSettled"
    /\ Goto(IF chain[job.round].settled THEN "markSettled" ELSE "markSettling")
    /\ UNCHANGED <<serverVars, dbVars, chain, mempool, batch, budget>>

MarkSettled ==
    /\ job.pc = "markSettled"
    /\ rows' = [rows EXCEPT ![job.round].chainStatus = "settled"]
    /\ job' = Idle
    /\ UNCHANGED <<serverVars, results, payouts, chain, mempool, batch, budget>>

MarkSettling ==
    /\ job.pc = "markSettling"
    /\ rows' = [rows EXCEPT ![job.round].chainStatus = "settling"]
    /\ Goto("readResults")
    /\ UNCHANGED <<serverVars, results, payouts, chain, mempool, batch, budget>>

ReadEntrants ==  \* slip: the escrow's seats instead of the round's results
    /\ job.pc = "readResults"
    /\ job' = [job EXCEPT !.pc = "readEntered", !.placing = chain[job.round].entered]
    /\ UNCHANGED <<serverVars, dbVars, chain, mempool, batch, budget>>
ReadResults ==
    /\ job.pc = "readResults"
    /\ job' = [job EXCEPT !.pc = "readEntered", !.placing = results[job.round]]
    /\ UNCHANGED <<serverVars, dbVars, chain, mempool, batch, budget>>

(* buildPlacements keeps whom the chain says entered; the signer signs that.  *)
ReadEntered ==
    /\ job.pc = "readEntered"
    /\ job' = [job EXCEPT !.pc = "sendSettle", !.placing = @ \cap chain[job.round].entered]
    /\ UNCHANGED <<serverVars, dbVars, chain, mempool, batch, budget>>

(* A transaction the escrow would refuse now fails its gas estimate. *)
Send(kind) ==
    LET tx == [kind |-> kind, round |-> job.round, placing |-> job.placing, own |-> TRUE] IN
    /\ Accepts(tx)
    /\ mempool' = mempool \cup {tx}
    /\ Goto("waiting")
    /\ UNCHANGED <<serverVars, dbVars, chain, batch, budget>>

SendOpen == job.pc = "sendOpen" /\ Send("open")
SendSettle == job.pc = "sendSettle" /\ Send("settle")

RecordOpened ==
    /\ job.pc = "mined" /\ OpenBranch(job.row)
    /\ rows' = [rows EXCEPT ![job.round].chainStatus = "open", ![job.round].openTx = TRUE]
    /\ job' = Idle
    /\ UNCHANGED <<serverVars, results, payouts, chain, mempool, batch, budget>>

RecordSettled ==
    /\ job.pc = "mined" /\ SettleBranch(job.row)
    /\ rows' = [rows EXCEPT ![job.round].chainStatus = "settled", ![job.round].record = job.placing]
    /\ Goto("payouts")
    /\ UNCHANGED <<serverVars, results, payouts, chain, mempool, batch, budget>>

WritePayouts ==
    /\ job.pc = "payouts"
    /\ payouts' = [payouts EXCEPT ![job.round] = @ \cup job.placing]
    /\ job' = Idle
    /\ UNCHANGED <<serverVars, rows, results, chain, mempool, batch, budget>>

(* attempt(): what the catch writes, whatever was written since PICK. *)
AfterFailureRaw(error) == IF error = "revert" THEN "dead" ELSE error  \* slip
AfterFailureAfresh(error) == IF error = "revert" THEN "dead" ELSE "open_requested"  \* slip
AfterFailure(error) ==
    CASE error = "stall" -> "stalled"
      [] error = "revert" \/ job.row.attempts + 1 >= MaxAttempts -> "dead"
      [] OTHER -> job.row.chainStatus

Disowned == {[tx EXCEPT !.own = FALSE] : tx \in mempool}

Fail(error) ==
    /\ rows' = [rows EXCEPT ![job.round].chainStatus = AfterFailure(error), ![job.round].attempts = @ + 1]
    /\ mempool' = Disowned
    /\ job' = Idle
    /\ UNCHANGED <<serverVars, results, payouts, chain, batch>>

Reverted == job.pc = "reverted" /\ Fail("revert") /\ UNCHANGED budget

EstimateFails ==
    /\ \E kind \in {"open", "settle"} :
          /\ job.pc = IF kind = "open" THEN "sendOpen" ELSE "sendSettle"
          /\ ~Accepts([kind |-> kind, round |-> job.round, placing |-> job.placing])
    /\ Fail("error")
    /\ UNCHANGED budget

OwnInMempool == \E tx \in mempool : tx.own

(* The nonce went to another transaction of ours: nonce too low, or a deadline *)
(* that no receipt can meet.                                                    *)
Overtaken ==
    /\ job.pc = "waiting" /\ ~OwnInMempool
    /\ \E error \in {"error", "stall"} : Fail(error)
    /\ UNCHANGED budget

(* No receipt by the last deadline.  An RPC call that fails is an error like    *)
(* any other, also when it hides the receipt of a transaction that mined.       *)
Stall == job.pc = "waiting" /\ OwnInMempool /\ Spend("chain") /\ Fail("stall")

RpcFails ==
    /\ job.pc \in {"readOpen", "readSettled", "readEntered", "sendOpen", "sendSettle", "waiting", "mined"}
    /\ Spend("chain")
    /\ Fail("error")

(* A signature that recovers to another key, or a digest that differs. *)
BadSignature == job.pc = "sendSettle" /\ Spend("chain") /\ Fail("revert")

DbFails ==
    /\ job.pc \in {"markOpen", "markSettled", "markSettling", "readResults", "mined", "payouts"}
    /\ Spend("db")
    /\ Fail("error")

WorkerCrash ==
    /\ job # Idle \/ batch # {}
    /\ Spend("worker")
    /\ job' = Idle
    /\ batch' = {}
    /\ mempool' = Disowned
    /\ UNCHANGED <<serverVars, dbVars, chain>>

-----------------------------------------------------------------------------
Init ==
    /\ game = [r \in Rounds |-> "unborn"]
    /\ seats = [r \in Rounds |-> {}]
    /\ rows = [r \in Rounds |-> NoRow]
    /\ results = [r \in Rounds |-> {}]
    /\ payouts = [r \in Rounds |-> {}]
    /\ chain = [r \in Rounds |-> [open |-> FALSE, settled |-> FALSE, entered |-> {}, placed |-> {}]]
    /\ mempool = {}
    /\ batch = {}
    /\ job = Idle
    /\ budget = MaxFaults

SaveNext(r) == WriteAbandoned(r) \/ WriteCompleted(r) \/ (\E p \in Players : InsertResult(r, p))

ServerNext ==
    \/ \E r \in Rounds : Issue(r) \/ StartRound(r) \/ EndRound(r) \/ AbandonLobby(r)
    \/ \E r \in Rounds : SaveNext(r) \/ ServerQueryFails(r)
    \/ ServerCrash

WorkerStep ==
    \/ Pick \/ Take
    \/ ReadOpen \/ MarkOpen \/ SendOpen \/ RecordOpened
    \/ ReadSettled \/ MarkSettled \/ MarkSettling \/ ReadResults \/ ReadEntered
    \/ SendSettle \/ RecordSettled \/ WritePayouts
    \/ Reverted \/ EstimateFails \/ Overtaken

WorkerFault == Stall \/ RpcFails \/ BadSignature \/ DbFails \/ WorkerCrash

ChainNext ==
    \/ \E p \in Players, r \in Rounds : Enter(p, r)
    \/ \E tx \in mempool : Mine(tx) \/ MineRefused(tx)

Next == ServerNext \/ WorkerStep \/ WorkerFault \/ ChainNext

Spec == Init /\ [][Next]_vars

(* The worker's interval keeps firing and its awaits answer, and the chain mines  *)
(* what waits in the mempool.  The game server and the players owe nothing: no     *)
(* timer ends a lobby in which nobody stakes, and a lobby that is lost closes no   *)
(* row.                                                                          *)
Fairness ==
    /\ WF_vars(WorkerStep)
    /\ WF_vars(\E tx \in mempool : Mine(tx))

FairSpec == Spec /\ Fairness

-----------------------------------------------------------------------------
(* Invariants. *)

GameStates == {"unborn", "lobby", "active", "ending", "saving", "abandoning", "over"}
ChainStatuses == {"none", "open_requested", "open", "settling", "settled", "stalled", "dead"}
RowType ==
    [status : {"none", "lobby", "completed", "abandoned"}, chainStatus : ChainStatuses,
     openTx : BOOLEAN, attempts : Nat, record : (SUBSET Players) \cup {NoRecord}]
TxType == [kind : {"open", "settle"}, round : Rounds, placing : SUBSET Players, own : BOOLEAN]
ChainType == [open : BOOLEAN, settled : BOOLEAN, entered : SUBSET Players, placed : SUBSET Players]
OpenPcs == {"readOpen", "markOpen", "sendOpen", "waiting", "mined", "reverted"}
SettlePcs == {"readSettled", "markSettled", "markSettling", "readResults", "readEntered", "sendSettle",
              "waiting", "mined", "reverted", "payouts"}
JobType ==
    [pc : {"idle"} \cup OpenPcs \cup SettlePcs, round : 0 .. MaxRounds, row : RowType, placing : SUBSET Players]

(* The types, and with them the rule of schema.sql:75 on chain_status.          *)
TypeOK ==
    /\ game \in [Rounds -> GameStates]
    /\ seats \in [Rounds -> SUBSET Players]
    /\ rows \in [Rounds -> RowType]
    /\ results \in [Rounds -> SUBSET Players]
    /\ payouts \in [Rounds -> SUBSET Players]
    /\ chain \in [Rounds -> ChainType]
    /\ mempool \subseteq TxType
    /\ batch \subseteq [round : Rounds, row : RowType]
    /\ job \in JobType
    /\ budget \in 0 .. MaxFaults

(* The database never runs ahead of the chain: a row that says open, settling   *)
(* or settled names a round that is open, and settled one that is settled, in   *)
(* spite of replaced, late and reverted transactions (settle.js writes after     *)
(* the receipt).  Nor does the chain run ahead of the game: no round is settled,  *)
(* and no settlement is on its way, while its row is in the lobby or in play.     *)
ChainInStep ==
    \A r \in Rounds :
        /\ rows[r].openTx \/ rows[r].chainStatus \in {"open", "settling", "settled"} => chain[r].open
        /\ rows[r].chainStatus = "settled" => chain[r].settled
        /\ chain[r].settled \/ (\E tx \in mempool : tx.kind = "settle" /\ tx.round = r)
              => rows[r].status \in {"completed", "abandoned"}

(* The settlement record of a row, when there is one, is what the escrow did,    *)
(* and payout_units is written only for players it placed.                       *)
RecordIsTrue ==
    \A r \in Rounds :
        /\ rows[r].record # NoRecord => chain[r].settled /\ chain[r].placed = rows[r].record
        /\ payouts[r] \subseteq chain[r].placed

(* Whoever the escrow placed had a result in that round and had paid for it:     *)
(* also when the settlement that mined is an older one that was replaced.        *)
PlacedHadResults == \A r \in Rounds : chain[r].placed \subseteq results[r] \cap chain[r].entered

(* server/src/game/settlementRoster.js:9 "so their stake still settles by the    *)
(* score they had", docs/phase4-wire.md "a leader who crashed still gets paid":  *)
(* once a played round is settled, every seat of it is placed.                   *)
EverySeatIsPlaced ==
    \A r \in Rounds :
        chain[r].settled /\ rows[r].status = "completed" => seats[r] \subseteq chain[r].placed

-----------------------------------------------------------------------------
(* Action and liveness properties. *)

(* A dead letter stays one, and an opened round is never asked to open again,    *)
(* although a failure writes back the status PICK read.                          *)
NoWayBack ==
    [][\A r \in Rounds :
          /\ rows[r].chainStatus = "dead" => rows'[r].chainStatus = "dead"
          /\ rows[r].chainStatus \in {"open", "settling", "settled"} => rows'[r].chainStatus # "open_requested"]_vars

(* docs/phase4-wire.md:132 "the round is retried or dead lettered": a row that     *)
(* the game server has closed is settled or dead-lettered in the end, through       *)
(* stalls, replacements, reverts, failing queries and restarts of either process,  *)
(* and whatever rows that never close have a lower id.  A row that stays in the     *)
(* lobby is not the worker's, and of it nothing is promised.                     *)
ClosedRowsSettle ==
    \A r \in Rounds : Closed(rows[r]) ~> rows[r].chainStatus \in {"settled", "dead"}

-----------------------------------------------------------------------------
(* Refinement. *)

Phase ==
    [r \in Rounds |->
        IF chain[r].settled THEN "settled" ELSE IF chain[r].open THEN "open" ELSE "none"]

Ledger == INSTANCE RoundLedger WITH
    RoundIds <- Rounds, phase <- Phase,
    seated <- [r \in Rounds |-> chain[r].entered], placed <- [r \in Rounds |-> chain[r].placed],
    owed <- [p \in Players |-> 0], promised <- 0, pool <- 0

(* The chain this module gives the worker is one the contract may show it: with *)
(* money left out it takes the steps of the ledger ArenaEscrow implements,       *)
(* whichever of the competing transactions mines.                                *)
ChainIsLedger == Ledger!Spec
=============================================================================
