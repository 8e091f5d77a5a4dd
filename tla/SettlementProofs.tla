---------------------------- MODULE SettlementProofs ----------------------------
(***************************************************************************)
(* What holds of every settlement, for any players, rounds, retry budget, batch     *)
(* size and number of faults: the rows and the escrow stay in step, the record is    *)
(* what the escrow did, and whoever it placed played and paid.  The invariant says    *)
(* what the worker may still believe of what it read before its last await.         *)
(***************************************************************************)
EXTENDS Settlement, TLAPS

Working == job.pc # "idle"

(* The worker is on one of the two paths of processRound, that of the row it read. *)
JobOnPath ==
    Working =>
        /\ job.round \in Rounds
        /\ IF OpenBranch(job.row) THEN job.pc \in OpenPcs ELSE SettleBranch(job.row) /\ job.pc \in SettlePcs

(* What a row said when PICK read it is still so: an open round stays open, a       *)
(* closed row closed.                                                            *)
StillSo(row, r) ==
    /\ row.openTx \/ row.chainStatus \in {"open", "settling", "settled"} => chain[r].open
    /\ Closed(row) => Closed(rows[r])

(* Nobody but the worker moves the chain_status of the row it works on. *)
JobIsFresh ==
    Working =>
        /\ StillSo(job.row, job.round)
        /\ IF OpenBranch(job.row) THEN rows[job.round].chainStatus = job.row.chainStatus
           ELSE rows[job.round].chainStatus \in {"open", "settling", "stalled", "settled"}

(* A receipt or a read that the worker acts on is still true when it writes. *)
JobSaw ==
    /\ job.pc = "markOpen" \/ (job.pc = "mined" /\ OpenBranch(job.row)) => chain[job.round].open
    /\ job.pc = "markSettled" => chain[job.round].settled
    /\ job.pc = "payouts" \/ (job.pc = "mined" /\ ~OpenBranch(job.row)) =>
          chain[job.round].settled /\ chain[job.round].placed = job.placing
    /\ Working => job.placing \subseteq results[job.round]

(* The rest of the batch waits as PICK read it, one row per round. *)
BatchIsFresh ==
    \A b \in batch :
        /\ PickedStatuses(b.row) /\ rows[b.round].chainStatus = b.row.chainStatus
        /\ StillSo(b.row, b.round)
        /\ Working => b.round # job.round
        /\ \A c \in batch : c.round = b.round => c = b

(* Transactions of earlier jobs may still mine, all of them of results that stand;   *)
(* one of this job is what the worker waits for.                                   *)
MempoolFits ==
    \A tx \in mempool :
        /\ tx.placing \subseteq results[tx.round]
        /\ tx.own => /\ job.pc = "waiting"
                     /\ tx.round = job.round /\ tx.placing = job.placing
                     /\ tx.kind = "open" <=> OpenBranch(job.row)

UnbornHasNoRow == \A r \in Rounds : game[r] = "unborn" => rows[r] = NoRow

(* The escrow settles only what is open, and places at its settlement only. *)
ChainFits == \A r \in Rounds : IF chain[r].settled THEN chain[r].open ELSE chain[r].placed = {}

IInv ==
    /\ TypeOK
    /\ JobOnPath /\ JobIsFresh /\ JobSaw /\ BatchIsFresh /\ MempoolFits
    /\ UnbornHasNoRow /\ ChainFits
    /\ ChainInStep /\ RecordIsTrue /\ PlacedHadResults
-----------------------------------------------------------------------------
(* Of no round is anything known at first. *)
LEMMA InitFits == ASSUME Init PROVE IInv
<1> USE DEF Init, Idle, NoRow
<1>1. TypeOK
  BY SettlementAssumption DEF TypeOK, RowType, TxType, ChainType, JobType, OpenPcs, SettlePcs, GameStates, ChainStatuses
<1>2. JobOnPath /\ JobIsFresh /\ JobSaw  BY DEF JobOnPath, JobIsFresh, JobSaw, Working
<1>3. BatchIsFresh /\ MempoolFits  BY DEF BatchIsFresh, MempoolFits
<1>4. UnbornHasNoRow /\ ChainFits  BY DEF UnbornHasNoRow, ChainFits
<1>5. ChainInStep /\ RecordIsTrue /\ PlacedHadResults  BY DEF ChainInStep, RecordIsTrue, PlacedHadResults
<1> QED  BY <1>1, <1>2, <1>3, <1>4, <1>5 DEF IInv

(* The rest of the invariant reads neither the server's memory nor the budget. *)
LEMMA ServerMemory ==
    ASSUME IInv, TypeOK', UNCHANGED <<dbVars, chain, mempool, workerVars>>,
           \A r \in Rounds : game'[r] = "unborn" => game[r] = "unborn"
    PROVE  IInv'
<1> USE DEF IInv, dbVars, workerVars
<1>1. JobOnPath' /\ JobIsFresh'  BY DEF JobOnPath, JobIsFresh, StillSo, Working
<1>2. JobSaw' /\ BatchIsFresh'  BY DEF JobSaw, BatchIsFresh, StillSo, Working
<1>3. MempoolFits' /\ UnbornHasNoRow' /\ ChainFits'  BY DEF MempoolFits, UnbornHasNoRow, ChainFits
<1>4. ChainInStep' /\ RecordIsTrue' /\ PlacedHadResults'  BY DEF ChainInStep, RecordIsTrue, PlacedHadResults
<1> QED  BY <1>1, <1>2, <1>3, <1>4

(* The game server changes its memory: a round starts, ends, is given up, or lost. *)
LEMMA MemoryKeeps ==
    ASSUME IInv,
           \/ ServerCrash
           \/ \E r \in Rounds : StartRound(r) \/ EndRound(r) \/ AbandonLobby(r) \/ ServerQueryFails(r)
    PROVE  IInv'
<1> USE DEF GameStates, Spend
<1>1. /\ game' \in [Rounds -> GameStates]
      /\ \A r \in Rounds : game'[r] = "unborn" => game[r] = "unborn"
  BY DEF IInv, TypeOK, ServerCrash, StartRound, EndRound, AbandonLobby, ServerQueryFails
<1>2. seats' \in [Rounds -> SUBSET Players]
  BY DEF IInv, TypeOK, ChainType, ServerCrash, StartRound, EndRound, AbandonLobby, ServerQueryFails
<1>3. budget' \in 0 .. MaxFaults
  <2>1. UNCHANGED budget \/ (budget > 0 /\ budget' = budget - 1)
    BY DEF ServerCrash, StartRound, EndRound, AbandonLobby, ServerQueryFails
  <2> QED  BY <2>1, SettlementAssumption DEF IInv, TypeOK
<1>4. UNCHANGED <<dbVars, chain, mempool, workerVars>>
  BY DEF ServerCrash, StartRound, EndRound, AbandonLobby, ServerQueryFails
<1>5. TypeOK'  BY <1>1, <1>2, <1>3, <1>4 DEF IInv, TypeOK, dbVars, workerVars
<1> QED  BY <1>1, <1>4, <1>5, ServerMemory

(* A write of the server to a row: it is never taken back from closed, and the       *)
(* worker's columns stay, but for the row's birth.                                *)
LEMMA ServerWrites ==
    ASSUME IInv, NEW r \in Rounds, game[r] # "unborn",
           NEW status \in {"completed", "abandoned"},
           rows' = [rows EXCEPT ![r].status = status],
           game' \in [Rounds -> GameStates],
           \A q \in Rounds : game'[q] = "unborn" => game[q] = "unborn",
           UNCHANGED <<seats, results, payouts, chain, mempool, workerVars, budget>>
    PROVE  IInv'
<1> USE DEF IInv, workerVars
<1>1. rows[r] \in RowType /\ rows'[r] = [rows[r] EXCEPT !.status = status]  BY DEF TypeOK
<1>2. \A q \in Rounds : q # r => rows'[q] = rows[q]  BY DEF TypeOK
<1>3. /\ rows'[r].chainStatus = rows[r].chainStatus /\ rows'[r].openTx = rows[r].openTx
      /\ rows'[r].record = rows[r].record /\ Closed(rows'[r])
  BY <1>1 DEF RowType, Closed
<1>4. \A q \in Rounds : /\ q # r => rows'[q] = rows[q]
                        /\ rows'[q].chainStatus = rows[q].chainStatus /\ rows'[q].openTx = rows[q].openTx
                        /\ rows'[q].record = rows[q].record
                        /\ Closed(rows[q]) => Closed(rows'[q])
  BY <1>2, <1>3
<1>5. TypeOK'  BY DEF TypeOK, RowType
<1>6. JobOnPath' /\ JobIsFresh' /\ JobSaw'
  BY <1>4 DEF JobOnPath, JobIsFresh, JobSaw, StillSo, Working
<1>7. BatchIsFresh'
  <2>1. \A b \in batch : b.round \in Rounds  BY DEF TypeOK
  <2> QED  BY <1>4, <2>1 DEF BatchIsFresh, StillSo, Working
<1>8. MempoolFits' /\ ChainFits' /\ PlacedHadResults'  BY DEF MempoolFits, ChainFits, PlacedHadResults
<1>9. UnbornHasNoRow'  BY <1>4 DEF UnbornHasNoRow
<1>10. ChainInStep' /\ RecordIsTrue'  BY <1>4 DEF ChainInStep, RecordIsTrue, Closed
<1> QED  BY <1>5, <1>6, <1>7, <1>8, <1>9, <1>10

(* The lobby writes that its round is over. *)
LEMMA CloseKeeps ==
    ASSUME IInv, NEW r \in Rounds, WriteAbandoned(r) \/ WriteCompleted(r)
    PROVE  IInv'
<1>1. \E status \in {"completed", "abandoned"} : rows' = [rows EXCEPT ![r].status = status]
  BY DEF WriteAbandoned, WriteCompleted
<1>2. /\ game[r] # "unborn" /\ game' \in [Rounds -> GameStates]
      /\ \A q \in Rounds : game'[q] = "unborn" => game[q] = "unborn"
  BY DEF IInv, TypeOK, GameStates, WriteAbandoned, WriteCompleted
<1> QED  BY <1>1, <1>2, ServerWrites DEF WriteAbandoned, WriteCompleted

(* Before its row is born nothing can be known or done of a round. *)
LEMMA IssueKeeps ==
    ASSUME IInv, NEW r \in Rounds, Issue(r)
    PROVE  IInv'
<1> USE DEF IInv, Issue, workerVars
<1> DEFINE born == [NoRow EXCEPT !.status = "lobby", !.chainStatus = "open_requested"]
<1>1. rows[r] = NoRow /\ rows' = [rows EXCEPT ![r] = born]  BY DEF UnbornHasNoRow
<1>2. rows[r].chainStatus = "none" /\ ~Closed(rows[r])  BY <1>1 DEF NoRow, Closed
<1>3. /\ born \in RowType /\ born.status = "lobby" /\ born.chainStatus = "open_requested"
      /\ ~born.openTx /\ born.record = NoRecord
  BY DEF NoRow, RowType, ChainStatuses
<1> HIDE DEF born
<1>4. /\ ~chain[r].settled
      /\ \A tx \in mempool : tx.kind = "settle" => tx.round # r
  BY <1>2 DEF ChainInStep, Closed
<1>5. TypeOK'  BY <1>1, <1>3 DEF TypeOK, GameStates
<1>6. Working => job.round # r
  BY <1>2 DEF JobIsFresh, OpenBranch
<1>7. \A b \in batch : b.round \in Rounds /\ b.round # r
  BY <1>2 DEF TypeOK, BatchIsFresh, PickedStatuses
<1>8. \A q \in Rounds : q # r => rows'[q] = rows[q]  BY <1>1 DEF TypeOK
<1>9. JobOnPath' /\ JobIsFresh' /\ JobSaw'
  BY <1>6, <1>8 DEF JobOnPath, JobIsFresh, JobSaw, StillSo, Working
<1>10. BatchIsFresh'  BY <1>7, <1>8 DEF BatchIsFresh, StillSo, Working
<1>11. MempoolFits' /\ ChainFits' /\ PlacedHadResults'  BY DEF MempoolFits, ChainFits, PlacedHadResults
<1>12. UnbornHasNoRow'  BY <1>8 DEF TypeOK, UnbornHasNoRow
<1>13. rows'[r] = born  BY <1>1 DEF TypeOK
<1>14. ChainInStep'  BY <1>3, <1>4, <1>8, <1>13 DEF ChainInStep
<1>15. RecordIsTrue'  BY <1>3, <1>8, <1>13 DEF RecordIsTrue
<1> QED  BY <1>5, <1>9, <1>10, <1>11, <1>12, <1>14, <1>15

(* Results are only added to. *)
LEMMA InsertKeeps ==
    ASSUME IInv, NEW r \in Rounds, NEW p \in Players, InsertResult(r, p)
    PROVE  IInv'
<1> USE DEF IInv, InsertResult, workerVars
<1>1. \A q \in Rounds : results[q] \subseteq results'[q]  BY DEF TypeOK
<1>2. TypeOK'  BY DEF TypeOK, GameStates
<1>3. JobOnPath' /\ JobIsFresh'  BY DEF JobOnPath, JobIsFresh, StillSo, Working
<1>4. JobSaw'  BY <1>1 DEF JobSaw, JobOnPath, Working
<1>5. BatchIsFresh'  BY DEF BatchIsFresh, StillSo, Working
<1>6. MempoolFits'  BY <1>1 DEF MempoolFits, TypeOK, TxType
<1>7. UnbornHasNoRow' /\ ChainFits'  BY DEF UnbornHasNoRow, ChainFits, TypeOK
<1>8. ChainInStep' /\ RecordIsTrue'  BY DEF ChainInStep, RecordIsTrue
<1>9. PlacedHadResults'  BY <1>1 DEF PlacedHadResults
<1> QED  BY <1>2, <1>3, <1>4, <1>5, <1>6, <1>7, <1>8, <1>9
-----------------------------------------------------------------------------
(* Another seat at the escrow takes nothing back. *)
LEMMA EnterKeeps ==
    ASSUME IInv, NEW r \in Rounds, NEW p \in Players, Enter(p, r)
    PROVE  IInv'
<1> USE DEF IInv, serverVars, dbVars, workerVars
<1>1. /\ chain[r] \in ChainType
      /\ chain' = [chain EXCEPT ![r] = [chain[r] EXCEPT !.entered = @ \cup {p}]]
  BY DEF Enter, TypeOK
<1>2. \A q \in Rounds : /\ chain'[q] \in ChainType
                        /\ chain'[q].open = chain[q].open /\ chain'[q].settled = chain[q].settled
                        /\ chain'[q].placed = chain[q].placed /\ chain[q].entered \subseteq chain'[q].entered
  <2>1. \A q \in Rounds : q # r => chain'[q] = chain[q]  BY <1>1 DEF TypeOK
  <2>2. chain'[r] = [chain[r] EXCEPT !.entered = @ \cup {p}]  BY <1>1 DEF TypeOK
  <2>3. /\ chain'[r] \in ChainType
        /\ chain'[r].open = chain[r].open /\ chain'[r].settled = chain[r].settled
        /\ chain'[r].placed = chain[r].placed /\ chain[r].entered \subseteq chain'[r].entered
    BY <1>1, <2>2 DEF ChainType
  <2>4. \A q \in Rounds : chain[q] \in ChainType  BY DEF TypeOK
  <2> QED  BY <2>1, <2>3, <2>4
<1>3. UNCHANGED <<game, seats, rows, results, payouts, mempool, batch, job, budget>>  BY DEF Enter
<1>4. TypeOK'
  <2>1. chain' \in [Rounds -> ChainType]  BY <1>1, <1>2 DEF TypeOK
  <2> QED  BY <1>3, <2>1 DEF TypeOK
<1>5. JobOnPath' /\ JobIsFresh' /\ JobSaw'
  BY <1>2, <1>3 DEF JobOnPath, JobIsFresh, JobSaw, StillSo, Working
<1>6. BatchIsFresh'
  <2>1. \A b \in batch : b.round \in Rounds  BY DEF TypeOK
  <2> QED  BY <1>2, <1>3, <2>1 DEF BatchIsFresh, StillSo, Working
<1>7. MempoolFits' /\ UnbornHasNoRow'  BY <1>3 DEF MempoolFits, UnbornHasNoRow
<1>8. ChainFits' /\ ChainInStep'  BY <1>2, <1>3 DEF ChainFits, ChainInStep
<1>9. RecordIsTrue' /\ PlacedHadResults'  BY <1>2, <1>3 DEF RecordIsTrue, PlacedHadResults
<1> QED  BY <1>4, <1>5, <1>6, <1>7, <1>8, <1>9

(* The receipt moves the job of a transaction of its own, and nothing else. *)
LEMMA ReceiptOf ==
    ASSUME IInv, NEW tx \in mempool, NEW ok \in BOOLEAN, job' = Receipt(tx, ok)
    PROVE  /\ job' \in JobType
           /\ job'.round = job.round /\ job'.row = job.row /\ job'.placing = job.placing
           /\ tx.own => job'.pc = IF ok THEN "mined" ELSE "reverted"
           /\ ~tx.own => job' = job
<1>1. job \in JobType /\ tx.own \in BOOLEAN  BY DEF IInv, TypeOK, TxType
<1>2. tx.own => job.pc = "waiting"  BY DEF IInv, MempoolFits
<1>3. job' = [job EXCEPT !.pc = IF tx.own THEN (IF ok THEN "mined" ELSE "reverted") ELSE @]
  BY <1>1, <1>2 DEF Receipt, JobType
<1> QED  BY <1>1, <1>3 DEF JobType, OpenPcs, SettlePcs

(* A transaction that reverts, or is refused, leaves everything but the job. *)
LEMMA RevertKeeps ==
    ASSUME IInv, NEW tx \in mempool, job' = Receipt(tx, FALSE), mempool' = {}, budget' \in 0 .. MaxFaults,
           UNCHANGED <<serverVars, dbVars, chain, batch>>
    PROVE  IInv'
<1> USE DEF IInv, serverVars, dbVars
<1>1. /\ job' \in JobType
      /\ job'.round = job.round /\ job'.row = job.row /\ job'.placing = job.placing
      /\ job'.pc = job.pc \/ (job.pc = "waiting" /\ job'.pc = "reverted")
  BY ReceiptOf DEF MempoolFits
<1>2. TypeOK'  BY <1>1 DEF TypeOK
<1>3. JobOnPath'  BY <1>1 DEF JobOnPath, Working, OpenPcs, SettlePcs
<1>4. JobIsFresh' /\ JobSaw'  BY <1>1 DEF JobIsFresh, JobSaw, StillSo, Working
<1>5. BatchIsFresh'  BY <1>1 DEF BatchIsFresh, StillSo, Working
<1>6. MempoolFits' /\ UnbornHasNoRow' /\ ChainFits'  BY DEF MempoolFits, UnbornHasNoRow, ChainFits
<1>7. ChainInStep' /\ RecordIsTrue' /\ PlacedHadResults'  BY DEF ChainInStep, RecordIsTrue, PlacedHadResults
<1> QED  BY <1>2, <1>3, <1>4, <1>5, <1>6, <1>7

(* What an accepted transaction makes of its round; every other stays. *)
LEMMA ExecuteOf ==
    ASSUME TypeOK, NEW tx \in mempool, Accepts(tx), Execute(tx)
    PROVE  /\ chain' \in [Rounds -> ChainType]
           /\ \A q \in Rounds : q # tx.round => chain'[q] = chain[q]
           /\ \A q \in Rounds : chain'[q].entered = chain[q].entered /\ (chain[q].open => chain'[q].open)
           /\ tx.kind = "open" => /\ chain'[tx.round].open /\ ~chain[tx.round].open
                                  /\ chain'[tx.round].settled = chain[tx.round].settled
                                  /\ chain'[tx.round].placed = chain[tx.round].placed
           /\ tx.kind # "open" => /\ tx.kind = "settle" /\ chain[tx.round].open /\ ~chain[tx.round].settled
                                  /\ tx.placing \subseteq chain[tx.round].entered
                                  /\ chain'[tx.round].open /\ chain'[tx.round].settled
                                  /\ chain'[tx.round].placed = tx.placing
<1> DEFINE r == tx.round
<1>1. /\ r \in Rounds /\ chain[r] \in ChainType /\ chain \in [Rounds -> ChainType]
      /\ tx.kind \in {"open", "settle"} /\ tx.placing \in SUBSET Players
  BY DEF TypeOK, TxType
<1>2. CASE tx.kind = "open"
  <2>1. chain' = [chain EXCEPT ![r] = [chain[r] EXCEPT !.open = TRUE]]  BY <1>1, <1>2 DEF Execute
  <2> QED  BY <1>1, <1>2, <2>1 DEF Accepts, ChainType
<1>3. CASE tx.kind # "open"
  <2>1. chain' = [chain EXCEPT ![r] = [chain[r] EXCEPT !.settled = TRUE, !.placed = tx.placing]]
    BY <1>1, <1>3 DEF Execute
  <2> QED  BY <1>1, <1>3, <2>1 DEF Accepts, ChainType
<1> QED  BY <1>2, <1>3

(* A transaction that mines: what it places had results, for those it was sent with  *)
(* still stand, and entered, for the escrow asks.                                  *)
LEMMA MineKeeps ==
    ASSUME IInv, NEW tx \in mempool, mempool' = {}, Accepts(tx), Execute(tx), job' = Receipt(tx, TRUE),
           UNCHANGED <<serverVars, dbVars, batch, budget>>
    PROVE  IInv'
<1> USE DEF IInv, serverVars, dbVars
<1> DEFINE r == tx.round
<1>1. r \in Rounds /\ tx.kind \in {"open", "settle"}  BY DEF TypeOK, TxType
<1>2. /\ chain' \in [Rounds -> ChainType]
      /\ \A q \in Rounds : q # r => chain'[q] = chain[q]
      /\ \A q \in Rounds : chain'[q].entered = chain[q].entered /\ (chain[q].open => chain'[q].open)
      /\ tx.kind = "open" => /\ chain'[r].open /\ ~chain[r].open
                             /\ chain'[r].settled = chain[r].settled /\ chain'[r].placed = chain[r].placed
      /\ tx.kind = "settle" => /\ chain[r].open /\ ~chain[r].settled
                               /\ tx.placing \subseteq chain[r].entered
                               /\ chain'[r].open /\ chain'[r].settled /\ chain'[r].placed = tx.placing
  BY ExecuteOf
<1>3. \A q \in Rounds : chain[q].settled => chain'[q].settled /\ chain'[q].placed = chain[q].placed
  BY <1>1, <1>2
<1>4. /\ job' \in JobType
      /\ job'.round = job.round /\ job'.row = job.row /\ job'.placing = job.placing
      /\ tx.own => /\ job.pc = "waiting" /\ job'.pc = "mined"
                   /\ r = job.round /\ tx.placing = job.placing /\ (tx.kind = "open" <=> OpenBranch(job.row))
      /\ ~tx.own => job' = job
  BY ReceiptOf DEF MempoolFits
<1>5. TypeOK'  BY <1>2, <1>4 DEF TypeOK
<1>6. JobOnPath'  BY <1>4 DEF JobOnPath, Working, OpenPcs, SettlePcs
<1>7. JobIsFresh'  BY <1>2, <1>4 DEF JobIsFresh, JobOnPath, StillSo, Working
<1>8. JobSaw'
  <2>1. CASE tx.own  BY <1>1, <1>2, <1>4, <2>1 DEF JobSaw, JobOnPath, Working
  <2>2. CASE ~tx.own  BY <1>2, <1>3, <1>4, <2>2 DEF JobSaw, JobOnPath, Working
  <2> QED  BY <2>1, <2>2
<1>9. BatchIsFresh'
  <2>1. \A b \in batch : b.round \in Rounds  BY DEF TypeOK
  <2>2. Working' <=> Working  BY <1>4 DEF Working
  <2> QED  BY <1>2, <1>4, <2>1, <2>2 DEF BatchIsFresh, StillSo
<1>10. MempoolFits' /\ UnbornHasNoRow'  BY DEF MempoolFits, UnbornHasNoRow
<1>11. ChainFits'  BY <1>1, <1>2 DEF ChainFits
<1>12. ChainInStep'
  <2>1. tx.kind = "settle" => rows[r].status \in {"completed", "abandoned"}  BY <1>1 DEF ChainInStep
  <2> QED  BY <1>1, <1>2, <1>3, <2>1 DEF ChainInStep
<1>13. RecordIsTrue'
  <2>1. \A q \in Rounds : ~chain[q].settled => payouts[q] = {}  BY DEF RecordIsTrue, ChainFits
  <2> QED  BY <1>1, <1>3, <2>1 DEF RecordIsTrue
<1>14. PlacedHadResults'
  <2>1. tx.placing \subseteq results[r]  BY DEF MempoolFits
  <2> QED  BY <1>1, <1>2, <2>1 DEF PlacedHadResults
<1> QED  BY <1>5, <1>6, <1>7, <1>8, <1>9, <1>10, <1>11, <1>12, <1>13, <1>14

(* The chain mines or refuses what waits in the mempool. *)
LEMMA ChainKeeps ==
    ASSUME IInv, ChainNext
    PROVE  IInv'
<1>1. ASSUME NEW tx \in mempool, Mine(tx) PROVE IInv'
  <2>1. budget' \in 0 .. MaxFaults  BY <1>1 DEF Mine, IInv, TypeOK
  <2> QED  BY <1>1, <2>1, MineKeeps, RevertKeeps DEF Mine
<1>2. ASSUME NEW tx \in mempool, MineRefused(tx) PROVE IInv'
  <2>1. budget' \in 0 .. MaxFaults  BY <1>2, SettlementAssumption DEF MineRefused, Spend, IInv, TypeOK
  <2> QED  BY <1>2, <2>1, RevertKeeps DEF MineRefused
<1> QED  BY <1>1, <1>2, EnterKeeps DEF ChainNext
-----------------------------------------------------------------------------
(* The worker, between two of its awaits. *)

(* What a row may say after a write of the worker: nothing the escrow has not done. *)
RowIsTrue(row, r) ==
    /\ row.openTx \/ row.chainStatus \in {"open", "settling", "settled"} => chain[r].open
    /\ row.chainStatus = "settled" => chain[r].settled
    /\ row.record # NoRecord => chain[r].settled /\ chain[r].placed = row.record

(* A step of the job changes no row but its own, and of that not the server's        *)
(* column; what waits in the mempool settles only rounds that are closed.          *)
LEMMA JobStep ==
    ASSUME IInv, Working, TypeOK', JobOnPath', JobIsFresh', JobSaw', MempoolFits',
           UNCHANGED <<serverVars, results, chain, batch>>,
           Working' => job'.round = job.round,
           \A q \in Rounds : rows'[q].status = rows[q].status /\ (q # job.round => rows'[q] = rows[q]),
           RowIsTrue(rows'[job.round], job.round),
           payouts'[job.round] \subseteq chain[job.round].placed,
           \A q \in Rounds : q # job.round => payouts'[q] = payouts[q],
           \A tx \in mempool' : tx.kind = "settle" => Closed(rows[tx.round])
    PROVE  IInv'
<1> USE DEF IInv, serverVars
<1>1. job.round \in Rounds  BY DEF JobOnPath
<1>2. BatchIsFresh'
  <2>1. \A b \in batch : b.round \in Rounds /\ b.round # job.round  BY DEF TypeOK, BatchIsFresh
  <2>2. \A b \in batch : rows'[b.round] = rows[b.round]  BY <2>1
  <2> QED  BY <2>1, <2>2 DEF BatchIsFresh, StillSo, Working
<1>3. UnbornHasNoRow'
  <2>1. rows[job.round].chainStatus # "none"  BY DEF JobIsFresh, OpenBranch
  <2>2. game[job.round] # "unborn"  BY <1>1, <2>1 DEF UnbornHasNoRow, NoRow
  <2> QED  BY <2>2 DEF UnbornHasNoRow
<1>4. ChainFits' /\ PlacedHadResults'  BY DEF ChainFits, PlacedHadResults
<1>5. ChainInStep'
  <2>1. ASSUME NEW q \in Rounds
        PROVE  /\ rows'[q].openTx \/ rows'[q].chainStatus \in {"open", "settling", "settled"} => chain[q].open
               /\ rows'[q].chainStatus = "settled" => chain[q].settled
    BY DEF ChainInStep, RowIsTrue
  <2>2. \A q \in Rounds : chain[q].settled => rows'[q].status \in {"completed", "abandoned"}  BY DEF ChainInStep
  <2>3. \A tx \in mempool' : tx.round \in Rounds  BY DEF TypeOK, TxType
  <2> QED  BY <2>1, <2>2, <2>3 DEF ChainInStep, Closed
<1>6. RecordIsTrue'  BY <1>1 DEF RecordIsTrue, RowIsTrue
<1> QED  BY <1>2, <1>3, <1>4, <1>5, <1>6

(* The row of the job, as it stands, is true, and so is what waits. *)
LEMMA AsItStands ==
    ASSUME IInv, Working
    PROVE  /\ job.round \in Rounds
           /\ RowIsTrue(rows[job.round], job.round)
           /\ payouts[job.round] \subseteq chain[job.round].placed
           /\ \A tx \in mempool : tx.round \in Rounds /\ (tx.kind = "settle" => Closed(rows[tx.round]))
BY DEF IInv, TypeOK, TxType, JobOnPath, ChainInStep, RecordIsTrue, RowIsTrue, Closed

(* A step that only reads: the rows, the mempool and the escrow stay. *)
LEMMA ReadStep ==
    ASSUME IInv, Working, job' \in JobType, job'.round = job.round, JobOnPath', JobIsFresh', JobSaw', job.pc # "waiting",
           UNCHANGED <<serverVars, dbVars, chain, mempool, batch, budget>>
    PROVE  IInv'
<1>1. UNCHANGED <<game, seats, rows, results, payouts>>  BY DEF serverVars, dbVars
<1>2. TypeOK'  BY <1>1 DEF IInv, TypeOK
<1>3. MempoolFits'  BY <1>1 DEF IInv, MempoolFits
<1> QED  BY <1>1, <1>2, <1>3, AsItStands, JobStep DEF serverVars, RowIsTrue

(* What the worker reads of chain or rows is so as it reads it. *)
LEMMA ReadKeeps ==
    ASSUME IInv, ReadOpen \/ ReadSettled \/ ReadResults \/ ReadEntered
    PROVE  IInv'
<1>1. UNCHANGED <<serverVars, dbVars, chain, mempool, batch, budget>>
  BY DEF ReadOpen, ReadSettled, ReadResults, ReadEntered
<1>2. UNCHANGED <<rows, results>>  BY <1>1 DEF dbVars
<1>3. Working /\ job.pc # "waiting"  BY DEF Working, ReadOpen, ReadSettled, ReadResults, ReadEntered
<1>4. /\ job \in JobType /\ job.round \in Rounds
      /\ results[job.round] \in SUBSET Players /\ job.placing \in SUBSET Players
  BY <1>3 DEF IInv, TypeOK, JobType, JobOnPath
<1>5. CASE ReadOpen
  <2>1. /\ job' \in JobType /\ job'.round = job.round /\ job'.row = job.row /\ job'.placing = job.placing
        /\ job'.pc = IF chain[job.round].open THEN "markOpen" ELSE "sendOpen"
    BY <1>4, <1>5 DEF ReadOpen, Goto, JobType, OpenPcs
  <2>2. OpenBranch(job.row)  BY <1>3, <1>5 DEF ReadOpen, IInv, JobOnPath, SettlePcs
  <2>3. JobOnPath' /\ JobIsFresh' /\ JobSaw'
    BY <1>1, <1>2, <1>3, <1>4, <2>1, <2>2 DEF IInv, JobOnPath, JobIsFresh, JobSaw, StillSo, Working, OpenPcs
  <2> QED  BY <1>1, <1>3, <2>1, <2>3, ReadStep
<1>6. CASE ~ReadOpen
  <2>1. ~OpenBranch(job.row)
    BY <1>3, <1>6 DEF ReadSettled, ReadResults, ReadEntered, IInv, JobOnPath, OpenPcs
  <2>2. CASE ReadSettled
    <3>1. /\ job' \in JobType /\ job'.round = job.round /\ job'.row = job.row /\ job'.placing = job.placing
          /\ job'.pc = IF chain[job.round].settled THEN "markSettled" ELSE "markSettling"
      BY <1>4, <2>2 DEF ReadSettled, Goto, JobType, SettlePcs
    <3>2. JobOnPath' /\ JobIsFresh' /\ JobSaw'
      BY <1>1, <1>2, <1>3, <1>4, <2>1, <3>1 DEF IInv, JobOnPath, JobIsFresh, JobSaw, StillSo, Working, SettlePcs
    <3> QED  BY <1>1, <1>3, <3>1, <3>2, ReadStep
  <2>3. CASE ReadResults
    <3>1. /\ job' \in JobType /\ job'.round = job.round /\ job'.row = job.row
          /\ job'.pc = "readEntered" /\ job'.placing = results[job.round]
      BY <1>4, <2>3 DEF ReadResults, JobType, SettlePcs
    <3>2. JobOnPath' /\ JobIsFresh' /\ JobSaw'
      BY <1>1, <1>2, <1>3, <1>4, <2>1, <3>1 DEF IInv, JobOnPath, JobIsFresh, JobSaw, StillSo, Working, SettlePcs
    <3> QED  BY <1>1, <1>3, <3>1, <3>2, ReadStep
  <2>4. CASE ReadEntered
    <3>1. /\ job' \in JobType /\ job'.round = job.round /\ job'.row = job.row
          /\ job'.pc = "sendSettle" /\ job'.placing = job.placing \cap chain[job.round].entered
      BY <1>4, <2>4 DEF ReadEntered, JobType, SettlePcs
    <3>2. JobOnPath' /\ JobIsFresh' /\ JobSaw'
      BY <1>1, <1>2, <1>3, <1>4, <2>1, <3>1 DEF IInv, JobOnPath, JobIsFresh, JobSaw, StillSo, Working, SettlePcs
    <3> QED  BY <1>1, <1>3, <3>1, <3>2, ReadStep
  <2> QED  BY <1>6, <2>2, <2>3, <2>4
<1> QED  BY <1>5, <1>6

(* A step that sends the transaction the job stands for. *)
LEMMA SendKeeps ==
    ASSUME IInv, SendOpen \/ SendSettle
    PROVE  IInv'
<1> DEFINE kind == IF job.pc = "sendOpen" THEN "open" ELSE "settle"
           tx == [kind |-> kind, round |-> job.round, placing |-> job.placing, own |-> TRUE]
<1>1. Working /\ job.pc \in {"sendOpen", "sendSettle"}  BY DEF SendOpen, SendSettle, Working
<1>2. mempool' = mempool \cup {tx} /\ UNCHANGED <<serverVars, dbVars, chain, batch, budget>>
  BY DEF SendOpen, SendSettle, Send
<1>3. job' = [job EXCEPT !.pc = "waiting"]  BY DEF SendOpen, SendSettle, Send, Goto
<1>4. job \in JobType /\ job.round \in Rounds  BY <1>1 DEF IInv, TypeOK, JobOnPath
<1>5. /\ job' \in JobType /\ job'.pc = "waiting"
      /\ job'.round = job.round /\ job'.row = job.row /\ job'.placing = job.placing
  BY <1>3, <1>4 DEF JobType, OpenPcs
<1>6. OpenBranch(job.row) <=> kind = "open"  BY <1>1 DEF IInv, JobOnPath, Working, OpenPcs, SettlePcs
<1>7. tx \in TxType  BY <1>4 DEF TxType, JobType
<1>8. JobOnPath' /\ JobIsFresh' /\ JobSaw'
  BY <1>1, <1>2, <1>5, <1>6 DEF IInv, JobOnPath, JobIsFresh, JobSaw, StillSo, Working, dbVars, OpenPcs, SettlePcs
<1>9. tx.placing \subseteq results[tx.round]  BY <1>1 DEF IInv, JobSaw
<1>10. MempoolFits'
  <2>1. \A t \in mempool : ~t.own  BY <1>1 DEF IInv, MempoolFits
  <2>2. UNCHANGED results  BY <1>2 DEF dbVars
  <2> HIDE DEF tx, kind
  <2>3. tx.round = job.round /\ tx.placing = job.placing /\ tx.kind = kind  BY DEF tx
  <2> QED  BY <1>2, <1>5, <1>6, <1>9, <2>1, <2>2, <2>3 DEF IInv, MempoolFits
<1>11. TypeOK'
  <2> HIDE DEF tx
  <2> QED  BY <1>2, <1>5, <1>7 DEF IInv, TypeOK, serverVars, dbVars
<1>12. kind = "settle" => Closed(rows[job.round])
  BY <1>1, <1>6 DEF IInv, JobIsFresh, JobOnPath, StillSo, SettleBranch
<1>13. \A t \in mempool' : t.kind = "settle" => Closed(rows[t.round])
  BY <1>1, <1>2, <1>12, AsItStands
<1> QED
  <2> HIDE DEF tx, kind
  <2> QED  BY <1>1, <1>2, <1>5, <1>8, <1>10, <1>11, <1>13, AsItStands, JobStep DEF serverVars, dbVars

(* A write of the worker to its row, by what it leaves there. *)
LEMMA WriteStep ==
    ASSUME IInv, Working, NEW row \in RowType, rows' = [rows EXCEPT ![job.round] = row],
           row.status = rows[job.round].status, RowIsTrue(row, job.round),
           job' \in JobType, Working' => job'.round = job.round,
           JobOnPath', JobIsFresh', JobSaw',
           mempool' \subseteq TxType, MempoolFits',
           \A tx \in mempool' : \E t \in mempool : t.kind = tx.kind /\ t.round = tx.round,
           budget' \in 0 .. MaxFaults,
           UNCHANGED <<serverVars, results, payouts, chain, batch>>
    PROVE  IInv'
<1>1. job.round \in Rounds  BY AsItStands
<1>2. rows'[job.round] = row /\ (\A q \in Rounds : q # job.round => rows'[q] = rows[q])
  BY <1>1 DEF IInv, TypeOK
<1>3. TypeOK'  BY <1>1 DEF IInv, TypeOK, serverVars
<1>4. \A tx \in mempool' : tx.kind = "settle" => Closed(rows[tx.round])  BY AsItStands
<1>5. payouts'[job.round] \subseteq chain[job.round].placed  BY AsItStands
<1> QED  BY <1>1, <1>2, <1>3, <1>4, <1>5, JobStep DEF serverVars

(* An idle job needs nothing of the rest. *)
LEMMA AtRest ==
    ASSUME job' = Idle
    PROVE  /\ JobOnPath' /\ JobIsFresh' /\ JobSaw' /\ ~Working'
           /\ Idle \in JobType
BY SettlementAssumption DEF Idle, NoRow, Working, JobOnPath, JobIsFresh, JobSaw, JobType, RowType, ChainStatuses

(* Transactions that are given up are still those they were. *)
LEMMA DisownedOf ==
    ASSUME TypeOK, NEW tx \in Disowned
    PROVE  /\ tx \in TxType /\ ~tx.own
           /\ \E t \in mempool : t.kind = tx.kind /\ t.round = tx.round /\ t.placing = tx.placing
<1>1. PICK t \in mempool : tx = [t EXCEPT !.own = FALSE]  BY DEF Disowned
<1>2. t \in TxType  BY DEF TypeOK
<1> QED  BY <1>1, <1>2 DEF TxType

(* A failure writes back what PICK read, or gives the row up; neither says more than  *)
(* the row did.                                                                  *)
LEMMA FailKeeps ==
    ASSUME IInv, Working, NEW error \in {"stall", "revert", "error"}, Fail(error), budget' \in 0 .. MaxFaults
    PROVE  IInv'
<1> DEFINE status == AfterFailure(error)
           row == [rows[job.round] EXCEPT !.chainStatus = status, !.attempts = @ + 1]
<1>1. job.round \in Rounds /\ rows[job.round] \in RowType /\ job.row \in RowType
  BY AsItStands DEF IInv, TypeOK, JobType
<1>2. status \in {"stalled", "dead", job.row.chainStatus}  BY DEF AfterFailure
<1>3. status \in ChainStatuses /\ status # "settled"
  BY <1>1, <1>2 DEF RowType, ChainStatuses, IInv, JobOnPath, OpenBranch, SettleBranch
<1>4. status \in {"open", "settling", "settled"} => chain[job.round].open
  BY <1>2 DEF IInv, JobIsFresh, StillSo
<1> HIDE DEF status
<1>5. rows' = [rows EXCEPT ![job.round] = row]  BY <1>1 DEF Fail, status, IInv, TypeOK
<1>6. /\ row \in RowType /\ row.status = rows[job.round].status /\ row.chainStatus = status
      /\ row.openTx = rows[job.round].openTx /\ row.record = rows[job.round].record
  <2> DEFINE old == rows[job.round]
  <2>1. old \in RowType /\ old.attempts + 1 \in Nat  BY <1>1 DEF RowType
  <2>2. row = [old EXCEPT !.chainStatus = status, !.attempts = old.attempts + 1]  BY <2>1 DEF RowType
  <2> HIDE DEF old, row
  <2> QED  BY <1>3, <2>1, <2>2 DEF RowType, old
<1> HIDE DEF row
<1>7. RowIsTrue(row, job.round)  BY <1>3, <1>4, <1>6, AsItStands DEF RowIsTrue
<1>8. job' = Idle /\ mempool' = Disowned /\ UNCHANGED <<serverVars, results, payouts, chain, batch>>  BY DEF Fail
<1>9. TypeOK  BY DEF IInv
<1>10. mempool' \subseteq TxType /\ (\A tx \in mempool' : \E t \in mempool : t.kind = tx.kind /\ t.round = tx.round)
  BY <1>8, <1>9, DisownedOf
<1>11. MempoolFits'  BY <1>8, <1>9, DisownedOf DEF IInv, MempoolFits
<1> QED  BY <1>5, <1>6, <1>7, <1>8, <1>10, <1>11, AtRest, WriteStep

(* The writes of processRound: after a read that shows it done, before the sends, and *)
(* after a receipt.                                                              *)
LEMMA WriteKeeps ==
    ASSUME IInv, MarkOpen \/ MarkSettled \/ MarkSettling \/ RecordOpened \/ RecordSettled
    PROVE  IInv'
<1>1. Working /\ job.pc # "waiting"  BY DEF Working, MarkOpen, MarkSettled, MarkSettling, RecordOpened, RecordSettled
<1>2. /\ job.round \in Rounds /\ rows[job.round] \in RowType /\ rows \in [Rounds -> RowType]
      /\ RowIsTrue(rows[job.round], job.round)
      /\ job \in JobType
  BY <1>1, AsItStands DEF IInv, TypeOK
<1>3. UNCHANGED <<serverVars, results, payouts, chain, mempool, batch, budget>>
  BY DEF MarkOpen, MarkSettled, MarkSettling, RecordOpened, RecordSettled
<1>4. MempoolFits' /\ mempool' \subseteq TxType /\ budget' \in 0 .. MaxFaults
  BY <1>1, <1>3 DEF IInv, TypeOK, MempoolFits
<1>5. \A tx \in mempool' : \E t \in mempool : t.kind = tx.kind /\ t.round = tx.round  BY <1>3
<1>6. ASSUME NEW row \in RowType, rows' = [rows EXCEPT ![job.round] = row],
             row.status = rows[job.round].status, RowIsTrue(row, job.round),
             job' \in JobType, Working' => job'.round = job.round, JobOnPath', JobIsFresh', JobSaw'
      PROVE  IInv'
  BY <1>1, <1>3, <1>4, <1>5, <1>6, WriteStep
<1>7. CASE MarkOpen \/ RecordOpened
  <2> DEFINE row == IF MarkOpen THEN [rows[job.round] EXCEPT !.chainStatus = "open"]
                    ELSE [rows[job.round] EXCEPT !.chainStatus = "open", !.openTx = TRUE]
  <2>1. chain[job.round].open  BY <1>7 DEF MarkOpen, RecordOpened, IInv, JobSaw
  <2>2. rows' = [rows EXCEPT ![job.round] = row] /\ job' = Idle
    BY <1>2, <1>7 DEF MarkOpen, RecordOpened
  <2>3. /\ row \in RowType /\ row.status = rows[job.round].status
        /\ row.chainStatus = "open" /\ row.record = rows[job.round].record
    BY <1>2 DEF RowType, ChainStatuses
  <2> HIDE DEF row
  <2>4. RowIsTrue(row, job.round)  BY <1>2, <2>1, <2>3 DEF RowIsTrue
  <2> QED  BY <1>6, <2>2, <2>3, <2>4, AtRest
<1>8. CASE MarkSettled
  <2> DEFINE row == [rows[job.round] EXCEPT !.chainStatus = "settled"]
  <2>1. chain[job.round].settled  BY <1>8 DEF MarkSettled, IInv, JobSaw
  <2>2. chain[job.round].open  BY <1>2, <2>1 DEF IInv, ChainFits
  <2>3. rows' = [rows EXCEPT ![job.round] = row] /\ job' = Idle  BY <1>2, <1>8 DEF MarkSettled
  <2>4. /\ row \in RowType /\ row.status = rows[job.round].status
        /\ row.chainStatus = "settled" /\ row.record = rows[job.round].record
    BY <1>2 DEF RowType, ChainStatuses
  <2> HIDE DEF row
  <2>5. RowIsTrue(row, job.round)  BY <1>2, <2>1, <2>2, <2>4 DEF RowIsTrue
  <2> QED  BY <1>6, <2>3, <2>4, <2>5, AtRest
<1>9. CASE MarkSettling
  <2> DEFINE row == [rows[job.round] EXCEPT !.chainStatus = "settling"]
  <2>1. /\ ~OpenBranch(job.row) /\ SettleBranch(job.row)
    BY <1>1, <1>9 DEF MarkSettling, IInv, JobOnPath, OpenPcs
  <2>2. StillSo(job.row, job.round)  BY <1>1 DEF IInv, JobIsFresh
  <2>3. chain[job.round].open
    BY <1>2, <2>1, <2>2 DEF OpenBranch, SettleBranch, StillSo, JobType, RowType
  <2>4. rows' = [rows EXCEPT ![job.round] = row]  BY <1>2, <1>9 DEF MarkSettling
  <2>5. /\ job' \in JobType /\ job'.pc = "readResults"
        /\ job'.round = job.round /\ job'.row = job.row /\ job'.placing = job.placing
    BY <1>2, <1>9 DEF MarkSettling, Goto, JobType, SettlePcs
  <2>6. /\ row \in RowType /\ row.status = rows[job.round].status
        /\ row.chainStatus = "settling" /\ row.record = rows[job.round].record
    BY <1>2 DEF RowType, ChainStatuses
  <2> HIDE DEF row
  <2>7. RowIsTrue(row, job.round)  BY <1>2, <2>3, <2>6 DEF RowIsTrue
  <2>8. rows'[job.round] = row  BY <1>2, <2>4
  <2>9. JobOnPath' /\ JobSaw'
    BY <1>1, <1>2, <1>3, <2>1, <2>5 DEF IInv, JobOnPath, JobSaw, Working, SettlePcs
  <2>10. JobIsFresh'
    BY <1>1, <1>2, <1>3, <2>1, <2>2, <2>5, <2>6, <2>8 DEF JobIsFresh, StillSo, Closed, Working
  <2> QED  BY <1>6, <2>4, <2>5, <2>6, <2>7, <2>9, <2>10
<1>10. CASE RecordSettled
  <2> DEFINE row == [rows[job.round] EXCEPT !.chainStatus = "settled", !.record = job.placing]
  <2>1. /\ ~OpenBranch(job.row) /\ SettleBranch(job.row)
    BY <1>1, <1>10 DEF RecordSettled, OpenBranch, SettleBranch
  <2>2. chain[job.round].settled /\ chain[job.round].placed = job.placing
    BY <1>10, <2>1 DEF RecordSettled, IInv, JobSaw
  <2>3. chain[job.round].open  BY <1>2, <2>2 DEF IInv, ChainFits
  <2>4. rows' = [rows EXCEPT ![job.round] = row]  BY <1>2, <1>10 DEF RecordSettled
  <2>5. /\ job' \in JobType /\ job'.pc = "payouts"
        /\ job'.round = job.round /\ job'.row = job.row /\ job'.placing = job.placing
    BY <1>2, <1>10 DEF RecordSettled, Goto, JobType, SettlePcs
  <2>6. /\ row \in RowType /\ row.status = rows[job.round].status
        /\ row.chainStatus = "settled" /\ row.record = job.placing
    BY <1>2 DEF RowType, ChainStatuses, JobType
  <2> HIDE DEF row
  <2>7. RowIsTrue(row, job.round)  BY <2>2, <2>3, <2>6 DEF RowIsTrue
  <2>8. rows'[job.round] = row  BY <1>2, <2>4
  <2>9. JobOnPath' /\ JobSaw'
    BY <1>1, <1>2, <1>3, <2>1, <2>2, <2>5 DEF IInv, JobOnPath, JobSaw, Working, SettlePcs
  <2>10. JobIsFresh'
    BY <1>1, <1>2, <1>3, <2>1, <2>5, <2>6, <2>8 DEF IInv, JobIsFresh, StillSo, Closed, Working
  <2> QED  BY <1>6, <2>4, <2>5, <2>6, <2>7, <2>9, <2>10
<1> QED  BY <1>7, <1>8, <1>9, <1>10

(* payout_units of those the job placed. *)
LEMMA PayoutsKeep ==
    ASSUME IInv, WritePayouts
    PROVE  IInv'
<1>1. Working /\ job.pc # "waiting"  BY DEF WritePayouts, Working
<1>2. job' = Idle /\ UNCHANGED <<serverVars, rows, results, chain, mempool, batch, budget>>  BY DEF WritePayouts
<1>3. /\ job.round \in Rounds /\ job.placing \in SUBSET Players
      /\ payouts \in [Rounds -> SUBSET Players]
      /\ payouts' = [payouts EXCEPT ![job.round] = @ \cup job.placing]
  BY <1>1, AsItStands DEF IInv, TypeOK, JobType, WritePayouts
<1>4. TypeOK'  BY <1>2, <1>3, AtRest DEF IInv, TypeOK, serverVars
<1>5. MempoolFits'  BY <1>1, <1>2 DEF IInv, MempoolFits
<1>6. chain[job.round].placed = job.placing  BY DEF WritePayouts, IInv, JobSaw
<1>7. payouts'[job.round] \subseteq chain[job.round].placed  BY <1>1, <1>3, <1>6, AsItStands
<1> QED  BY <1>1, <1>2, <1>3, <1>4, <1>5, <1>7, AtRest, AsItStands, JobStep DEF serverVars, RowIsTrue

(* Outside a job, what PICK and the interval do to the batch. *)
LEMMA BatchStep ==
    ASSUME IInv, TypeOK', JobOnPath', JobIsFresh', JobSaw', BatchIsFresh', job = Idle,
           UNCHANGED <<serverVars, dbVars, chain, mempool, budget>>
    PROVE  IInv'
<1> USE DEF serverVars, dbVars
<1>1. \A tx \in mempool : ~tx.own  BY DEF IInv, MempoolFits, Idle
<1>2. MempoolFits'  BY <1>1 DEF IInv, MempoolFits
<1>3. UnbornHasNoRow' /\ ChainFits'  BY DEF IInv, UnbornHasNoRow, ChainFits
<1>4. ChainInStep' /\ RecordIsTrue' /\ PlacedHadResults'  BY DEF IInv, ChainInStep, RecordIsTrue, PlacedHadResults
<1> QED  BY <1>2, <1>3, <1>4 DEF IInv

(* PICK: a batch is rows as they stand, one entry per round. *)
LEMMA PickKeeps ==
    ASSUME IInv, Pick
    PROVE  IInv'
<1>1. /\ job = Idle /\ job' = Idle
      /\ UNCHANGED <<serverVars, dbVars, chain, mempool, budget>>
      /\ batch' = {[round |-> r, row |-> rows[r]] : r \in Firsts(Picked)}
  BY DEF Pick
<1>2. \A b \in batch' : b.round \in Rounds /\ b.row = rows[b.round] /\ b = [round |-> b.round, row |-> rows[b.round]]
                        /\ PickedStatuses(b.row)
  <2>1. ASSUME NEW b \in batch'
        PROVE  \E r \in Rounds : PickedStatuses(rows[r]) /\ b = [round |-> r, row |-> rows[r]]
    <3>1. \A r \in Firsts(Picked) : r \in Rounds /\ PickedStatuses(rows[r])  BY DEF Firsts, Picked
    <3> QED  BY <1>1, <2>1, <3>1
  <2> QED  BY <2>1
<1>3. batch' \subseteq [round : Rounds, row : RowType]  BY <1>2 DEF IInv, TypeOK
<1>4. TypeOK'  BY <1>1, <1>3 DEF IInv, TypeOK, serverVars, dbVars
<1>5. \A r \in Rounds : StillSo(rows[r], r)  BY DEF IInv, ChainInStep, StillSo
<1>6. BatchIsFresh'
  <2>1. UNCHANGED <<rows, chain>>  BY <1>1 DEF dbVars
  <2> QED  BY <1>1, <1>2, <1>5, <2>1, AtRest DEF BatchIsFresh, StillSo
<1> QED  BY <1>1, <1>4, <1>6, AtRest, BatchStep

(* The row the worker takes is still as PICK read it in all the worker relies on. *)
LEMMA TakeKeeps ==
    ASSUME IInv, Take
    PROVE  IInv'
<1> USE DEF serverVars, dbVars
<1>1. job = Idle /\ UNCHANGED <<serverVars, dbVars, chain, mempool, budget>>  BY DEF Take
<1>2. PICK next \in batch :
          /\ batch' = batch \ {next}
          /\ job' = IF OpenBranch(next.row) \/ SettleBranch(next.row)
                    THEN [pc |-> IF OpenBranch(next.row) THEN "readOpen" ELSE "readSettled",
                          round |-> next.round, row |-> next.row, placing |-> {}]
                    ELSE Idle
  BY DEF Take
<1>3. next.round \in Rounds /\ next.row \in RowType  BY DEF IInv, TypeOK
<1>4. /\ PickedStatuses(next.row) /\ rows[next.round].chainStatus = next.row.chainStatus
      /\ StillSo(next.row, next.round)
      /\ \A b \in batch' : b.round # next.round
  BY <1>2 DEF IInv, BatchIsFresh
<1>5. job' \in JobType
  BY <1>2, <1>3, AtRest, SettlementAssumption DEF JobType, OpenPcs, SettlePcs, Rounds
<1>6. TypeOK'  BY <1>1, <1>2, <1>5 DEF IInv, TypeOK
<1>7. JobOnPath' /\ JobIsFresh' /\ JobSaw'
  <2>1. CASE job' = Idle  BY <2>1, AtRest
  <2>2. CASE job' # Idle
    <3>1. /\ job'.pc = IF OpenBranch(next.row) THEN "readOpen" ELSE "readSettled"
          /\ job'.round = next.round /\ job'.row = next.row /\ job'.placing = {}
          /\ OpenBranch(next.row) \/ SettleBranch(next.row)
      BY <1>2, <2>2
    <3>2. JobOnPath'  BY <1>3, <3>1 DEF JobOnPath, OpenPcs, SettlePcs
    <3>3. JobIsFresh'  BY <1>1, <1>4, <3>1 DEF JobIsFresh, StillSo, SettleBranch
    <3>4. JobSaw'  BY <3>1 DEF JobSaw
    <3> QED  BY <3>2, <3>3, <3>4
  <2> QED  BY <2>1, <2>2
<1>8. BatchIsFresh'
  <2>1. Working' => job'.round = next.round  BY <1>2, AtRest
  <2> QED  BY <1>1, <1>2, <1>4, <2>1 DEF IInv, BatchIsFresh, StillSo
<1> QED  BY <1>1, <1>6, <1>7, <1>8, BatchStep

(* A worker that stops forgets its batch, and its transactions stay behind. *)
LEMMA CrashKeeps ==
    ASSUME IInv, WorkerCrash
    PROVE  IInv'
<1> USE DEF serverVars, dbVars
<1>1. /\ job' = Idle /\ batch' = {} /\ mempool' = Disowned
      /\ UNCHANGED <<serverVars, dbVars, chain>>
      /\ budget > 0 /\ budget' = budget - 1
  BY DEF WorkerCrash, Spend
<1>2. TypeOK  BY DEF IInv
<1>3. mempool' \subseteq TxType /\ MempoolFits'  BY <1>1, <1>2, DisownedOf DEF IInv, MempoolFits
<1>4. budget' \in 0 .. MaxFaults  BY <1>1, <1>2, SettlementAssumption DEF TypeOK
<1>5. TypeOK'  BY <1>1, <1>2, <1>3, <1>4, AtRest DEF TypeOK
<1>6. BatchIsFresh'  BY <1>1 DEF BatchIsFresh
<1>7. UnbornHasNoRow' /\ ChainFits'  BY <1>1 DEF IInv, UnbornHasNoRow, ChainFits
<1>8. RecordIsTrue' /\ PlacedHadResults'  BY <1>1 DEF IInv, RecordIsTrue, PlacedHadResults
<1>9. ChainInStep'
  <2>1. \A tx \in mempool' : \E t \in mempool : t.kind = tx.kind /\ t.round = tx.round  BY <1>1, <1>2, DisownedOf
  <2> QED  BY <1>1, <2>1 DEF IInv, ChainInStep
<1> QED  BY <1>1, <1>3, <1>5, <1>6, <1>7, <1>8, <1>9, AtRest DEF IInv

(* Whatever fails, attempt() catches it. *)
LEMMA FaultKeeps ==
    ASSUME IInv, Reverted \/ EstimateFails \/ Overtaken \/ Stall \/ RpcFails \/ BadSignature \/ DbFails
    PROVE  IInv'
<1>1. budget' \in 0 .. MaxFaults
  <2>1. UNCHANGED budget \/ (budget > 0 /\ budget' = budget - 1)
    BY DEF Reverted, EstimateFails, Overtaken, Stall, RpcFails, BadSignature, DbFails, Spend
  <2> QED  BY <2>1, SettlementAssumption DEF IInv, TypeOK
<1>2. Working
  BY DEF Working, Reverted, EstimateFails, Overtaken, Stall, RpcFails, BadSignature, DbFails
<1>3. \E error \in {"stall", "revert", "error"} : Fail(error)
  BY DEF Reverted, EstimateFails, Overtaken, Stall, RpcFails, BadSignature, DbFails
<1> QED  BY <1>1, <1>2, <1>3, FailKeeps
-----------------------------------------------------------------------------
(* The steps of the game server. *)
LEMMA ServerKeeps ==
    ASSUME IInv, ServerNext
    PROVE  IInv'
BY IssueKeeps, MemoryKeeps, CloseKeeps, InsertKeeps DEF ServerNext, SaveNext

(* The steps of the worker and its faults. *)
LEMMA WorkerKeeps ==
    ASSUME IInv, WorkerStep \/ WorkerFault
    PROVE  IInv'
BY PickKeeps, TakeKeeps, ReadKeeps, SendKeeps, WriteKeeps, PayoutsKeep, FaultKeeps, CrashKeeps
   DEF WorkerStep, WorkerFault

(* Nothing changes: nor does the invariant. *)
LEMMA StutterKeeps ==
    ASSUME IInv, UNCHANGED vars
    PROVE  IInv'
<1>1. UNCHANGED <<game, dbVars, chain, mempool, workerVars>> /\ TypeOK'
  BY DEF IInv, TypeOK, vars, serverVars, dbVars, workerVars
<1> QED  BY <1>1, ServerMemory

(* The invariant holds of every run, for any players, rounds, batch size, retry        *)
(* budget and number of faults.                                                    *)
THEOREM IInvAlways == Spec => []IInv
<1>1. IInv /\ [Next]_vars => IInv'
  BY ServerKeeps, WorkerKeeps, ChainKeeps, StutterKeeps DEF Next
<1> QED  BY InitFits, <1>1, PTL DEF Spec

(* The tables, the mempool and the worker's job stay of their types, the rule of      *)
(* schema.sql on chain_status among them.                                        *)
THEOREM TypeCorrect == Spec => []TypeOK
BY IInvAlways, PTL DEF IInv

(* The rows never run ahead of the chain, nor the chain ahead of the game, in spite   *)
(* of replaced, late and reverted transactions, failures and restarts.             *)
THEOREM RowsFollowChain == Spec => []ChainInStep
BY IInvAlways, PTL DEF IInv

(* A settlement record is what the escrow did, and payout_units is only of players   *)
(* it placed, however often the settlement was tried.                             *)
THEOREM RecordsAreTrue == Spec => []RecordIsTrue
BY IInvAlways, PTL DEF IInv

(* Nobody is placed who has no result in the round or did not pay to enter it.       *)
THEOREM PlacedPlayedAndPaid == Spec => []PlacedHadResults
BY IInvAlways, PTL DEF IInv
-----------------------------------------------------------------------------
(* No status goes back: of one row over one step. *)
Onward(r) ==
    /\ rows[r].chainStatus = "dead" => rows'[r].chainStatus = "dead"
    /\ rows[r].chainStatus \in {"open", "settling", "settled"} => rows'[r].chainStatus # "open_requested"

(* The server writes no chain_status but at a row's birth. *)
LEMMA ServerOnward ==
    ASSUME IInv, ServerNext, NEW r \in Rounds
    PROVE  Onward(r)
<1> USE DEF Onward
<1>1. rows \in [Rounds -> RowType]  BY DEF IInv, TypeOK
<1>2. ASSUME NEW q \in Rounds, Issue(q) PROVE Onward(r)
  <2>1. rows[q].chainStatus = "none"  BY <1>2 DEF Issue, IInv, UnbornHasNoRow, NoRow
  <2>2. q # r => rows'[r] = rows[r]  BY <1>1, <1>2 DEF Issue
  <2> QED  BY <2>1, <2>2
<1>3. ASSUME NEW q \in Rounds, WriteAbandoned(q) \/ WriteCompleted(q) PROVE Onward(r)
  <2>1. \E status : rows' = [rows EXCEPT ![q] = [rows[q] EXCEPT !.status = status]]
    BY <1>1, <1>3 DEF WriteAbandoned, WriteCompleted
  <2> QED  BY <1>1, <2>1 DEF RowType
<1>4. CASE UNCHANGED rows  BY <1>4
<1> QED  BY <1>2, <1>3, <1>4
         DEF ServerNext, SaveNext, StartRound, EndRound, AbandonLobby, InsertResult, ServerQueryFails, ServerCrash, dbVars

(* A failure writes the status of PICK over a row that, since then, only the job      *)
(* itself has moved.                                                             *)
LEMMA FailOnward ==
    ASSUME IInv, Working, NEW error \in {"stall", "revert", "error"}, Fail(error), NEW r \in Rounds
    PROVE  Onward(r)
<1>1. /\ job.round \in Rounds /\ rows[job.round] \in RowType /\ rows \in [Rounds -> RowType]
  BY AsItStands DEF IInv, TypeOK
<1>2. \A q \in Rounds : q # job.round => rows'[q] = rows[q]  BY <1>1 DEF Fail
<1>3. rows'[job.round].chainStatus = AfterFailure(error)  BY <1>1 DEF Fail, RowType
<1>4. AfterFailure(error) \in {"stalled", "dead", job.row.chainStatus}  BY DEF AfterFailure
<1>5. AfterFailure(error) = "open_requested" => rows[job.round].chainStatus = "open_requested"
  BY <1>4 DEF IInv, JobIsFresh, OpenBranch
<1>6. rows[job.round].chainStatus # "dead"
  BY DEF IInv, JobIsFresh, OpenBranch
<1> QED  BY <1>2, <1>3, <1>5, <1>6 DEF Onward

(* The worker revives no dead letter and asks for no second opening. *)
LEMMA WorkerOnward ==
    ASSUME IInv, WorkerStep \/ WorkerFault, NEW r \in Rounds
    PROVE  Onward(r)
<1>1. CASE UNCHANGED rows  BY <1>1 DEF Onward
<1>2. CASE MarkOpen \/ MarkSettled \/ MarkSettling \/ RecordOpened \/ RecordSettled
  <2>1. Working  BY <1>2 DEF Working, MarkOpen, MarkSettled, MarkSettling, RecordOpened, RecordSettled
  <2>2. job.round \in Rounds /\ rows[job.round] \in RowType /\ rows \in [Rounds -> RowType]
    BY <2>1, AsItStands DEF IInv, TypeOK
  <2>3. rows[job.round].chainStatus # "dead"  BY <2>1 DEF IInv, JobIsFresh, OpenBranch
  <2>4. \A q \in Rounds : q # job.round => rows'[q] = rows[q]
    BY <1>2, <2>2 DEF MarkOpen, MarkSettled, MarkSettling, RecordOpened, RecordSettled
  <2>5. rows'[job.round].chainStatus \in {"open", "settling", "settled"}
    BY <1>2, <2>2 DEF MarkOpen, MarkSettled, MarkSettling, RecordOpened, RecordSettled, RowType
  <2> QED  BY <2>3, <2>4, <2>5 DEF Onward
<1>3. CASE Reverted \/ EstimateFails \/ Overtaken \/ Stall \/ RpcFails \/ BadSignature \/ DbFails
  <2>1. Working
    BY <1>3 DEF Working, Reverted, EstimateFails, Overtaken, Stall, RpcFails, BadSignature, DbFails
  <2>2. \E error \in {"stall", "revert", "error"} : Fail(error)
    BY <1>3 DEF Reverted, EstimateFails, Overtaken, Stall, RpcFails, BadSignature, DbFails
  <2> QED  BY <2>1, <2>2, FailOnward
<1> QED  BY <1>1, <1>2, <1>3 DEF WorkerStep, WorkerFault, dbVars, Pick, Take, ReadOpen, ReadSettled,
            ReadResults, ReadEntered, SendOpen, SendSettle, Send, WritePayouts, WorkerCrash

(* A dead letter stays one and an opened round is never asked to open again: a        *)
(* failure writes the status PICK read, and nobody but that job has moved it since.  *)
THEOREM StatusesMoveOn == Spec => NoWayBack
<1>1. IInv /\ [Next]_vars => \A r \in Rounds : Onward(r)
  <2> SUFFICES ASSUME IInv, [Next]_vars, NEW r \in Rounds PROVE Onward(r)
    OBVIOUS
  <2>1. CASE ServerNext  BY <2>1, ServerOnward
  <2>2. CASE WorkerStep \/ WorkerFault  BY <2>2, WorkerOnward
  <2>3. CASE ChainNext \/ UNCHANGED vars
    BY <2>3 DEF Onward, ChainNext, Enter, Mine, MineRefused, dbVars, vars
  <2> QED  BY <2>1, <2>2, <2>3 DEF Next
<1>2. (\A r \in Rounds : Onward(r)) =>
        \A r \in Rounds :
          /\ rows[r].chainStatus = "dead" => rows'[r].chainStatus = "dead"
          /\ rows[r].chainStatus \in {"open", "settling", "settled"} => rows'[r].chainStatus # "open_requested"
  BY DEF Onward
<1> QED  BY <1>1, <1>2, IInvAlways, PTL DEF NoWayBack, Spec
-----------------------------------------------------------------------------
(* The chain implements the ledger, money left out. *)
LEMMA PhaseOf ==
    ASSUME NEW r \in Rounds
    PROVE  /\ Phase[r] = "none" <=> ~chain[r].open /\ ~chain[r].settled
           /\ Phase[r] = "open" <=> chain[r].open /\ ~chain[r].settled
BY DEF Phase

(* A stake taken by the chain is a seat of the ledger. *)
LEMMA EnterIsEnter ==
    ASSUME TypeOK, NEW r \in Rounds, NEW p \in Players, Enter(p, r)
    PROVE  Ledger!Enter(r, p)
<1>1. chain[r] \in ChainType /\ chain \in [Rounds -> ChainType]  BY DEF TypeOK
<1>2. /\ chain' = [chain EXCEPT ![r] = [chain[r] EXCEPT !.entered = chain[r].entered \cup {p}]]
      /\ Phase[r] = "open" /\ p \notin chain[r].entered
  BY <1>1, PhaseOf DEF Enter
<1>3. /\ \A q \in Rounds : q # r => chain'[q] = chain[q]
      /\ chain'[r].open = chain[r].open /\ chain'[r].settled = chain[r].settled
      /\ chain'[r].placed = chain[r].placed /\ chain'[r].entered = chain[r].entered \cup {p}
  BY <1>1, <1>2 DEF ChainType
<1>4. UNCHANGED Phase  BY <1>3 DEF Phase
<1>5. UNCHANGED [q \in Rounds |-> chain[q].placed]  BY <1>3
<1>6. [q \in Rounds |-> chain'[q].entered] =
      [[q \in Rounds |-> chain[q].entered] EXCEPT ![r] = @ \cup {p}]
  BY <1>3
<1> QED  BY <1>2, <1>4, <1>5, <1>6 DEF Ledger!Enter

(* What the chain executes is an opening or a settlement of the ledger. *)
LEMMA MineIsStep ==
    ASSUME TypeOK, ChainFits, NEW tx \in mempool, Accepts(tx), Execute(tx)
    PROVE  Ledger!Open(tx.round) \/ Ledger!Settle(tx.round)
<1> DEFINE r == tx.round
<1>1. r \in Rounds /\ tx.kind \in {"open", "settle"}  BY DEF TypeOK, TxType
<1>2. /\ \A q \in Rounds : q # r => chain'[q] = chain[q]
      /\ \A q \in Rounds : chain'[q].entered = chain[q].entered
      /\ tx.kind = "open" => /\ chain'[r].open /\ ~chain[r].open
                             /\ chain'[r].settled = chain[r].settled /\ chain'[r].placed = chain[r].placed
      /\ tx.kind # "open" => /\ chain[r].open /\ ~chain[r].settled
                             /\ tx.placing \subseteq chain[r].entered
                             /\ chain'[r].open /\ chain'[r].settled /\ chain'[r].placed = tx.placing
  BY ExecuteOf
<1>3. UNCHANGED [q \in Rounds |-> chain[q].entered]  BY <1>2
<1>4. CASE tx.kind = "open"
  <2>1. ~chain[r].settled  BY <1>1, <1>2, <1>4 DEF ChainFits
  <2>2. Phase[r] = "none"  BY <1>1, <1>2, <1>4, <2>1, PhaseOf
  <2>3. Phase' = [Phase EXCEPT ![r] = "open"]  BY <1>1, <1>2, <1>4, <2>1 DEF Phase
  <2>4. UNCHANGED [q \in Rounds |-> chain[q].placed]  BY <1>2, <1>4
  <2> QED  BY <1>3, <2>2, <2>3, <2>4 DEF Ledger!Open, Ledger!moneyVars
<1>5. CASE tx.kind # "open"
  <2>1. Phase[r] = "open"  BY <1>1, <1>2, <1>5, PhaseOf
  <2>2. Phase' = [Phase EXCEPT ![r] = "settled"]  BY <1>1, <1>2, <1>5 DEF Phase
  <2>3. /\ tx.placing \in SUBSET [q \in Rounds |-> chain[q].entered][r]
        /\ [q \in Rounds |-> chain'[q].placed] = [[q \in Rounds |-> chain[q].placed] EXCEPT ![r] = tx.placing]
    BY <1>1, <1>2, <1>5
  <2>4. \E winners \in SUBSET [q \in Rounds |-> chain[q].entered][r] :
           /\ [q \in Rounds |-> chain'[q].placed] = [[q \in Rounds |-> chain[q].placed] EXCEPT ![r] = winners]
           /\ \A p \in Players : IF p \in winners THEN [o \in Players |-> 0][p] >= [o \in Players |-> 0][p]
                                 ELSE [o \in Players |-> 0][p] = [o \in Players |-> 0][p]
    <3> USE <2>3
    <3> WITNESS tx.placing \in SUBSET [q \in Rounds |-> chain[q].entered][r]
    <3> QED  OBVIOUS
  <2>5. [o \in Players |-> 0] \in [Players -> Nat] /\ 0 \in 0 .. 0  OBVIOUS
  <2> QED  BY <1>3, <2>1, <2>2, <2>4, <2>5 DEF Ledger!Settle
<1> QED  BY <1>4, <1>5

(* The chain the worker sees takes the steps of the ledger the contract is proved to  *)
(* implement, whichever of the competing transactions mines.                       *)
THEOREM ChainImplementsLedger == Spec => ChainIsLedger
<1>1. Init => Ledger!Init
  <2> SUFFICES ASSUME Init PROVE Ledger!Init
    OBVIOUS
  <2>1. Phase = [r \in Rounds |-> "none"]  BY DEF Init, Phase
  <2> QED  BY <2>1 DEF Init, Ledger!Init
<1>2. IInv /\ [Next]_vars => [Ledger!Next]_(Ledger!vars)
  <2> SUFFICES ASSUME IInv, [Next]_vars PROVE Ledger!Next \/ UNCHANGED Ledger!vars
    OBVIOUS
  <2>1. CASE UNCHANGED chain
    BY <2>1 DEF Phase, Ledger!vars, Ledger!roundVars, Ledger!moneyVars
  <2>2. ASSUME NEW p \in Players, NEW r \in Rounds, Enter(p, r) PROVE Ledger!Next
    BY <2>2, EnterIsEnter DEF IInv, Ledger!Next
  <2>3. ASSUME NEW tx \in mempool, Accepts(tx), Execute(tx) PROVE Ledger!Next
    <3>1. tx.round \in Rounds  BY DEF IInv, TypeOK, TxType
    <3> QED  BY <2>3, <3>1, MineIsStep DEF IInv, Ledger!Next
  <2>4. CASE ChainNext  BY <2>1, <2>2, <2>3, <2>4 DEF ChainNext, Mine, MineRefused
  <2>5. CASE ServerNext
    BY <2>1, <2>5 DEF ServerNext, SaveNext, Issue, StartRound, EndRound, AbandonLobby, WriteAbandoned,
       WriteCompleted, InsertResult, ServerQueryFails, ServerCrash
  <2>6. CASE WorkerStep \/ WorkerFault
    BY <2>1, <2>6 DEF WorkerStep, WorkerFault, Pick, Take, ReadOpen, ReadSettled, ReadResults, ReadEntered,
       SendOpen, SendSettle, Send, MarkOpen, MarkSettled, MarkSettling, RecordOpened, RecordSettled, WritePayouts,
       WorkerCrash, Fail, Reverted, EstimateFails, Overtaken, Stall, RpcFails, BadSignature, DbFails
  <2>7. CASE UNCHANGED vars  BY <2>1, <2>7 DEF vars
  <2> QED  BY <2>4, <2>5, <2>6, <2>7 DEF Next
<1> QED  BY <1>1, <1>2, IInvAlways, PTL DEF Spec, ChainIsLedger, Ledger!Spec
=============================================================================
