--------------------------------- MODULE Sender ---------------------------------
(***************************************************************************)
(* The operator's transactions (services/settler/tx.js): a send takes the nonce of   *)
(* the last mined transaction, waits for a receipt with a deadline, and replaces at   *)
(* the same nonce with a higher fee.  Module Settlement has the sends as steps of a    *)
(* job; here is how one of them comes to its end.                                  *)
(*                                                                             *)
(* The mempool is that of services/settler/test/stubRpc.js: it takes whatever is not   *)
(* below the mined nonce, never mines what is under the floor, and mines in the order   *)
(* of nonces.  A receipt may not be seen although it is there (getReceipt catches), a   *)
(* deadline may pass at any time, and the worker may die.  Amounts are in hundredths    *)
(* of a gwei.                                                                    *)
(***************************************************************************)
EXTENDS Integers, Sequences, FiniteSets, FiniteSetsExt

CONSTANTS
    SendMax,        \* bounds a run: sends
    MaxAttempts,
    Floor,          \* FEE_FLOOR
    BaseFees,       \* what the base fee may be
    Stalled         \* whether a transaction under the floor may be there from before

ASSUME SenderAssumption ==
    /\ SendMax \in Nat /\ MaxAttempts \in Nat \ {0} /\ Floor \in Nat \ {0}
    /\ BaseFees \subseteq Nat /\ Stalled \in BOOLEAN

SendIds == 1 .. SendMax

VARIABLES
    baseFee,
    queue,      \* the mempool: send, nonce and fee of each transaction; send 0 is foreign
    mined,      \* the mined ones by nonce, from 0: send and ok
    current,    \* the send in progress: id, pc, nonce, attempt and hashes (the fees sent)
    outcome     \* per send: what it returned or threw

senderVars == <<baseFee, queue, mined, current, outcome>>

Latest == Len(mined)
PendingCount == Max({Latest} \cup {t.nonce + 1 : t \in queue})
NoSend == [id |-> 0, pc |-> "idle", nonce |-> 0, attempt |-> 0, hashes |-> {}]
Own == {i \in 1 .. Latest : mined[i].send = current.id}

(* defaultFeeRule. *)
Fee(base, attempt) == Max({Floor, ((2 * base + 100 * attempt) * (75 + 25 * attempt)) \div 100})

NonceFromPending == PendingCount  \* slip
NonceToUse == Latest

(* send, up to the first attempt; estimateGas may throw. *)
Begin(k) ==
    /\ current = NoSend /\ outcome[k] = "none"
    /\ \A j \in 1 .. k - 1 : outcome[j] # "none"
    /\ \/ /\ current' = [id |-> k, pc |-> "send", nonce |-> NonceToUse, attempt |-> 1, hashes |-> {}]
          /\ UNCHANGED outcome
       \/ outcome' = [outcome EXCEPT ![k] = "error"] /\ UNCHANGED current
    /\ UNCHANGED <<baseFee, queue, mined>>

Ends(result) ==
    /\ outcome' = [outcome EXCEPT ![current.id] = result]
    /\ current' = NoSend

(* One attempt: the node refuses it as too low, for another reason, or takes it. *)
SendRaw ==
    /\ current.pc = "send"
    /\ UNCHANGED <<baseFee, mined>>
    /\ \/ /\ current.nonce < Latest
          /\ UNCHANGED queue
          /\ \/ current.hashes # {} /\ current' = [current EXCEPT !.pc = "late"] /\ UNCHANGED outcome
             \/ current.hashes = {} /\ Ends("error")
       \/ Ends("error") /\ UNCHANGED queue
       \/ /\ current.nonce >= Latest
          /\ LET fee == Fee(baseFee, current.attempt)
             IN  /\ queue' = queue \cup {[send |-> current.id, nonce |-> current.nonce, fee |-> fee]}
                 /\ current' = [current EXCEPT !.pc = "wait", !.hashes = @ \cup {fee}]
          /\ UNCHANGED outcome

(* finish, once a receipt is seen. *)
Receive ==
    /\ current.pc \in {"wait", "late"} /\ Own # {}
    /\ Ends(IF \A i \in Own : mined[i].ok THEN "done" ELSE "reverted")
    /\ UNCHANGED <<baseFee, queue, mined>>

Deadline ==
    /\ UNCHANGED <<baseFee, queue, mined>>
    /\ \/ /\ current.pc = "wait" /\ current.attempt < MaxAttempts
          /\ current' = [current EXCEPT !.pc = "send", !.attempt = @ + 1] /\ UNCHANGED outcome
       \/ current.pc = "wait" /\ current.attempt = MaxAttempts /\ Ends("stalled")
       \/ current.pc = "late" /\ Ends("error")

WorkerDies ==
    /\ current # NoSend
    /\ Ends("error")
    /\ UNCHANGED <<baseFee, queue, mined>>

(* The chain: a block takes the next transaction that pays the base fee. *)
MineNext ==
    \E t \in queue, ok \in BOOLEAN :
        /\ t.nonce = Latest /\ t.fee >= Floor /\ t.fee >= baseFee
        /\ mined' = Append(mined, [send |-> t.send, ok |-> ok])
        /\ queue' = {u \in queue : u.nonce > t.nonce}
        /\ UNCHANGED <<baseFee, current, outcome>>

BaseFeeMoves ==
    /\ \E b \in BaseFees \ {baseFee} : baseFee' = b
    /\ UNCHANGED <<queue, mined, current, outcome>>

SenderInit ==
    /\ baseFee \in BaseFees
    /\ queue \in {{}} \cup (IF Stalled THEN {{[send |-> 0, nonce |-> 0, fee |-> Floor - 1]}} ELSE {})
    /\ mined = <<>> /\ current = NoSend
    /\ outcome = [k \in SendIds |-> "none"]

SenderNext ==
    \/ \E k \in SendIds : Begin(k)
    \/ SendRaw \/ Receive \/ Deadline \/ WorkerDies
    \/ MineNext \/ BaseFeeMoves

SenderSpec == SenderInit /\ [][SenderNext]_senderVars

-----------------------------------------------------------------------------
Outcomes == {"none", "done", "reverted", "stalled", "error"}

(* The type of every variable. *)
SenderTypeOK ==
    /\ baseFee \in BaseFees
    /\ queue \subseteq [send : 0 .. SendMax, nonce : Nat, fee : Nat]
    /\ mined \in Seq([send : 0 .. SendMax, ok : BOOLEAN])
    /\ current \in [id : 0 .. SendMax, pc : {"idle", "send", "wait", "late"}, nonce : Nat,
                    attempt : 0 .. MaxAttempts, hashes : SUBSET Nat]
    /\ outcome \in [SendIds -> Outcomes]

(* tx.js:10 "so a stalled transaction is replaced instead of queued behind": nothing  *)
(* of the operator ever waits behind a transaction that is not mined, all it sends      *)
(* can be mined, a send takes effect at most once however many replacements it made,    *)
(* and what it reports happened: a receipt is that of its own transaction, and what     *)
(* it reports as reverted did revert.                                                *)
SendsAreTrue ==
    /\ \A t \in queue : t.nonce <= Latest /\ (t.send # 0 => t.fee >= Floor)
    /\ \A i, j \in 1 .. Latest : mined[i].send = mined[j].send => i = j
    /\ \A k \in SendIds :
          /\ outcome[k] = "done" => \E i \in 1 .. Latest : mined[i] = [send |-> k, ok |-> TRUE]
          /\ outcome[k] = "reverted" => \E i \in 1 .. Latest : mined[i] = [send |-> k, ok |-> FALSE]
=============================================================================
