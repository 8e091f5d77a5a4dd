----------------------------- MODULE ServicesProofs -----------------------------
(***************************************************************************)
(* What holds of the services' parts for any constants: the operator's transactions   *)
(* (Sender: one nonce, one effect, and a report that is true, for any number of sends   *)
(* and retries, any base fees, lost receipts and deaths of the worker), its tools      *)
(* (ArenaCli), the limiters (Limits), and the settlement's list (Roster: whatever rows   *)
(* were there, it is one the signer and the escrow take).  They share no state; each     *)
(* has its inductive invariant and its theorems.                                   *)
(***************************************************************************)
EXTENDS Services, AccountsProofs, Sums, SequenceTheorems

-----------------------------------------------------------------------------
(* The operator's transactions. *)

Sending == current.id # 0

(* Everything in the mempool competes for the next nonce: a send takes the one after   *)
(* the last mined, and what mines clears the rest.                                  *)
OneNonce ==
    /\ \A t \in queue : t.nonce = Latest
    /\ \A t \in queue : IF t.send = 0 THEN t.fee < Floor ELSE t.fee >= Floor
    /\ current.nonce <= Latest

(* A send that has mined did so at its nonce, and has nothing left in the mempool. *)
NoEcho ==
    /\ \A i \in 1 .. Latest : mined[i].send # 0
    /\ \A i, j \in 1 .. Latest : mined[i].send = mined[j].send => i = j
    /\ \A t \in queue : \A i \in 1 .. Latest : mined[i].send # t.send
    /\ Sending => \A i \in 1 .. Latest : mined[i].send = current.id => i = current.nonce + 1
    /\ Sending => \A t \in queue : t.send = current.id => t.nonce = current.nonce

(* The send in progress has no outcome, and one that did not begin left no trace. *)
Unsent(k) ==
    /\ \A t \in queue : t.send # k
    /\ \A i \in 1 .. Latest : mined[i].send # k
InOrder ==
    /\ Sending <=> current.pc # "idle"
    /\ ~Sending => current = NoSend
    /\ Sending => outcome[current.id] = "none"
    /\ \A k \in SendIds : outcome[k] = "none" /\ k # current.id => Unsent(k)

OutcomesAreTrue ==
    \A k \in SendIds :
        /\ outcome[k] = "done" => \E i \in 1 .. Latest : mined[i] = [send |-> k, ok |-> TRUE]
        /\ outcome[k] = "reverted" => \E i \in 1 .. Latest : mined[i] = [send |-> k, ok |-> FALSE]

SInv == SenderTypeOK /\ OneNonce /\ NoEcho /\ InOrder /\ OutcomesAreTrue

-----------------------------------------------------------------------------
(* Nothing is sent; a stranger may be stalled in the mempool. *)
LEMMA SenderInitFits == ASSUME SenderInit PROVE SInv
<1> USE SenderAssumption DEF SenderInit, NoSend
<1>1. mined \in Seq([send : 0 .. SendMax, ok : BOOLEAN]) /\ Latest = 0  BY DEF Latest
<1>2. \A t \in queue : t = [send |-> 0, nonce |-> 0, fee |-> Floor - 1]  OBVIOUS
<1>3. queue \subseteq [send : 0 .. SendMax, nonce : Nat, fee : Nat]  BY <1>2
<1>4. SenderTypeOK  BY <1>1, <1>3 DEF SenderTypeOK, SendIds, Outcomes
<1>5. OneNonce /\ NoEcho  BY <1>1, <1>2 DEF OneNonce, NoEcho, Sending
<1>6. InOrder /\ OutcomesAreTrue
  BY <1>1, <1>2 DEF InOrder, Unsent, Sending, OutcomesAreTrue, SendIds
<1> QED  BY <1>4, <1>5, <1>6 DEF SInv

(* defaultFeeRule never asks for less than the floor. *)
LEMMA FeeIsEnough ==
    ASSUME NEW base \in Nat, NEW attempt \in Nat
    PROVE  Fee(base, attempt) \in Nat /\ Fee(base, attempt) >= Floor
<1> DEFINE a == 2 * base + 100 * attempt
           b == 75 + 25 * attempt
           x == (a * b) \div 100
<1>1. a \in Nat /\ b \in Nat  OBVIOUS
<1> HIDE DEF a, b
<1>2. a * b \in Int  BY <1>1
<1> DEFINE ab == a * b
<1> HIDE DEF ab
<1>3. ab \div 100 \in Int  BY <1>2 DEF ab
<1>4. x \in Int  BY <1>3 DEF ab
<1>5. Fee(base, attempt) = Max({Floor, x})  BY DEF Fee, a, b
<1> HIDE DEF x
<1>6. \E m \in {Floor, x} : \A y \in {Floor, x} : y <= m  BY <1>4, SenderAssumption
<1>7. Max({Floor, x}) \in {Floor, x} /\ \A y \in {Floor, x} : y <= Max({Floor, x})  BY <1>6 DEF Max
<1> QED  BY <1>4, <1>5, <1>7, SenderAssumption

(* A send ends: what it leaves in the mempool is not its own any more. *)
LEMMA EndKeeps ==
    ASSUME SInv, Sending, NEW result \in {"done", "reverted", "stalled", "error"}, Ends(result),
           result = "done" => \E i \in 1 .. Latest : mined[i] = [send |-> current.id, ok |-> TRUE],
           result = "reverted" => \E i \in 1 .. Latest : mined[i] = [send |-> current.id, ok |-> FALSE],
           UNCHANGED <<baseFee, queue, mined>>
    PROVE  SInv'
<1> USE DEF SInv
<1>1. current.id \in SendIds  BY SenderAssumption DEF SenderTypeOK, Sending, SendIds
<1>2. current' = NoSend /\ outcome' = [outcome EXCEPT ![current.id] = result]  BY DEF Ends
<1>3. \A k \in SendIds : outcome'[k] = IF k = current.id THEN result ELSE outcome[k]
  BY <1>1, <1>2 DEF SenderTypeOK
<1>4. SenderTypeOK'
  <2>1. NoSend \in [id : 0 .. SendMax, pc : {"idle", "send", "wait", "late"}, nonce : Nat,
                    attempt : 0 .. MaxAttempts, hashes : SUBSET Nat]
    BY SenderAssumption DEF NoSend
  <2> QED  BY <1>1, <1>2, <2>1 DEF SenderTypeOK, Outcomes
<1>5. Latest \in Nat /\ UNCHANGED Latest  BY DEF Latest, SenderTypeOK
<1>6. OneNonce' /\ NoEcho'
  BY <1>2, <1>5 DEF OneNonce, NoEcho, NoSend, Sending
<1>7. InOrder'
  BY <1>1, <1>2, <1>3, <1>5 DEF InOrder, Unsent, NoSend, Sending, SendIds
<1>8. OutcomesAreTrue'  BY <1>3, <1>5 DEF OutcomesAreTrue
<1> QED  BY <1>4, <1>6, <1>7, <1>8

(* A send begins and takes the nonce after the last mined one. *)
LEMMA BeginKeeps ==
    ASSUME SInv, NEW k \in SendIds, Begin(k)
    PROVE  SInv'
<1> USE DEF SInv
<1>1. /\ current = NoSend /\ outcome[k] = "none" /\ ~Sending /\ k \in 1 .. SendMax
      /\ UNCHANGED <<baseFee, queue, mined>>
  BY DEF Begin, NoSend, Sending, SendIds
<1>2. Latest \in Nat /\ UNCHANGED Latest  BY <1>1 DEF Latest, SenderTypeOK
<1>3. Unsent(k)  BY <1>1, SenderAssumption DEF InOrder, NoSend, SendIds
<1>4. CASE current' = [id |-> k, pc |-> "send", nonce |-> NonceToUse, attempt |-> 1, hashes |-> {}]
           /\ UNCHANGED outcome
  <2>1. /\ current'.id = k /\ current'.pc = "send" /\ current'.nonce = Latest
        /\ current' \in [id : 0 .. SendMax, pc : {"idle", "send", "wait", "late"}, nonce : Nat,
                         attempt : 0 .. MaxAttempts, hashes : SUBSET Nat]
    BY <1>1, <1>2, <1>4, SenderAssumption DEF NonceToUse
  <2>2. k # 0  BY <1>1, SenderAssumption
  <2>3. SenderTypeOK'  BY <1>1, <1>4, <2>1 DEF SenderTypeOK
  <2>4. OneNonce' /\ NoEcho'
    BY <1>1, <1>2, <1>3, <2>1 DEF OneNonce, NoEcho, Unsent, Sending
  <2>5. InOrder' /\ OutcomesAreTrue'
    BY <1>1, <1>2, <1>4, <2>1, <2>2, SenderAssumption DEF InOrder, OutcomesAreTrue, Unsent, Sending, NoSend, SendIds
  <2> QED  BY <2>3, <2>4, <2>5
<1>5. CASE outcome' = [outcome EXCEPT ![k] = "error"] /\ UNCHANGED current
  <2>1. \A j \in SendIds : outcome'[j] = IF j = k THEN "error" ELSE outcome[j]  BY <1>5 DEF SenderTypeOK
  <2>2. SenderTypeOK'  BY <1>1, <1>5 DEF SenderTypeOK, Outcomes
  <2>3. OneNonce' /\ NoEcho'  BY <1>1, <1>2, <1>5 DEF OneNonce, NoEcho, Sending
  <2>4. InOrder'
    <3>1. \A j \in SendIds : Unsent(j) => Unsent(j)'  BY <1>1, <1>2 DEF Unsent
    <3>2. ~Sending' /\ current' = NoSend /\ current'.pc = "idle"  BY <1>1, <1>5 DEF Sending, NoSend
    <3> QED  BY <1>5, <2>1, <3>1, <3>2 DEF InOrder
  <2>5. OutcomesAreTrue'  BY <1>1, <1>2, <2>1 DEF OutcomesAreTrue
  <2> QED  BY <2>2, <2>3, <2>4, <2>5
<1> QED  BY <1>4, <1>5 DEF Begin

(* A transaction of this send joins the mempool at the next nonce: had the send mined,  *)
(* its nonce would be behind.                                                      *)
LEMMA TakenKeeps ==
    ASSUME SInv, current.pc = "send", current.nonce >= Latest,
           NEW fee \in Nat, fee >= Floor,
           queue' = queue \cup {[send |-> current.id, nonce |-> current.nonce, fee |-> fee]},
           current' = [current EXCEPT !.pc = "wait", !.hashes = @ \cup {fee}],
           UNCHANGED <<baseFee, mined, outcome>>
    PROVE  SInv'
<1> USE DEF SInv
<1> DEFINE t == [send |-> current.id, nonce |-> current.nonce, fee |-> fee]
<1>1. Sending /\ current.id \in SendIds
  BY SenderAssumption DEF InOrder, SenderTypeOK, Sending, SendIds
<1>2. /\ current' \in [id : 0 .. SendMax, pc : {"idle", "send", "wait", "late"}, nonce : Nat,
                       attempt : 0 .. MaxAttempts, hashes : SUBSET Nat]
      /\ current'.id = current.id /\ current'.pc = "wait" /\ current'.nonce = current.nonce
  BY DEF SenderTypeOK
<1>3. Latest \in Nat /\ UNCHANGED Latest /\ current.nonce = Latest
  BY DEF Latest, SenderTypeOK, OneNonce
<1>4. /\ t \in [send : 0 .. SendMax, nonce : Nat, fee : Nat]
      /\ t.send = current.id /\ t.nonce = Latest /\ t.fee = fee
  BY <1>3 DEF SenderTypeOK
<1> HIDE DEF t
<1>5. queue' = queue \cup {t}  BY DEF t
<1>6. SenderTypeOK'  BY <1>2, <1>4, <1>5 DEF SenderTypeOK
<1>7. OneNonce'  BY <1>1, <1>2, <1>3, <1>4, <1>5 DEF OneNonce, Sending
<1>8. \A i \in 1 .. Latest : mined[i].send # current.id
  BY <1>1, <1>3 DEF NoEcho
<1>9. NoEcho'
  BY <1>1, <1>2, <1>3, <1>4, <1>5, <1>8 DEF NoEcho, Sending
<1>10. InOrder'
  BY <1>1, <1>2, <1>3, <1>4, <1>5 DEF InOrder, Unsent, Sending
<1>11. OutcomesAreTrue'  BY <1>3 DEF OutcomesAreTrue
<1> QED  BY <1>6, <1>7, <1>9, <1>10, <1>11

(* The send goes on to its next wait, or attempt. *)
LEMMA WaitKeeps ==
    ASSUME SInv, NEW pc \in {"send", "late"}, NEW attempt \in 0 .. MaxAttempts, Sending,
           current' = [current EXCEPT !.pc = pc, !.attempt = attempt],
           UNCHANGED <<baseFee, queue, mined, outcome>>
    PROVE  SInv'
<1> USE DEF SInv
<1>1. /\ current' \in [id : 0 .. SendMax, pc : {"idle", "send", "wait", "late"}, nonce : Nat,
                       attempt : 0 .. MaxAttempts, hashes : SUBSET Nat]
      /\ current'.id = current.id /\ current'.pc = pc /\ current'.nonce = current.nonce
  BY DEF SenderTypeOK
<1>2. UNCHANGED Latest  BY DEF Latest
<1>3. SenderTypeOK' /\ OneNonce' /\ NoEcho'  BY <1>1, <1>2 DEF SenderTypeOK, OneNonce, NoEcho, Sending
<1>4. InOrder' /\ OutcomesAreTrue'  BY <1>1, <1>2 DEF InOrder, Unsent, Sending, OutcomesAreTrue
<1> QED  BY <1>3, <1>4

(* An attempt goes to the mempool, is refused, or finds its nonce taken. *)
LEMMA SendRawKeeps == ASSUME SInv, SendRaw PROVE SInv'
<1>1. Sending /\ baseFee \in Nat /\ current.attempt \in Nat /\ current.attempt \in 0 .. MaxAttempts
      /\ current \in [id : 0 .. SendMax, pc : {"idle", "send", "wait", "late"}, nonce : Nat,
                      attempt : 0 .. MaxAttempts, hashes : SUBSET Nat]
  BY SenderAssumption DEF SInv, SenderTypeOK, InOrder, SendRaw
<1>2. CASE Ends("error") /\ UNCHANGED queue  BY <1>1, <1>2, EndKeeps DEF SendRaw
<1>3. CASE UNCHANGED queue /\ current' = [current EXCEPT !.pc = "late"] /\ UNCHANGED outcome
  <2>1. current' = [current EXCEPT !.pc = "late", !.attempt = current.attempt]  BY <1>1, <1>3
  <2> QED  BY <1>1, <1>3, <2>1, WaitKeeps DEF SendRaw
<1>4. CASE /\ current.nonce >= Latest
           /\ queue' = queue \cup {[send |-> current.id, nonce |-> current.nonce, fee |-> Fee(baseFee, current.attempt)]}
           /\ current' = [current EXCEPT !.pc = "wait", !.hashes = @ \cup {Fee(baseFee, current.attempt)}]
           /\ UNCHANGED outcome
  <2>1. Fee(baseFee, current.attempt) \in Nat /\ Fee(baseFee, current.attempt) >= Floor  BY <1>1, FeeIsEnough
  <2> QED  BY <1>4, <2>1, TakenKeeps DEF SendRaw
<1> QED  BY <1>2, <1>3, <1>4 DEF SendRaw

(* A receipt is the send's own, and there is one. *)
LEMMA ReceiveKeeps == ASSUME SInv, Receive PROVE SInv'
<1>1. Sending  BY DEF SInv, InOrder, Receive
<1>2. PICK i \in 1 .. Latest : mined[i].send = current.id  BY DEF Receive, Own
<1>3. mined[i] \in [send : 0 .. SendMax, ok : BOOLEAN]
  <2> DEFINE M == [send : 0 .. SendMax, ok : BOOLEAN]
  <2>1. mined \in Seq(M) /\ i \in 1 .. Len(mined)
    BY DEF SInv, SenderTypeOK, Latest
  <2> HIDE DEF M
  <2>2. mined[i] \in M  BY <2>1
  <2> QED  BY <2>2 DEF M
<1>4. \A j \in Own : j = i  BY <1>2 DEF Own, SInv, NoEcho
<1>5. (\A j \in Own : mined[j].ok) <=> mined[i].ok  BY <1>2, <1>4 DEF Own
<1>6. mined[i] = [send |-> current.id, ok |-> mined[i].ok] /\ mined[i].ok \in BOOLEAN  BY <1>2, <1>3
<1>7. CASE mined[i].ok
  <2>1. Ends("done") /\ mined[i] = [send |-> current.id, ok |-> TRUE]  BY <1>5, <1>6, <1>7 DEF Receive
  <2> QED  BY <1>1, <2>1, EndKeeps DEF Receive
<1>8. CASE ~mined[i].ok
  <2>1. Ends("reverted") /\ mined[i] = [send |-> current.id, ok |-> FALSE]  BY <1>5, <1>6, <1>8 DEF Receive
  <2> QED  BY <1>1, <2>1, EndKeeps DEF Receive
<1> QED  BY <1>7, <1>8

(* No receipt in time: another attempt, or the send is given up. *)
LEMMA DeadlineKeeps == ASSUME SInv, Deadline \/ WorkerDies PROVE SInv'
<1>1. Sending /\ current.attempt \in 0 .. MaxAttempts /\ MaxAttempts \in Nat
  BY SenderAssumption DEF SInv, SenderTypeOK, InOrder, Deadline, WorkerDies
<1>2. CASE WorkerDies  BY <1>1, <1>2, EndKeeps DEF WorkerDies
<1>3. CASE Deadline
  <2>1. CASE Ends("stalled") \/ Ends("error")  BY <1>1, <1>3, <2>1, EndKeeps DEF Deadline
  <2>2. CASE current.attempt < MaxAttempts /\ current' = [current EXCEPT !.pc = "send", !.attempt = @ + 1] /\ UNCHANGED outcome
    <3>1. current.attempt + 1 \in 0 .. MaxAttempts  BY <1>1, <2>2
    <3> QED  BY <1>1, <1>3, <2>2, <3>1, WaitKeeps DEF Deadline
  <2> QED  BY <1>3, <2>1, <2>2 DEF Deadline
<1> QED  BY <1>2, <1>3

(* A block takes one transaction of the next nonce, and the mempool drops the others. *)
LEMMA MineKeeps == ASSUME SInv, MineNext PROVE SInv'
<1> USE DEF SInv
<1>1. PICK t \in queue, ok \in BOOLEAN :
          /\ t.nonce = Latest /\ t.fee >= Floor
          /\ mined' = Append(mined, [send |-> t.send, ok |-> ok])
          /\ queue' = {u \in queue : u.nonce > t.nonce}
          /\ UNCHANGED <<baseFee, current, outcome>>
  BY DEF MineNext
<1>2. t \in [send : 0 .. SendMax, nonce : Nat, fee : Nat]  BY DEF SenderTypeOK
<1>3. t.send # 0  BY <1>1, <1>2, SenderAssumption DEF OneNonce
<1>4. queue' = {}
  <2>1. \A u \in queue : u.nonce = t.nonce /\ ~(u.nonce > t.nonce)  BY <1>1, <1>2 DEF OneNonce
  <2> QED  BY <1>1, <2>1
<1> DEFINE m == [send |-> t.send, ok |-> ok]
<1>5. m \in [send : 0 .. SendMax, ok : BOOLEAN] /\ m.send = t.send  BY <1>2
<1> HIDE DEF m
<1>6. /\ mined' \in Seq([send : 0 .. SendMax, ok : BOOLEAN])
      /\ Latest \in Nat /\ Latest' = Latest + 1 /\ mined'[Latest + 1] = m
      /\ \A i \in 1 .. Latest : mined'[i] = mined[i]
  <2>1. mined' = Append(mined, m) /\ mined \in Seq([send : 0 .. SendMax, ok : BOOLEAN])
    BY <1>1 DEF m, SenderTypeOK
  <2> QED  BY <1>5, <2>1 DEF Latest
<1>7. \A i \in 1 .. Latest' : i = Latest + 1 \/ (i \in 1 .. Latest /\ mined'[i] = mined[i])  BY <1>6
<1>8. SenderTypeOK'  BY <1>1, <1>4, <1>6 DEF SenderTypeOK
<1>9. OneNonce'  BY <1>1, <1>4, <1>6 DEF OneNonce, SenderTypeOK
<1>10. NoEcho'
  <2>1. \A i \in 1 .. Latest : mined[i].send # t.send  BY DEF NoEcho
  <2>2. \A i \in 1 .. Latest' : mined'[i].send # 0  BY <1>3, <1>5, <1>6, <1>7 DEF NoEcho
  <2>3. ASSUME NEW i \in 1 .. Latest', NEW j \in 1 .. Latest', mined'[i].send = mined'[j].send PROVE i = j
    <3>1. CASE i \in 1 .. Latest /\ j \in 1 .. Latest  BY <1>6, <2>3, <3>1 DEF NoEcho
    <3>2. CASE i = Latest + 1 \/ j = Latest + 1  BY <1>5, <1>6, <1>7, <2>1, <2>3, <3>2
    <3> QED  BY <1>7, <3>1, <3>2
  <2>4. Sending' => \A i \in 1 .. Latest' : mined'[i].send = current'.id => i = current'.nonce + 1
    BY <1>1, <1>5, <1>6, <1>7 DEF NoEcho, Sending
  <2> QED  BY <1>4, <2>2, <2>3, <2>4 DEF NoEcho
<1>11. InOrder'
  <2>1. ASSUME NEW k \in SendIds, outcome[k] = "none", k # current.id PROVE Unsent(k)'
    <3>1. t.send # k  BY <2>1 DEF InOrder, Unsent
    <3>2. \A i \in 1 .. Latest' : mined'[i].send # k  BY <1>5, <1>6, <1>7, <2>1, <3>1 DEF InOrder, Unsent
    <3> QED  BY <1>4, <3>2 DEF Unsent
  <2> QED  BY <1>1, <2>1 DEF InOrder, Sending
<1>12. OutcomesAreTrue'
  <2>1. \A i \in 1 .. Latest : i \in 1 .. Latest'  BY <1>6
  <2> QED  BY <1>1, <1>6, <2>1 DEF OutcomesAreTrue
<1> QED  BY <1>8, <1>9, <1>10, <1>11, <1>12

(* Base fees move; nothing of a send does. *)
LEMMA FeesKeep ==
    ASSUME SInv, BaseFeeMoves \/ UNCHANGED senderVars
    PROVE  SInv'
<1> USE DEF SInv, BaseFeeMoves, senderVars
<1>1. UNCHANGED <<queue, mined, current, outcome, Latest>>  BY DEF Latest
<1>2. SenderTypeOK' /\ OneNonce' /\ NoEcho'  BY <1>1 DEF SenderTypeOK, OneNonce, NoEcho, Sending
<1>3. InOrder' /\ OutcomesAreTrue'  BY <1>1 DEF InOrder, Unsent, Sending, OutcomesAreTrue
<1> QED  BY <1>2, <1>3

(* The inductive invariant of the sender. *)
THEOREM SInvAlways == SenderSpec => []SInv
<1>1. SInv /\ [SenderNext]_senderVars => SInv'
  BY BeginKeeps, SendRawKeeps, ReceiveKeeps, DeadlineKeeps, MineKeeps, FeesKeep DEF SenderNext
<1> QED  BY SenderInitFits, <1>1, PTL DEF SenderSpec

(* The types of the mempool, of what is mined and of the send in progress. *)
THEOREM SenderTypeCorrect == SenderSpec => []SenderTypeOK
BY SInvAlways, PTL DEF SInv

(* tx.js:10: for any retry budget and base fees, nothing of the operator waits behind    *)
(* what is not mined, a send takes effect at most once, and its report is true.         *)
THEOREM ReportsAreTrue == SenderSpec => []SendsAreTrue
<1>1. SInv => SendsAreTrue
  <2> SUFFICES ASSUME SInv PROVE SendsAreTrue
    OBVIOUS
  <2>1. Latest \in Nat  BY DEF SInv, SenderTypeOK, Latest
  <2>2. \A t \in queue : t.nonce <= Latest /\ (t.send # 0 => t.fee >= Floor)
    BY <2>1 DEF SInv, OneNonce
  <2> QED  BY <2>2 DEF SInv, NoEcho, OutcomesAreTrue, SendsAreTrue
<1> QED  BY <1>1, SInvAlways, PTL

-----------------------------------------------------------------------------
(* The operator's tools. *)

SeedOps == {"openRound", "settleRound"}
Harmless(x) == x.op \notin SeedOps

(* A tool that opens holds the seed it drew, one that settles the seed that is saved;   *)
(* what the others send has no part in it.                                          *)
PlanFits(k) ==
    \/ k.cmd = "open" /\ k.plan = <<Tx("openRound", 0)>> /\ k.label \in Labels /\ k.secret \in Secrets
    \/ /\ k.cmd = "settle" /\ k.plan = <<Tx("settleRound", 0)>> /\ k.label \in Labels
       /\ k.secret \in Secrets /\ files[k.label] = k.secret
    \/ /\ k.cmd \notin {"open", "settle"}
       /\ \/ k.plan = <<>>
          \/ \E x : k.plan = <<x>> /\ Harmless(x)
          \/ \E x, y : k.plan = <<x, y>> /\ Harmless(x) /\ Harmless(y)

ToolFits(k) ==
    /\ k = [cmd |-> k.cmd, label |-> k.label, secret |-> k.secret, plan |-> k.plan, waiting |-> k.waiting]
    /\ k.waiting \in BOOLEAN /\ (k.waiting => k.plan # <<>>)
    /\ PlanFits(k)
ToolsFit == tool = [t \in Tools |-> tool[t]] /\ \A t \in Tools : ToolFits(tool[t])

(* What a tool waits for is the first of its plan, or the receipt of that; whoever sent   *)
(* it, a settlement carries the saved seed.                                          *)
TxOf(t) ==
    [by |-> t, cmd |-> tool[t].cmd, op |-> Head(tool[t].plan).op, limit |-> Head(tool[t].plan).limit,
     label |-> tool[t].label, secret |-> tool[t].secret]
InflightFits ==
    \A tx \in inflight :
        /\ tx.by \in Tools => tool[tx.by].waiting /\ tx = TxOf(tx.by)
        /\ tx.op \in SeedOps => tx.label \in Labels /\ tx.secret \in Secrets
        /\ tx.op = "settleRound" => files[tx.label] = tx.secret
ReceiptsFit ==
    \A r \in receipts : r.by \in Tools =>
        /\ tool[r.by].waiting /\ \A tx \in inflight : tx.by # r.by
        /\ \A q \in receipts : q.by = r.by => q = r
        /\ r.ok /\ tool[r.by].cmd = "open" => opened[tool[r.by].label] = tool[r.by].secret

SeedTypes ==
    /\ opened \in [Labels -> Secrets \cup {NoSecret}] /\ files \in [Labels -> Secrets \cup {NoSecret}]
    /\ paidOut \in [Labels -> BOOLEAN]

CliInv == SeedTypes /\ ToolsFit /\ InflightFits /\ ReceiptsFit /\ SavedSeedOpens

(* No tool waits for anything that has not asked for it. *)
LEMMA Quiet ==
    ASSUME CliInv, NEW t \in Tools, ~tool[t].waiting
    PROVE  (\A tx \in inflight : tx.by # t) /\ (\A r \in receipts : r.by # t)
BY DEF CliInv, InflightFits, ReceiptsFit

(* No tool runs. *)
LEMMA NoToolFits == ToolFits(NoTool)
BY DEF ToolFits, PlanFits, NoTool

(* Before any tool runs there is no seed and no plan. *)
LEMMA CliInitFits == ASSUME CliInit PROVE CliInv
<1>1. SeedTypes /\ SavedSeedOpens  BY CliAssumption DEF CliInit, SeedTypes, SavedSeedOpens, CliAssumption
<1>2. ToolsFit  BY NoToolFits DEF CliInit, ToolsFit
<1>3. InflightFits /\ ReceiptsFit  BY DEF CliInit, InflightFits, ReceiptsFit
<1> QED  BY <1>1, <1>2, <1>3 DEF CliInv

(* A tool starts. *)
LEMMA StartFits ==
    ASSUME CliInv, NEW t \in Tools, NEW cmd, NEW l, NEW secret, NEW plan,
           Start(t, cmd, l, secret, plan),
           PlanFits([cmd |-> cmd, label |-> l, secret |-> secret, plan |-> plan, waiting |-> FALSE])
    PROVE  CliInv'
<1> DEFINE k == [cmd |-> cmd, label |-> l, secret |-> secret, plan |-> plan, waiting |-> FALSE]
<1>1. tool' = [tool EXCEPT ![t] = k] /\ UNCHANGED <<opened, paidOut, files, inflight, receipts>>
  BY DEF Start, escrowPart
<1>2. ToolFits(k)  BY DEF ToolFits
<1>3. ~tool[t].waiting  BY DEF Start, NoTool
<1>4. (\A tx \in inflight : tx.by # t) /\ (\A r \in receipts : r.by # t)  BY <1>3, Quiet
<1> HIDE DEF k
<1>5. \A u \in Tools : tool'[u] = IF u = t THEN k ELSE tool[u]  BY <1>1 DEF CliInv, ToolsFit
<1>6. \A j : PlanFits(j) => PlanFits(j)'  BY <1>1 DEF PlanFits
<1>7. ToolsFit'  BY <1>1, <1>2, <1>5, <1>6 DEF CliInv, ToolsFit, ToolFits
<1>8. InflightFits'  BY <1>1, <1>4, <1>5 DEF CliInv, InflightFits, TxOf
<1>9. ReceiptsFit'  BY <1>1, <1>4, <1>5 DEF CliInv, ReceiptsFit
<1>10. SeedTypes' /\ SavedSeedOpens'  BY <1>1 DEF CliInv, SeedTypes, SavedSeedOpens
<1> QED  BY <1>7, <1>8, <1>9, <1>10 DEF CliInv

(* Approval and spending. *)
LEMMA PlansAreHarmless ==
    ASSUME NEW cmd, cmd \notin {"open", "settle"}, NEW l, NEW secret,
           NEW payer, NEW amount, NEW approval, NEW op, op \notin SeedOps
    PROVE  /\ PlanFits([cmd |-> cmd, label |-> l, secret |-> secret,
                        plan |-> Plan(payer, amount, approval, op), waiting |-> FALSE])
           /\ PlanFits([cmd |-> cmd, label |-> l, secret |-> secret,
                        plan |-> <<Tx(op, amount)>>, waiting |-> FALSE])
<1>1. Harmless(Tx(op, amount)) /\ Harmless(Tx("approve", approval))  BY DEF Harmless, Tx, SeedOps
<1> QED  BY <1>1 DEF PlanFits, Plan

(* Any tool begins with a plan for its label and seed. *)
LEMMA ToolStarts ==
    ASSUME CliInv, NEW t \in Tools,
           \/ \E l \in Labels : OpenTool(t, l) \/ EnterTool(t, l) \/ SettleTool(t, l)
           \/ WithdrawTool(t) \/ FundTool(t)
    PROVE  CliInv'
<1>1. CASE \E l \in Labels : OpenTool(t, l)
  <2>1. PICK l \in Labels, secret \in Secrets : Start(t, "open", l, secret, <<Tx("openRound", 0)>>)
    BY <1>1 DEF OpenTool
  <2> QED  BY <2>1, StartFits DEF PlanFits
<1>2. CASE \E l \in Labels : EnterTool(t, l)
  <2>1. PICK l \in Labels :
          \/ Start(t, "enter", l, NoSecret, Plan("player", stakeNow, stakeNow, "enter"))
          \/ Start(t, "permit", l, NoSecret, Plan("permit2", stakeNow, Max(Stakes), "enterWithPermit2"))
    BY <1>2 DEF EnterTool
  <2>2. PlanFits([cmd |-> "enter", label |-> l, secret |-> NoSecret,
                  plan |-> Plan("player", stakeNow, stakeNow, "enter"), waiting |-> FALSE])
    BY PlansAreHarmless DEF SeedOps
  <2>3. PlanFits([cmd |-> "permit", label |-> l, secret |-> NoSecret,
                  plan |-> Plan("permit2", stakeNow, Max(Stakes), "enterWithPermit2"), waiting |-> FALSE])
    BY PlansAreHarmless DEF SeedOps
  <2> QED  BY <2>1, <2>2, <2>3, StartFits
<1>3. CASE \E l \in Labels : SettleTool(t, l)
  <2>1. PICK l \in Labels : files[l] # NoSecret /\ Start(t, "settle", l, files[l], <<Tx("settleRound", 0)>>)
    BY <1>3 DEF SettleTool
  <2>2. files[l] \in Secrets  BY <2>1 DEF CliInv, SeedTypes
  <2> QED  BY <2>1, <2>2, StartFits DEF PlanFits
<1>4. CASE WithdrawTool(t)
  <2>1. PlanFits([cmd |-> "withdraw", label |-> "none", secret |-> NoSecret,
                  plan |-> <<Tx("withdraw", 0)>>, waiting |-> FALSE])
    BY PlansAreHarmless DEF SeedOps
  <2> QED  BY <1>4, <2>1, StartFits DEF WithdrawTool
<1>5. CASE FundTool(t)
  <2>1. PlanFits([cmd |-> "fund", label |-> "none", secret |-> NoSecret,
                  plan |-> Plan("owner", FundAmount, FundAmount, "fundPool"), waiting |-> FALSE])
    BY PlansAreHarmless DEF SeedOps
  <2> QED  BY <1>5, <2>1, StartFits DEF FundTool
<1> QED  BY <1>1, <1>2, <1>3, <1>4, <1>5

(* A transaction mines: a seed is committed once, and a settlement has the seed that is    *)
(* saved.                                                                           *)
LEMMA MinedFits ==
    ASSUME CliInv, NEW tx \in inflight, Mined(tx)
    PROVE  CliInv'
<1> DEFINE receipt == [by |-> tx.by, ok |-> Runs(tx)]
<1>1. /\ inflight' = inflight \ {tx} /\ receipts' = receipts \cup {receipt}
      /\ UNCHANGED <<files, tool>>
  BY DEF Mined, toolPart
<1>2. /\ tx.op \in SeedOps => tx.label \in Labels /\ tx.secret \in Secrets
      /\ tx.op = "settleRound" => files[tx.label] = tx.secret
  BY DEF CliInv, InflightFits
<1>3. /\ SeedTypes'
      /\ \A l \in Labels : opened[l] # NoSecret => opened'[l] = opened[l]
      /\ \A l \in Labels : paidOut'[l] => paidOut[l] \/ (tx.op = "settleRound" /\ tx.label = l)
      /\ Runs(tx) /\ tx.op = "openRound" => opened'[tx.label] = tx.secret
  <2>1. CASE ~Runs(tx)
    BY <1>1, <2>1 DEF Mined, escrowPart, CliInv, SeedTypes
  <2>2. CASE Runs(tx)
    <3>1. MineTx(tx)  BY <2>2 DEF Mined
    <3>2. CASE tx.op = "openRound"
      <4>1. opened' = [opened EXCEPT ![tx.label] = tx.secret] /\ paidOut' = paidOut /\ opened[tx.label] = NoSecret
        BY <2>2, <3>1, <3>2 DEF MineTx, Runs
      <4> QED  BY <1>1, <1>2, <3>2, <4>1 DEF CliInv, SeedTypes, SeedOps
    <3>3. CASE tx.op = "settleRound"
      <4>1. opened' = opened /\ paidOut' = [paidOut EXCEPT ![tx.label] = TRUE]
        BY <3>1, <3>3 DEF MineTx
      <4> QED  BY <1>1, <1>2, <3>3, <4>1 DEF CliInv, SeedTypes, SeedOps
    <3>4. CASE tx.op \notin SeedOps
      <4>1. opened' = opened /\ paidOut' = paidOut  BY <3>1, <3>4 DEF MineTx, SeedOps
      <4> QED  BY <1>1, <3>4, <4>1 DEF CliInv, SeedTypes, SeedOps
    <3> QED  BY <3>2, <3>3, <3>4 DEF SeedOps
  <2> QED  BY <2>1, <2>2
<1>4. ToolsFit'  BY <1>1 DEF CliInv, ToolsFit, ToolFits, PlanFits
<1>5. InflightFits'  BY <1>1 DEF CliInv, InflightFits, TxOf
<1>6. SavedSeedOpens'
  <2> SUFFICES ASSUME NEW l \in Labels
               PROVE  /\ files[l] # NoSecret => files[l] = opened'[l]
                      /\ paidOut'[l] => files[l] # NoSecret
    BY <1>1 DEF SavedSeedOpens
  <2>1. tx.op = "settleRound" /\ tx.label = l => files[l] # NoSecret
    BY <1>2, CliAssumption DEF CliAssumption, SeedOps
  <2> QED  BY <1>3, <2>1 DEF CliInv, SavedSeedOpens
<1>7. ReceiptsFit'
  <2> SUFFICES ASSUME NEW r \in receipts', r.by \in Tools
               PROVE  /\ tool[r.by].waiting /\ \A x \in inflight' : x.by # r.by
                      /\ \A q \in receipts' : q.by = r.by => q = r
                      /\ r.ok /\ tool[r.by].cmd = "open" => opened'[tool[r.by].label] = tool[r.by].secret
    BY <1>1 DEF ReceiptsFit
  <2>1. tx.by \in Tools => /\ tool[tx.by].waiting /\ tx = TxOf(tx.by)
                           /\ \A x \in inflight : x.by = tx.by => x = tx
                           /\ \A q \in receipts : q.by # tx.by
    BY DEF CliInv, InflightFits, ReceiptsFit
  <2>2. tool[r.by].cmd = "open" => /\ tool[r.by].label \in Labels /\ tool[r.by].secret \in Secrets
                                   /\ Head(tool[r.by].plan).op = "openRound"
    BY DEF CliInv, ToolsFit, ToolFits, PlanFits, Tx
  <2>3. CASE r \in receipts /\ r.by # tx.by
    <3>1. tool[r.by].cmd = "open" /\ r.ok => opened[tool[r.by].label] = tool[r.by].secret
      BY <2>3 DEF CliInv, ReceiptsFit
    <3>2. tool[r.by].cmd = "open" /\ r.ok => opened'[tool[r.by].label] = tool[r.by].secret
      BY <1>3, <2>2, <3>1, CliAssumption DEF CliAssumption
    <3> QED  BY <1>1, <2>3, <3>2 DEF CliInv, ReceiptsFit
  <2>4. CASE r = receipt
    <3>1. r.by = tx.by /\ r.ok = Runs(tx)  BY <2>4
    <3>2. tool[r.by].cmd = "open" /\ r.ok => opened'[tool[r.by].label] = tool[r.by].secret
      <4> SUFFICES ASSUME tool[tx.by].cmd = "open", Runs(tx)
                   PROVE  opened'[tool[tx.by].label] = tool[tx.by].secret
        BY <3>1
      <4>1. tx.op = "openRound" /\ tx.label = tool[tx.by].label /\ tx.secret = tool[tx.by].secret
        BY <2>1, <2>2, <3>1 DEF TxOf
      <4> QED  BY <1>3, <4>1
    <3> QED  BY <1>1, <2>1, <2>4, <3>1, <3>2
  <2>5. r = receipt \/ (r \in receipts /\ r.by # tx.by)  BY <1>1, <2>1
  <2> QED  BY <2>3, <2>4, <2>5
<1> QED  BY <1>3, <1>4, <1>5, <1>6, <1>7 DEF CliInv

(* A tool is done or stopped: what it has left behind is nobody's.  A seed saved on the   *)
(* way takes no other's place.                                                      *)
LEMMA QuitFits ==
    ASSUME CliInv, NEW t \in Tools, Quit(t), SeedTypes', SavedSeedOpens', opened' = opened,
           \A l \in Labels : files[l] # NoSecret => files'[l] = files[l],
           \A tx \in inflight' : tx.by # t,
           \A tx \in inflight' : \/ tx \in inflight
                                 \/ /\ tx.by \notin Tools
                                    /\ \E x \in inflight : /\ x.op = tx.op /\ x.label = tx.label
                                                           /\ x.secret = tx.secret
    PROVE  CliInv'
<1>1. tool' = [tool EXCEPT ![t] = NoTool] /\ receipts' = {r \in receipts : r.by # t}
  BY DEF Quit
<1>2. \A u \in Tools : tool'[u] = IF u = t THEN NoTool ELSE tool[u]  BY <1>1 DEF CliInv, ToolsFit
<1>3. NoSecret \notin Secrets  BY CliAssumption DEF CliAssumption
<1>4. \A k : PlanFits(k) => PlanFits(k)'  BY <1>3 DEF PlanFits
<1>5. ToolsFit'  BY <1>1, <1>2, <1>4, NoToolFits DEF CliInv, ToolsFit, ToolFits
<1>6. InflightFits'  BY <1>2, <1>3 DEF CliInv, InflightFits, TxOf, SeedOps
<1>7. ReceiptsFit'  BY <1>1, <1>2 DEF CliInv, ReceiptsFit
<1> QED  BY <1>5, <1>6, <1>7 DEF CliInv

(* A tool waits, or is told it need not any more and goes on to the next of its plan. *)
LEMMA Waits ==
    ASSUME NEW k, NEW waits, ToolFits(k)
    PROVE  [k EXCEPT !.waiting = waits]
               = [cmd |-> k.cmd, label |-> k.label, secret |-> k.secret, plan |-> k.plan, waiting |-> waits]
<1> PICK c, l, s, p, w : k = [cmd |-> c, label |-> l, secret |-> s, plan |-> p, waiting |-> w]
  BY DEF ToolFits
<1>1. [k EXCEPT !.waiting = waits] = [cmd |-> c, label |-> l, secret |-> s, plan |-> p, waiting |-> waits]
  OBVIOUS
<1> QED  BY <1>1

(* A tool with the first of its plan done, as a record. *)
LEMMA MovesOn ==
    ASSUME NEW k, NEW waits, ToolFits(k)
    PROVE  [k EXCEPT !.waiting = waits, !.plan = Tail(@)]
               = [cmd |-> k.cmd, label |-> k.label, secret |-> k.secret, plan |-> Tail(k.plan), waiting |-> waits]
<1> DEFINE m == [k EXCEPT !.waiting = waits]
<1>1. m = [cmd |-> k.cmd, label |-> k.label, secret |-> k.secret, plan |-> k.plan, waiting |-> waits]
  BY Waits
<1>2. [k EXCEPT !.waiting = waits, !.plan = Tail(@)] = [m EXCEPT !.plan = Tail(k.plan)]
  OBVIOUS
<1> HIDE DEF m
<1>3. ASSUME NEW q
      PROVE  [m EXCEPT !.plan = q]
                 = [cmd |-> k.cmd, label |-> k.label, secret |-> k.secret, plan |-> q, waiting |-> waits]
  BY <1>1
<1> QED  BY <1>2, <1>3

(* A tool sends the next of its transactions, or finds it would fail and stops. *)
LEMMA SubmitFits ==
    ASSUME CliInv, NEW t \in Tools, Submit(t)
    PROVE  CliInv'
<1> DEFINE k == tool[t]
           next == Head(k.plan)
           tx == [by |-> t, cmd |-> k.cmd, op |-> next.op, limit |-> next.limit,
                  label |-> k.label, secret |-> k.secret]
<1>1. k.plan # <<>> /\ ~k.waiting /\ UNCHANGED <<opened, paidOut>>  BY DEF Submit, escrowPart
<1>2. ToolFits(k) /\ (\A x \in inflight : x.by # t) /\ (\A r \in receipts : r.by # t)
  BY <1>1, Quiet DEF CliInv, ToolsFit
<1>3. CASE Runs(tx) /\ inflight' = inflight \cup {tx} /\ tool' = [tool EXCEPT ![t].waiting = TRUE]
           /\ UNCHANGED receipts /\ Write(t, FALSE)
  <2> DEFINE j == [cmd |-> k.cmd, label |-> k.label, secret |-> k.secret, plan |-> k.plan, waiting |-> TRUE]
  <2>1. files' = files  BY <1>3 DEF Write, Saves
  <2>2. ToolFits(j) /\ j.plan = k.plan /\ j.cmd = k.cmd /\ j.label = k.label /\ j.secret = k.secret /\ j.waiting
    BY <1>1, <1>2 DEF ToolFits, PlanFits
  <2>3. tool' = [tool EXCEPT ![t] = j]
    <3> HIDE DEF k
    <3>1. [k EXCEPT !.waiting = TRUE] = j  BY <1>2, Waits
    <3> HIDE DEF j
    <3> USE DEF k
    <3> QED  BY <1>3, <3>1 DEF CliInv, ToolsFit
  <2> HIDE DEF j
  <2>4. \A u \in Tools : tool'[u] = IF u = t THEN j ELSE tool[u]  BY <2>3 DEF CliInv, ToolsFit
  <2>5. \A i : PlanFits(i) => PlanFits(i)'  BY <2>1 DEF PlanFits
  <2>6. ToolsFit'  BY <2>2, <2>3, <2>4, <2>5 DEF CliInv, ToolsFit, ToolFits
  <2>7. tx = TxOf(t)'
    BY <2>2, <2>4 DEF TxOf
  <2>8. /\ tx.op \in SeedOps => tx.label \in Labels /\ tx.secret \in Secrets
        /\ tx.op = "settleRound" => files[tx.label] = tx.secret
    BY <1>1, <1>2 DEF ToolFits, PlanFits, SeedOps, Harmless, Tx
  <2>9. \A x \in inflight : x.by \in Tools => TxOf(x.by)' = TxOf(x.by)
    BY <1>2, <2>4 DEF TxOf
  <2>10. tx.by = t  OBVIOUS
  <2> HIDE DEF tx
  <2>11. InflightFits'
    BY <1>2, <1>3, <2>1, <2>2, <2>4, <2>7, <2>8, <2>9, <2>10 DEF CliInv, InflightFits
  <2>12. ReceiptsFit'  BY <1>1, <1>2, <1>3, <2>4, <2>10 DEF CliInv, ReceiptsFit
  <2>13. SeedTypes' /\ SavedSeedOpens'  BY <1>1, <2>1 DEF CliInv, SeedTypes, SavedSeedOpens
  <2> QED  BY <2>6, <2>11, <2>12, <2>13 DEF CliInv
<1>4. CASE Quit(t) /\ UNCHANGED <<inflight, files>>
  <2>1. SeedTypes' /\ SavedSeedOpens'  BY <1>1, <1>4 DEF CliInv, SeedTypes, SavedSeedOpens
  <2> QED  BY <1>1, <1>2, <1>4, <2>1, QuitFits
<1> QED  BY <1>3, <1>4 DEF Submit

(* A receipt: the seed is saved once its commitment has mined. *)
LEMMA ReceiptFits ==
    ASSUME CliInv, NEW t \in Tools, Receipt(t)
    PROVE  CliInv'
<1> DEFINE k == tool[t]
<1>1. PICK r \in receipts :
        /\ r.by = t /\ k.waiting
        /\ LET last == Len(k.plan) = 1
           IN  IF r.ok /\ ~last
               THEN /\ tool' = [tool EXCEPT ![t].waiting = FALSE, ![t].plan = Tail(@)]
                    /\ receipts' = receipts \ {r} /\ UNCHANGED files
               ELSE Quit(t) /\ Write(t, r.ok)
        /\ UNCHANGED <<escrowPart, inflight>>
  BY DEF Receipt
<1>2. /\ ToolFits(k) /\ k.plan # <<>>
      /\ \A x \in inflight : x.by # t
      /\ \A q \in receipts : q.by = t => q = r
      /\ r.ok /\ k.cmd = "open" => opened[k.label] = k.secret
  BY <1>1 DEF CliInv, ToolsFit, ToolFits, ReceiptsFit
<1>3. UNCHANGED <<opened, paidOut, inflight>>  BY <1>1 DEF escrowPart
<1>4. CASE r.ok /\ Len(k.plan) # 1
  <2> DEFINE j == [cmd |-> k.cmd, label |-> k.label, secret |-> k.secret, plan |-> Tail(k.plan), waiting |-> FALSE]
  <2>1. k.cmd \notin {"open", "settle"} /\ \E x, y : k.plan = <<x, y>> /\ Harmless(x) /\ Harmless(y)
    <3>1. k.plan # <<>> /\ Len(k.plan) # 1 /\ PlanFits(k)  BY <1>2, <1>4 DEF ToolFits
    <3>2. \A x : Len(<<x>>) = 1  OBVIOUS
    <3> QED  BY <3>1, <3>2 DEF PlanFits
  <2>2. \E y : Tail(k.plan) = <<y>> /\ Harmless(y)  BY <2>1
  <2>3. ToolFits(j)  BY <2>1, <2>2 DEF ToolFits, PlanFits
  <2>4. tool' = [tool EXCEPT ![t] = j] /\ receipts' = receipts \ {r} /\ files' = files
    <3>1. tool' = [tool EXCEPT ![t].waiting = FALSE, ![t].plan = Tail(@)] /\ receipts' = receipts \ {r} /\ files' = files
      BY <1>1, <1>4
    <3> HIDE DEF k
    <3>2. [k EXCEPT !.waiting = FALSE, !.plan = Tail(@)] = j  BY <1>2, MovesOn
    <3> HIDE DEF j
    <3> USE DEF k
    <3> QED  BY <3>1, <3>2 DEF CliInv, ToolsFit
  <2> HIDE DEF j
  <2>5. \A u \in Tools : tool'[u] = IF u = t THEN j ELSE tool[u]  BY <2>4 DEF CliInv, ToolsFit
  <2>6. \A i : PlanFits(i) => PlanFits(i)'  BY <2>4 DEF PlanFits
  <2>7. ToolsFit'  BY <2>3, <2>4, <2>5, <2>6 DEF CliInv, ToolsFit, ToolFits
  <2>8. InflightFits'  BY <1>2, <1>3, <2>4, <2>5 DEF CliInv, InflightFits, TxOf
  <2>9. ReceiptsFit'  BY <1>2, <1>3, <2>4, <2>5 DEF CliInv, ReceiptsFit
  <2>10. SeedTypes' /\ SavedSeedOpens'  BY <1>3, <2>4 DEF CliInv, SeedTypes, SavedSeedOpens
  <2> QED  BY <2>7, <2>8, <2>9, <2>10 DEF CliInv
<1>5. CASE ~(r.ok /\ Len(k.plan) # 1)
  <2>1. Quit(t) /\ Write(t, r.ok)  BY <1>1, <1>5
  <2>2. /\ SeedTypes' /\ SavedSeedOpens'
        /\ \A l \in Labels : files[l] # NoSecret => files'[l] = files[l]
    <3>1. CASE k.cmd = "open" /\ r.ok
      <4>1. files' = [files EXCEPT ![k.label] = k.secret]  BY <2>1, <3>1 DEF Write, Saves
      <4>2. k.label \in Labels /\ k.secret \in Secrets /\ opened[k.label] = k.secret
        BY <1>2, <3>1 DEF ToolFits, PlanFits
      <4> QED  BY <1>3, <4>1, <4>2, CliAssumption DEF CliAssumption, CliInv, SeedTypes, SavedSeedOpens
    <3>2. CASE ~(k.cmd = "open" /\ r.ok)
      <4>1. files' = files  BY <2>1, <3>2 DEF Write, Saves
      <4> QED  BY <1>3, <4>1 DEF CliInv, SeedTypes, SavedSeedOpens
    <3> QED  BY <3>1, <3>2
  <2> QED  BY <1>2, <1>3, <2>1, <2>2, QuitFits
<1> QED  BY <1>4, <1>5

(* A tool stops waiting, or is stopped; its transaction may mine all the same. *)
LEMMA GiveUpFits ==
    ASSUME CliInv, NEW t \in Tools, GiveUp(t)
    PROVE  CliInv'
<1>1. /\ Quit(t) /\ UNCHANGED <<opened, paidOut, files>>
      /\ inflight' = {IF tx.by = t THEN [tx EXCEPT !.by = "gone"] ELSE tx : tx \in inflight}
  BY DEF GiveUp, Orphaned, escrowPart
<1>2. \A x \in inflight : x.by = t => x = TxOf(t)  BY DEF CliInv, InflightFits
<1>3. ASSUME NEW tx \in inflight'
      PROVE  /\ tx.by # t
             /\ \/ tx \in inflight
                \/ /\ tx.by \notin Tools
                   /\ \E x \in inflight : x.op = tx.op /\ x.label = tx.label /\ x.secret = tx.secret
  <2>1. PICK x \in inflight : tx = IF x.by = t THEN [x EXCEPT !.by = "gone"] ELSE x  BY <1>1
  <2>2. CASE x.by = t
    <3>1. x = TxOf(t)  BY <1>2, <2>2
    <3>2. tx.by = "gone" /\ x.op = tx.op /\ x.label = tx.label /\ x.secret = tx.secret
      BY <2>1, <2>2, <3>1 DEF TxOf
    <3> QED  BY <3>2, CliAssumption DEF CliAssumption
  <2>3. CASE x.by # t  BY <2>1, <2>3
  <2> QED  BY <2>2, <2>3
<1>4. SeedTypes' /\ SavedSeedOpens'  BY <1>1 DEF CliInv, SeedTypes, SavedSeedOpens
<1> QED  BY <1>1, <1>3, <1>4, QuitFits

(* One step of the tools, of the chain or of the player. *)
LEMMA CliStep == CliInv /\ [CliNext]_cliVars => CliInv'
<1> SUFFICES ASSUME CliInv, [CliNext]_cliVars PROVE CliInv'
  OBVIOUS
<1>1. CASE \E t \in Tools : \/ \E l \in Labels : OpenTool(t, l) \/ EnterTool(t, l) \/ SettleTool(t, l)
                            \/ WithdrawTool(t) \/ FundTool(t)
  BY <1>1, ToolStarts
<1>2. CASE \E t \in Tools : Submit(t) \/ Receipt(t) \/ GiveUp(t)
  BY <1>2, SubmitFits, ReceiptFits, GiveUpFits
<1>3. CASE \E tx \in inflight : Mined(tx)  BY <1>3, MinedFits
<1>4. CASE SetStake \/ UNCHANGED cliVars
  <2>1. UNCHANGED <<opened, paidOut, files, tool, inflight, receipts>>
    BY <1>4 DEF SetStake, cliVars, escrowPart, toolPart
  <2> QED
    BY <2>1 DEF CliInv, SeedTypes, SavedSeedOpens, ToolsFit, ToolFits, PlanFits, InflightFits, TxOf, ReceiptsFit
<1> QED  BY <1>1, <1>2, <1>3, <1>4 DEF CliNext

(* SavedSeedOpens: the seed in a round file is the one the escrow is committed to, and     *)
(* nothing is settled but by a saved seed, however many tools run, die or give up.      *)
THEOREM SavedSeedsOpen == CliSpec => []SavedSeedOpens
<1>1. CliInit => CliInv  BY CliInitFits
<1>2. CliInv => SavedSeedOpens  BY DEF CliInv
<1> QED  BY <1>1, <1>2, CliStep, PTL DEF CliSpec

-----------------------------------------------------------------------------
(* The limiters. *)

(* Of a window that began at start, counted of what was let through came in it; of the    *)
(* others, no more than a limit's worth came a window's length before it or later.      *)
WindowFits(start, counted) ==
    /\ start \in Int /\ start <= limitTime
    /\ counted \in Nat /\ counted <= Limit[limiter] /\ counted <= Len(admitted)
    /\ \A k \in 1 .. Len(admitted) - counted :
          /\ admitted[k] <= start
          /\ admitted[k] >= start - WindowMs => Len(admitted) - counted - k + 1 <= Limit[limiter]

EntryFits ==
    \/ entry = NoEntry /\ WindowFits(limitTime, 0)
    \/ \E count, resetAt \in Nat :
          /\ entry = [count |-> count, resetAt |-> resetAt]
          /\ WindowFits(resetAt - WindowMs, IF count <= Limit[limiter] THEN count ELSE Limit[limiter])

(* Whenever the first of them began, what a bucket let through since and what it holds is    *)
(* paid by its burst and its rate.                                                     *)
BucketFits ==
    /\ shares \in 0 .. MaxPerSec * Second /\ lastRefill \in 0 .. limitTime
    /\ \A i \in 1 .. Len(admitted) :
          /\ admitted[i] <= lastRefill
          /\ Second * (Len(admitted) - i + 1) + shares
                <= MaxPerSec * Second + MaxPerSec * (lastRefill - admitted[i])

AdmissionsFit ==
    /\ limiter \in Windowed \cup {"bucket"} /\ limitTime \in Nat /\ admitted \in Seq(Nat)
    /\ \A k \in 1 .. Len(admitted) : admitted[k] <= limitTime

LimitInv ==
    /\ AdmissionsFit /\ NoFlood
    /\ limiter \in Windowed => EntryFits
    /\ limiter = "bucket" => BucketFits

(* The limits are numbers, and the bucket is no window. *)
LEMMA LimitIsNat ==
    /\ WindowMs \in Nat /\ SweepAfter \in Nat /\ MaxPerSec \in Nat /\ Second \in Nat
    /\ \A l \in Windowed : Limit[l] \in Nat
    /\ "bucket" \notin Windowed
BY LimitAssumption DEF LimitAssumption, Limit, Windowed

(* Nothing is let through yet. *)
LEMMA LimitInitFits == ASSUME LimitInit PROVE LimitInv
<1>1. AdmissionsFit /\ NoFlood  BY DEF LimitInit, AdmissionsFit, NoFlood
<1>2. limiter \in Windowed => EntryFits
  BY LimitIsNat DEF LimitInit, EntryFits, WindowFits
<1>3. limiter = "bucket" => BucketFits
  <2>1. MaxPerSec * Second \in Nat  BY LimitIsNat
  <2> QED  BY <2>1 DEF LimitInit, BucketFits
<1> QED  BY <1>1, <1>2, <1>3 DEF LimitInv

(* A window that has run out left no more behind than a limit's worth. *)
LEMMA OpensOver ==
    ASSUME AdmissionsFit, limiter \in Windowed, EntryFits,
           entry = NoEntry \/ limitTime > entry.resetAt
    PROVE  WindowFits(limitTime, 0)
<1>1. CASE entry = NoEntry
  <2>1. CASE WindowFits(limitTime, 0)  BY <2>1
  <2>2. CASE \E count, resetAt \in Nat : entry = [count |-> count, resetAt |-> resetAt]
    BY <1>1, <2>2 DEF NoEntry
  <2> QED  BY <2>1, <2>2 DEF EntryFits
<1>2. CASE entry # NoEntry
  <2>1. PICK count, resetAt \in Nat :
          /\ entry = [count |-> count, resetAt |-> resetAt]
          /\ WindowFits(resetAt - WindowMs, IF count <= Limit[limiter] THEN count ELSE Limit[limiter])
    BY <1>2 DEF EntryFits
  <2>2. limitTime > resetAt  BY <1>2, <2>1
  <2> DEFINE counted == IF count <= Limit[limiter] THEN count ELSE Limit[limiter]
  <2>3. counted \in Nat /\ counted <= Limit[limiter] /\ Limit[limiter] \in Nat  BY LimitIsNat
  <2>4. WindowFits(resetAt - WindowMs, counted)  BY <2>1
  <2> HIDE DEF counted
  <2>5. Len(admitted) \in Nat /\ \A k \in 1 .. Len(admitted) : admitted[k] \in Nat  BY DEF AdmissionsFit
  <2>6. ASSUME NEW k \in 1 .. Len(admitted) - 0
        PROVE  /\ admitted[k] <= limitTime
               /\ admitted[k] >= limitTime - WindowMs => Len(admitted) - 0 - k + 1 <= Limit[limiter]
    <3>1. k \in 1 .. Len(admitted) /\ admitted[k] \in Nat  BY <2>5
    <3>2. CASE k <= Len(admitted) - counted
      <4>1. admitted[k] <= resetAt - WindowMs  BY <2>3, <2>4, <2>5, <3>1, <3>2 DEF WindowFits
      <4> QED  BY <2>2, <3>1, <4>1, LimitIsNat DEF AdmissionsFit
    <3>3. CASE k > Len(admitted) - counted
      BY <2>3, <2>5, <3>1, <3>3 DEF AdmissionsFit
    <3> QED  BY <2>3, <2>5, <3>1, <3>2, <3>3
  <2> QED  BY <2>3, <2>5, <2>6 DEF WindowFits, AdmissionsFit
<1> QED  BY <1>1, <1>2

(* One more is let through, or not. *)
LEMMA AdmitFits ==
    ASSUME AdmissionsFit, NEW ok \in BOOLEAN, Admit(ok), UNCHANGED <<limiter, limitTime>>
    PROVE  /\ AdmissionsFit'
           /\ Len(admitted) \in Nat /\ Len(admitted') = Len(admitted) + (IF ok THEN 1 ELSE 0)
           /\ \A k \in 1 .. Len(admitted) : admitted'[k] = admitted[k] /\ admitted[k] \in Nat
           /\ ok => admitted'[Len(admitted) + 1] = limitTime
BY DEF AdmissionsFit, Admit

(* A window takes a request, or opens anew for it. *)
LEMMA RequestFits == ASSUME LimitInv, Request PROVE LimitInv'
<1> DEFINE L == Limit[limiter]
           n == Len(admitted)
           ok == Current.count + 1 <= L
<1>1. /\ limiter \in Windowed /\ L \in Nat /\ Current.count <= L
      /\ entry' = [Current EXCEPT !.count = @ + 1]
      /\ Admit(ok) /\ ok \in BOOLEAN /\ UNCHANGED <<limiter, limitTime>>
  BY LimitIsNat DEF Request
<1>2. AdmissionsFit /\ EntryFits /\ NoFlood  BY <1>1 DEF LimitInv
<1>3. PICK count, resetAt \in Nat :
        /\ Current = [count |-> count, resetAt |-> resetAt]
        /\ count <= L /\ WindowFits(resetAt - WindowMs, count)
  <2>1. CASE entry = NoEntry \/ limitTime > entry.resetAt
    <3>1. WindowFits(limitTime, 0)  BY <1>1, <1>2, <2>1, OpensOver
    <3>2. Current = [count |-> 0, resetAt |-> limitTime + WindowMs]  BY <2>1 DEF Current, Opened
    <3>3. limitTime + WindowMs \in Nat /\ (limitTime + WindowMs) - WindowMs = limitTime
      BY <1>2, LimitIsNat DEF AdmissionsFit
    <3> QED  BY <1>1, <3>1, <3>2, <3>3
  <2>2. CASE entry # NoEntry /\ ~(limitTime > entry.resetAt)
    <3>1. Current = entry  BY <2>2 DEF Current
    <3>2. PICK c, r \in Nat :
            entry = [count |-> c, resetAt |-> r]
            /\ WindowFits(r - WindowMs, IF c <= Limit[limiter] THEN c ELSE Limit[limiter])
      BY <1>2, <2>2 DEF EntryFits
    <3>3. c <= L  BY <1>1, <3>1, <3>2
    <3> QED  BY <3>1, <3>2, <3>3
  <2> QED  BY <2>1, <2>2
<1>4. entry' = [count |-> count + 1, resetAt |-> resetAt] /\ ok = (count + 1 <= L)
  BY <1>1, <1>3
<1> HIDE DEF ok
<1>5. /\ AdmissionsFit'
      /\ n \in Nat /\ n' = n + (IF ok THEN 1 ELSE 0)
      /\ \A k \in 1 .. n : admitted'[k] = admitted[k] /\ admitted[k] \in Nat
      /\ ok => admitted'[n + 1] = limitTime
  BY <1>1, <1>2, AdmitFits
<1> DEFINE counted == IF count + 1 <= L THEN count + 1 ELSE L
           start == resetAt - WindowMs
<1>6. /\ counted \in Nat /\ counted <= L /\ n' - counted = n - count
      /\ counted <= n' /\ start \in Int /\ start <= limitTime /\ limitTime \in Nat
      /\ counted' = counted /\ start' = start /\ L' = L /\ limitTime' = limitTime
  <2>1. limitTime \in Nat /\ start \in Int /\ start <= limitTime /\ count <= n
    BY <1>2, <1>3, LimitIsNat DEF WindowFits, AdmissionsFit
  <2>2. counted \in Nat /\ counted <= L  BY <1>1, <1>3
  <2>3. n' - counted = n - count /\ counted <= n'
    <3>1. CASE ok
      <4>1. count + 1 <= L /\ n' = n + 1  BY <1>4, <1>5, <3>1
      <4>2. counted = count + 1  BY <4>1
      <4> QED  BY <1>3, <1>5, <2>1, <4>1, <4>2
    <3>2. CASE ~ok
      <4>0. ~(count + 1 <= L) /\ n' = n
        <5>1. ~(count + 1 <= L)  BY <1>4, <3>2
        <5> QED  BY <1>5, <3>2, <5>1
      <4>1. count = L /\ counted = L /\ n' = n
        <5>1. count = L  BY <1>1, <1>3, <4>0
        <5> QED  BY <4>0, <5>1
      <4> QED  BY <1>3, <2>1, <4>1
    <3> QED  BY <3>1, <3>2
  <2>4. counted' = counted /\ start' = start /\ L' = L  BY <1>1
  <2> QED  BY <1>1, <2>1, <2>2, <2>3, <2>4
<1>7. \A k \in 1 .. n - count : /\ admitted[k] <= start
                                /\ admitted[k] >= start - WindowMs => n - count - k + 1 <= L
  BY <1>3 DEF WindowFits
<1>8. EntryFits'
  <2>1. WindowFits(start, counted)'
    <3>1. \A k \in 1 .. n' - counted :
            /\ admitted'[k] <= start
            /\ admitted'[k] >= start - WindowMs => n' - counted - k + 1 <= L
      <4> SUFFICES ASSUME NEW k \in 1 .. n - count
                   PROVE  /\ admitted'[k] <= start
                          /\ admitted'[k] >= start - WindowMs => n - count - k + 1 <= L
        BY <1>6
      <4>1. k \in 1 .. n  BY <1>3, <1>5
      <4> QED  BY <1>5, <1>7, <4>1
    <3> HIDE DEF counted, start
    <3> QED  BY <1>6, <3>1 DEF WindowFits
  <2>2. count + 1 \in Nat  BY <1>3
  <2>3. WindowFits(resetAt - WindowMs, IF count + 1 <= Limit[limiter] THEN count + 1 ELSE Limit[limiter])'
    BY <2>1
  <2> QED  BY <1>3, <1>4, <2>2, <2>3 DEF EntryFits
<1>9. NoFlood'
  <2>0. DOMAIN admitted = 1 .. n /\ DOMAIN admitted' = 1 .. n' /\ limiter # "bucket" /\ limiter' = limiter
    BY <1>1, <1>2, <1>5, LimitIsNat DEF AdmissionsFit
  <2> SUFFICES ASSUME NEW i \in 1 .. n', NEW j \in i .. n',
                      admitted'[j] - admitted'[i] <= WindowMs
               PROVE  j - i + 1 <= 2 * L
    BY <2>0 DEF NoFlood
  <2>1. CASE j <= n
    <3>1. i \in 1 .. n /\ j \in i .. n /\ j \in 1 .. n  BY <1>5, <2>1
    <3>2. admitted[j] - admitted[i] <= WindowMs  BY <1>5, <3>1
    <3> QED  BY <1>2, <2>0, <3>1, <3>2 DEF NoFlood
  <2>2. CASE j > n
    <3>1. ok /\ j = n + 1 /\ n' = n + 1 /\ count + 1 <= L /\ admitted'[j] = limitTime
      <4>1. n' > n  BY <1>5, <2>2
      <4>2. ok /\ n' = n + 1  BY <1>5, <4>1
      <4>3. j = n + 1  BY <1>5, <2>2, <4>2
      <4> QED  BY <1>4, <1>5, <4>2, <4>3
    <3>2. CASE i <= n - count
      <4>1. i \in 1 .. n /\ admitted'[i] = admitted[i] /\ admitted[i] \in Nat  BY <1>3, <1>5, <3>2
      <4>2. admitted[i] >= start - WindowMs
        BY <1>6, <3>1, <4>1, LimitIsNat
      <4>3. n - count - i + 1 <= L  BY <1>5, <1>7, <3>2, <4>1, <4>2
      <4> QED  BY <1>1, <1>3, <1>5, <3>1, <4>1, <4>3
    <3>3. CASE i > n - count
      BY <1>1, <1>3, <1>5, <3>1, <3>3
    <3> QED  BY <1>3, <1>5, <3>2, <3>3
  <2> QED  BY <1>5, <2>1, <2>2
<1> QED  BY <1>1, <1>5, <1>8, <1>9, LimitIsNat DEF LimitInv

(* Only an entry that has run out is swept. *)
LEMMA SweepFits == ASSUME LimitInv, SweepCounts PROVE LimitInv'
<1>1. /\ limiter \in Windowed /\ entry # NoEntry /\ entry' = NoEntry /\ UNCHANGED <<limiter, limitTime, admitted>>
      /\ limitTime > entry.resetAt + SweepAfter
  BY DEF SweepCounts, SweptAway, Windowed
<1>2. limitTime > entry.resetAt
  BY <1>1, LimitIsNat DEF LimitInv, EntryFits, AdmissionsFit
<1>3. WindowFits(limitTime, 0)  BY <1>1, <1>2, OpensOver DEF LimitInv
<1>4. AdmissionsFit' /\ NoFlood' /\ EntryFits'
  BY <1>1, <1>3 DEF LimitInv, AdmissionsFit, NoFlood, EntryFits, WindowFits
<1> QED  BY <1>1, <1>4, LimitIsNat DEF LimitInv

(* A bucket refills by the rate, up to its burst. *)
LEMMA Refills ==
    ASSUME AdmissionsFit, BucketFits
    PROVE  /\ Refilled \in Nat /\ Refilled <= MaxPerSec * Second
           /\ Refilled <= shares + (limitTime - lastRefill) * MaxPerSec
<1> DEFINE a == MaxPerSec * Second
           b == shares + (limitTime - lastRefill) * MaxPerSec
<1>1. a \in Nat /\ b \in Nat
  <2>1. a \in Nat  BY LimitIsNat
  <2>2. shares \in Nat /\ limitTime - lastRefill \in Nat  BY <2>1 DEF BucketFits, AdmissionsFit
  <2>3. (limitTime - lastRefill) * MaxPerSec \in Nat  BY <2>2, LimitIsNat
  <2> QED  BY <2>1, <2>2, <2>3
<1>2. Refilled = CHOOSE x \in {a, b} : \A y \in {a, b} : x <= y  BY DEF Refilled, Min
<1> HIDE DEF a, b
<1>3. \E x \in {a, b} : \A y \in {a, b} : x <= y  BY <1>1
<1>4. Refilled \in {a, b} /\ \A y \in {a, b} : Refilled <= y  BY <1>2, <1>3
<1>5. Refilled \in Nat /\ Refilled <= a /\ Refilled <= b  BY <1>1, <1>4
<1> QED  BY <1>5 DEF a, b

(* The arithmetic of a token let through, and of one that is not. *)
LEMMA TokensAdd ==
    ASSUME NEW m \in Nat, NEW s \in Nat, NEW n \in Nat, NEW i \in Nat, NEW had \in Nat, NEW has \in Nat,
           NEW last \in Nat, NEW time \in Nat, NEW at \in Nat,
           s * (n - i + 1) + had <= m * s + m * (last - at),
           has <= had + (time - last) * m
    PROVE  /\ s * (n - i + 1) + has <= m * s + m * (time - at)
           /\ s * (n + 1 - i + 1) + (has - s) <= m * s + m * (time - at)
<1>1. (time - last) * m + m * (last - at) = m * (time - at)  OBVIOUS
<1>2. s * (n + 1 - i + 1) = s * (n - i + 1) + s  OBVIOUS
<1> DEFINE x == s * (n - i + 1)
           y == m * s
           z == m * (last - at)
           w == (time - last) * m
<1>3. x \in Int /\ y \in Int /\ z \in Int /\ w \in Int  OBVIOUS
<1>4. x + had <= y + z /\ has <= had + w  OBVIOUS
<1>5. m * (time - at) = w + z  BY <1>1
<1> HIDE DEF x, y, z, w
<1>6. x + has <= y + (w + z) /\ x + s + (has - s) <= y + (w + z)  BY <1>3, <1>4
<1> QED  BY <1>2, <1>5, <1>6 DEF x, y, z, w

(* The bucket lets a request through for a whole token only. *)
LEMMA CheckFits == ASSUME LimitInv, Check PROVE LimitInv'
<1> DEFINE n == Len(admitted)
           ok == Refilled >= Second
<1>1. /\ limiter = "bucket" /\ UNCHANGED <<limiter, limitTime>> /\ lastRefill' = limitTime
      /\ shares' = (IF ok THEN Refilled - Second ELSE Refilled)
      /\ Admit(ok) /\ ok \in BOOLEAN
      /\ AdmissionsFit /\ BucketFits /\ NoFlood
      /\ Refilled \in Nat /\ Refilled <= MaxPerSec * Second
      /\ Refilled <= shares + (limitTime - lastRefill) * MaxPerSec
  <2>1. AdmissionsFit /\ BucketFits /\ NoFlood  BY DEF Check, LimitInv
  <2>2. /\ Refilled \in Nat /\ Refilled <= MaxPerSec * Second
        /\ Refilled <= shares + (limitTime - lastRefill) * MaxPerSec  BY <2>1, Refills
  <2> HIDE DEF Refilled
  <2> QED  BY <2>1, <2>2, LimitIsNat DEF Check
<1> HIDE DEF ok
<1>2. ok => Refilled >= Second  BY DEF ok
<1>3. /\ AdmissionsFit'
      /\ n \in Nat /\ n' = n + (IF ok THEN 1 ELSE 0)
      /\ \A k \in 1 .. n : admitted'[k] = admitted[k] /\ admitted[k] \in Nat
      /\ ok => admitted'[n + 1] = limitTime
  BY <1>1, AdmitFits
<1>4. MaxPerSec * Second \in Nat /\ limitTime \in Nat  BY LimitIsNat, <1>1 DEF AdmissionsFit
<1>5. shares' \in 0 .. MaxPerSec * Second /\ lastRefill' \in 0 .. limitTime'
  BY <1>1, <1>2, <1>4, LimitIsNat
<1>6. ASSUME NEW i \in 1 .. n'
      PROVE  /\ admitted'[i] <= lastRefill' /\ admitted'[i] \in Nat
             /\ Second * (n' - i + 1) + shares' <= MaxPerSec * Second + MaxPerSec * (lastRefill' - admitted'[i])
  <2>1. CASE i <= n
    <3>1. i \in 1 .. n /\ admitted'[i] = admitted[i] /\ admitted[i] \in Nat  BY <1>3, <2>1
    <3>2. Second * (n - i + 1) + shares <= MaxPerSec * Second + MaxPerSec * (lastRefill - admitted[i])
      BY <1>1, <3>1 DEF BucketFits
    <3>3. shares \in Nat /\ lastRefill \in Nat  BY <1>1, <1>4 DEF BucketFits
    <3>4. /\ Second * (n - i + 1) + Refilled <= MaxPerSec * Second + MaxPerSec * (limitTime - admitted[i])
          /\ Second * (n + 1 - i + 1) + (Refilled - Second) <= MaxPerSec * Second + MaxPerSec * (limitTime - admitted[i])
      BY <1>1, <1>3, <1>4, <3>1, <3>2, <3>3, TokensAdd, LimitIsNat
    <3>5. admitted[i] <= limitTime  BY <1>1, <3>1 DEF AdmissionsFit
    <3> QED  BY <1>1, <1>3, <3>1, <3>4, <3>5
  <2>2. CASE i > n
    <3>1. ok /\ i = n + 1 /\ n' = n + 1 /\ admitted'[i] = limitTime  BY <1>3, <2>2
    <3>2. shares' = Refilled - Second /\ n' - i + 1 = 1 /\ lastRefill' - admitted'[i] = 0
      BY <1>1, <1>3, <1>4, <3>1
    <3>3. Second * 1 = Second /\ MaxPerSec * 0 = 0  BY LimitIsNat
    <3> QED  BY <1>1, <1>4, <3>1, <3>2, <3>3, LimitIsNat
  <2> QED  BY <1>3, <2>1, <2>2
<1>7. BucketFits'  BY <1>1, <1>5, <1>6, LimitIsNat DEF BucketFits
<1>8. NoFlood'
  <2>0. DOMAIN admitted = 1 .. n /\ DOMAIN admitted' = 1 .. n' /\ limiter' = "bucket"
    BY <1>1, <1>3 DEF AdmissionsFit
  <2> SUFFICES ASSUME NEW i \in 1 .. n', NEW j \in i .. n'
               PROVE  Second * (j - i + 1) <= MaxPerSec * (Second + (admitted'[j] - admitted'[i]))
    BY <2>0 DEF NoFlood
  <2>1. CASE j <= n
    <3>1. i \in 1 .. n /\ j \in i .. n /\ j \in 1 .. n  BY <1>3, <2>1
    <3>2. Second * (j - i + 1) <= MaxPerSec * (Second + (admitted[j] - admitted[i]))
      BY <1>1, <2>0, <3>1 DEF NoFlood
    <3> QED  BY <1>3, <3>1, <3>2
  <2>2. CASE j > n
    <3>1. j = n' /\ admitted'[j] = lastRefill' /\ lastRefill' = limitTime  BY <1>1, <1>3, <2>2
    <3>2. Second * (n' - i + 1) + shares' <= MaxPerSec * Second + MaxPerSec * (limitTime - admitted'[i])
      BY <1>6, <3>1
    <3>3. MaxPerSec * Second + MaxPerSec * (limitTime - admitted'[i]) = MaxPerSec * (Second + (limitTime - admitted'[i]))
      BY <1>4, <1>6, LimitIsNat
    <3>4. shares' \in Nat /\ Second * (n' - i + 1) \in Int /\ MaxPerSec * (Second + (limitTime - admitted'[i])) \in Int
      <4>1. shares' \in Nat  BY <1>4, <1>5
      <4>2. Second * (n' - i + 1) \in Int  BY <1>3, LimitIsNat
      <4>3. MaxPerSec * (Second + (limitTime - admitted'[i])) \in Int  BY <1>4, <1>6, LimitIsNat
      <4> QED  BY <4>1, <4>2, <4>3
    <3>5. \A x, y, z \in Int : x + y <= z /\ y >= 0 => x <= z  OBVIOUS
    <3> QED  BY <3>1, <3>2, <3>3, <3>4, <3>5
  <2> QED  BY <1>3, <2>1, <2>2
<1> QED  BY <1>1, <1>3, <1>7, <1>8, LimitIsNat DEF LimitInv

(* Time passes. *)
LEMMA PassFits == ASSUME LimitInv, LimitPass PROVE LimitInv'
<1>1. limitTime \in Nat /\ limitTime' = limitTime + 1 /\ UNCHANGED <<limiter, entry, shares, lastRefill, admitted>>
  BY DEF LimitPass, LimitInv, AdmissionsFit
<1>2. AdmissionsFit' /\ NoFlood'  BY <1>1 DEF LimitInv, AdmissionsFit, NoFlood
<1>3. limiter \in Windowed => EntryFits'
  <2> SUFFICES ASSUME limiter \in Windowed PROVE EntryFits'
    OBVIOUS
  <2>1. AdmissionsFit /\ EntryFits /\ Limit[limiter] \in Nat  BY LimitIsNat DEF LimitInv
  <2>2. Len(admitted) \in Nat /\ \A k \in 1 .. Len(admitted) : admitted[k] \in Nat  BY <2>1 DEF AdmissionsFit
  <2>3. CASE entry = NoEntry /\ WindowFits(limitTime, 0)
    <3>1. WindowFits(limitTime, 0)'
      BY <1>1, <2>1, <2>2, <2>3, LimitIsNat DEF WindowFits
    <3> QED  BY <1>1, <2>3, <3>1 DEF EntryFits
  <2>4. CASE ~(entry = NoEntry /\ WindowFits(limitTime, 0))
    BY <1>1, <2>1, <2>4 DEF EntryFits, WindowFits
  <2> QED  BY <2>3, <2>4
<1>4. limiter = "bucket" => BucketFits'
  BY <1>1 DEF LimitInv, BucketFits
<1> QED  BY <1>1, <1>2, <1>3, <1>4 DEF LimitInv

(* One request, one sweep or one unit of time. *)
LEMMA LimitStep == LimitInv /\ [LimitNext]_limitVars => LimitInv'
<1> SUFFICES ASSUME LimitInv, [LimitNext]_limitVars PROVE LimitInv'
  OBVIOUS
<1>1. CASE LimitNext  BY <1>1, RequestFits, SweepFits, CheckFits, PassFits DEF LimitNext
<1>2. CASE UNCHANGED limitVars
  BY <1>2 DEF limitVars, LimitInv, AdmissionsFit, NoFlood, EntryFits, WindowFits, BucketFits
<1> QED  BY <1>1, <1>2

(* NoFlood: in no span of a window's length, wherever it lies, is more let through than    *)
(* two windows' worth, nor by a bucket more than its burst and its rate.               *)
THEOREM FloodsAreBounded == LimitSpec => []NoFlood
<1>1. LimitInit => LimitInv  BY LimitInitFits
<1>2. LimitInv => NoFlood  BY DEF LimitInv
<1> QED  BY <1>1, <1>2, LimitStep, PTL DEF LimitSpec

-----------------------------------------------------------------------------
USE DEF Sum, SumFunction

-----------------------------------------------------------------------------
(* Ranks. *)

Below(D, R, i) == {j \in D : <<j, i>> \in R}

(* In a finite total order, given as the pairs of which the first is before the second,   *)
(* every place from the first to the last is somebody's, and nobody else's.              *)
LEMMA Ranks ==
    ASSUME NEW D, IsFiniteSet(D), NEW R,
           \A i \in D : <<i, i>> \notin R,
           \A i, j \in D : i # j => <<i, j>> \in R \/ <<j, i>> \in R,
           \A i, j, k \in D : <<i, j>> \in R /\ <<j, k>> \in R => <<i, k>> \in R
    PROVE  [i \in D |-> 1 + Cardinality(Below(D, R, i))] \in Bijection(D, 1 .. Cardinality(D))
<1> DEFINE n == Cardinality(D)
           f == [i \in D |-> 1 + Cardinality(Below(D, R, i))]
<1>1. n \in Nat
  BY FS_CardinalityType
<1>2. ASSUME NEW i \in D
      PROVE  /\ Cardinality(Below(D, R, i)) \in Nat /\ IsFiniteSet(Below(D, R, i))
             /\ 1 + Cardinality(Below(D, R, i)) <= n
  <2>1. Below(D, R, i) \subseteq D \ {i}
    BY DEF Below
  <2>2. IsFiniteSet(D \ {i}) /\ Cardinality(D \ {i}) = n - 1
    BY FS_RemoveElement
  <2>3. IsFiniteSet(Below(D, R, i)) /\ Cardinality(Below(D, R, i)) <= n - 1
    BY <2>1, <2>2, FS_Subset
  <2> QED  BY <1>1, <2>3, FS_CardinalityType
<1>3. ASSUME NEW i \in D, NEW j \in D, <<i, j>> \in R PROVE f[i] < f[j]
  <2>1. Below(D, R, i) \cup {i} \subseteq Below(D, R, j) /\ i \notin Below(D, R, i)
    BY <1>3 DEF Below
  <2>2. /\ IsFiniteSet(Below(D, R, i) \cup {i})
        /\ Cardinality(Below(D, R, i) \cup {i}) = Cardinality(Below(D, R, i)) + 1
    BY <1>2, <2>1, FS_AddElement
  <2>3. Cardinality(Below(D, R, i) \cup {i}) <= Cardinality(Below(D, R, j))
    BY <1>2, <2>1, FS_Subset
  <2> QED  BY <1>2, <2>2, <2>3
<1>4. f \in [D -> 1 .. n]
  BY <1>1, <1>2
<1>5. \A i \in D : f[i] \in Int
  BY <1>1, <1>4
<1> HIDE DEF f, n
<1>a. ASSUME NEW i \in D, NEW j \in D, f[i] = f[j] PROVE i = j
  <2>1. ~ (f[i] < f[j]) /\ ~ (f[j] < f[i])
    BY <1>5, <1>a
  <2> QED  BY <1>3, <2>1
<1>6. f \in Injection(D, 1 .. n)
  BY <1>4, <1>a DEF Injection, IsInjective
<1>7. IsFiniteSet(1 .. n) /\ Cardinality(1 .. n) = n
  BY <1>1, FS_Interval
<1>8. f \in Surjection(D, 1 .. n)
  BY <1>6, <1>7, FS_Injection DEF n
<1> QED  BY <1>6, <1>8 DEF Bijection, f, n

(* Such ranks have an inverse. *)
LEMMA Inverses ==
    ASSUME NEW D, NEW E, NEW f, f \in Bijection(D, E)
    PROVE  \E c \in Bijection(E, D) : \A n \in E : f[c[n]] = n
<1> DEFINE c == [n \in E |-> CHOOSE i \in D : f[i] = n]
<1>1. f \in [D -> E] /\ (\A n \in E : \E i \in D : f[i] = n) /\ \A i, j \in D : f[i] = f[j] => i = j
  BY DEF Bijection, Injection, Surjection, IsInjective
<1>2. \A n \in E : c[n] \in D /\ f[c[n]] = n
  BY <1>1
<1>3. c \in [E -> D]
  BY <1>2
<1>4. \A n \in E : f[c[n]] = n
  BY <1>2
<1>5. ASSUME NEW i \in D PROVE f[i] \in E /\ c[f[i]] = i
  BY <1>1, <1>2
<1> HIDE DEF c
<1>6. c \in Bijection(E, D)
  BY <1>2, <1>3, <1>5 DEF Bijection, Injection, Surjection, IsInjective
<1> QED  BY <1>4, <1>6

(* A part of a finite set and its image under an injection have the same size. *)
SameIn(D, f, A, B) ==
    /\ IsFiniteSet(D) /\ A \subseteq D
    /\ \A i, j \in D : f[i] = f[j] => i = j
    /\ \A b : b \in B <=> \E i \in A : b = f[i]
(* Then they are as many as what they name. *)
LEMMA SameSize ==
    ASSUME NEW D, NEW f, NEW A, NEW B, SameIn(D, f, A, B)
    PROVE  /\ IsFiniteSet(A) /\ IsFiniteSet(B) /\ Cardinality(A) = Cardinality(B)
           /\ Cardinality(A) \in Nat
<1>1. IsFiniteSet(A)
  BY FS_Subset DEF SameIn
<1> DEFINE g == [i \in A |-> f[i]]
<1>2. g \in Bijection(A, B)
  BY DEF SameIn, Bijection, Injection, Surjection, IsInjective
<1> QED  BY <1>1, <1>2, FS_Bijection, FS_CardinalityType DEF ExistsBijection

(* A filter takes what is at the indices, each once. *)
LEMMA PickedIs ==
    ASSUME NEW seq, NEW ix, IsFiniteSet(ix), ix \subseteq Nat
    PROVE  /\ DOMAIN Picked(seq, ix) = 1 .. Cardinality(ix)
           /\ Picked(seq, ix) = [n \in 1 .. Cardinality(ix) |-> Picked(seq, ix)[n]]
           /\ \E e \in Bijection(1 .. Cardinality(ix), ix) :
                 \A n \in 1 .. Cardinality(ix) : Picked(seq, ix)[n] = seq[e[n]]
<1> DEFINE R == {p \in ix \X ix : p[1] < p[2]}
           f == [i \in ix |-> 1 + Cardinality(Below(ix, R, i))]
           N == 1 .. Cardinality(ix)
<1>1. \A i, j \in ix : <<i, j>> \in R <=> i < j
  OBVIOUS
<1>2. f \in Bijection(ix, N)
  <2> HIDE DEF R
  <2>1. \A i \in ix : <<i, i>> \notin R
    BY <1>1
  <2>2. \A i, j \in ix : i # j => <<i, j>> \in R \/ <<j, i>> \in R
    BY <1>1
  <2>3. \A i, j, k \in ix : <<i, j>> \in R /\ <<j, k>> \in R => <<i, k>> \in R
    BY <1>1
  <2> QED  BY <2>1, <2>2, <2>3, Ranks
<1>3. ASSUME NEW i \in ix PROVE f[i] = Cardinality({j \in ix : j <= i})
  <2>0. \A j \in ix : j <= i <=> j < i \/ j = i
    OBVIOUS
  <2>1. {j \in ix : j <= i} = Below(ix, R, i) \cup {i} /\ i \notin Below(ix, R, i)
    <3> HIDE DEF R
    <3>1. ~ (i < i)
      OBVIOUS
    <3>2. \A j : j \in {k \in ix : k <= i} <=> j \in Below(ix, R, i) \cup {i}
      BY <1>1, <2>0 DEF Below
    <3> QED  BY <1>1, <3>1, <3>2 DEF Below
  <2>2. IsFiniteSet(Below(ix, R, i)) /\ Cardinality(Below(ix, R, i)) \in Nat
    BY FS_Subset, FS_CardinalityType DEF Below
  <2>3. Cardinality(Below(ix, R, i) \cup {i}) = Cardinality(Below(ix, R, i)) + 1
    BY <2>1, <2>2, FS_AddElement
  <2>4. Cardinality({j \in ix : j <= i}) = Cardinality(Below(ix, R, i)) + 1
    BY <2>1, <2>3
  <2> HIDE DEF R
  <2> QED  BY <2>2, <2>4
<1> HIDE DEF f
<1>4. PICK e \in Bijection(N, ix) : \A n \in N : f[e[n]] = n
  <2> HIDE DEF N, R
  <2>1. f \in Bijection(ix, N)
    BY <1>2
  <2> QED  BY <2>1, Inverses, SMT
<1>5. ASSUME NEW n \in N
      PROVE  (CHOOSE i \in ix : Cardinality({j \in ix : j <= i}) = n) = e[n]
  <2>1. e[n] \in ix /\ f[e[n]] = n
    BY <1>4 DEF Bijection, Injection
  <2> DEFINE x == CHOOSE i \in ix : Cardinality({j \in ix : j <= i}) = n
  <2>2. \E i \in ix : Cardinality({j \in ix : j <= i}) = n
    BY <1>3, <2>1
  <2>3. x \in ix /\ Cardinality({j \in ix : j <= x}) = n
    BY <2>2
  <2> HIDE DEF x
  <2>4. x \in ix /\ f[x] = n
    BY <1>3, <2>3
  <2>5. x = e[n]
    BY <1>2, <2>1, <2>4 DEF Bijection, Injection, IsInjective
  <2> QED  BY <2>5 DEF x
<1> DEFINE P == Picked(seq, ix)
<1>6. P = [n \in N |-> seq[CHOOSE i \in ix : Cardinality({j \in ix : j <= i}) = n]]
  BY Zenon DEF Picked
<1>7. \A n \in N : P[n] = seq[e[n]] /\ e[n] \in ix
  <2>1. \A n \in N : P[n] = seq[CHOOSE i \in ix : Cardinality({j \in ix : j <= i}) = n]
    <3> HIDE DEF P, N
    <3> QED  BY <1>6
  <2>2. \A n \in N : e[n] \in ix
    BY <1>4 DEF Bijection, Injection
  <2> HIDE DEF P, N
  <2> QED  BY <1>5, <2>1, <2>2, Zenon
<1>8. DOMAIN P = N /\ P = [n \in N |-> P[n]]
  BY <1>6
<1> QED  BY <1>4, <1>7, <1>8

(* What a filter takes is a list of what there is. *)
LEMMA PickedSeq ==
    ASSUME NEW seq, NEW ix, IsFiniteSet(ix), ix \subseteq Nat, NEW S, \A i \in ix : seq[i] \in S
    PROVE  Picked(seq, ix) \in Seq(S) /\ Len(Picked(seq, ix)) = Cardinality(ix)
<1> DEFINE k == Cardinality(ix)
           P == Picked(seq, ix)
<1>1. PICK e \in Bijection(1 .. k, ix) : \A n \in 1 .. k : P[n] = seq[e[n]]
  BY PickedIs
<1>2. k \in Nat
  BY FS_CardinalityType
<1>3. \A n \in 1 .. k : P[n] \in S
  BY <1>1 DEF Bijection, Injection
<1>4. P = [n \in 1 .. k |-> P[n]]
  BY PickedIs
<1> HIDE DEF P, k
<1>5. P \in Seq(S) /\ Len(P) = k
  BY <1>2, <1>3, <1>4
<1> QED  BY <1>5 DEF P, k

-----------------------------------------------------------------------------
(* The round's places. *)

LEMMA CountTo ==
    ASSUME NEW n \in Nat
    PROVE  IsFiniteSet(1 .. n) /\ Cardinality(1 .. n) = n
BY FS_Interval

(* The seats, each once in its list. *)
LEMMA SeatListFits ==
    /\ SeatList \in Seq(SeatSet) /\ DOMAIN SeatList = 1 .. Len(SeatList) /\ Len(SeatList) \in Nat
    /\ \A i, j \in DOMAIN SeatList : SeatList[i] = SeatList[j] => i = j
    /\ \A s \in SeatSet : \E i \in DOMAIN SeatList : SeatList[i] = s
    /\ IsFiniteSet(SeatSet) /\ Cardinality(SeatSet) = Len(SeatList)
    /\ Len(SeatList) <= MostPlacements /\ MostPlacements <= MostPlace
    /\ MostPlacements \in Nat /\ MostPlace \in Nat /\ MaxPoints \in Nat /\ RoundCap \in Nat
<1>1. /\ SeatList \in Seq(SeatSet) /\ IsInjective(SeatList) /\ Len(SeatList) <= MostPlacements
      /\ MostPlacements <= MostPlace /\ MostPlacements \in Nat /\ MostPlace \in Nat
      /\ MaxPoints \in Nat /\ RoundCap \in Nat
  BY RosterAssumption DEF RosterAssumption, SeatSet
<1>2. DOMAIN SeatList = 1 .. Len(SeatList) /\ Len(SeatList) \in Nat
  BY <1>1
<1>3. /\ \A i, j \in DOMAIN SeatList : SeatList[i] = SeatList[j] => i = j
      /\ \A s : s \in SeatSet <=> \E i \in DOMAIN SeatList : s = SeatList[i]
  BY <1>1 DEF IsInjective, SeatSet, Range
<1>4. IsFiniteSet(DOMAIN SeatList) /\ Cardinality(DOMAIN SeatList) = Len(SeatList)
  BY <1>2, CountTo
<1>5. IsFiniteSet(SeatSet) /\ Cardinality(SeatSet) = Len(SeatList)
  BY <1>3, <1>4, SameSize DEF SameIn
<1> QED  BY <1>1, <1>2, <1>3, <1>5

(* Every seat stands once among those that are ranked: live, or departed. *)
LEMMA StandingFits ==
    ASSUME gone \in Seq(Seated), IsInjective(gone)
    PROVE  /\ Standing \in Seq(SeatSet) /\ Len(Standing) = Len(SeatList)
           /\ \A i, j \in DOMAIN Standing : Standing[i] = Standing[j] => i = j
           /\ \A s \in SeatSet : \E i \in DOMAIN Standing : Standing[i] = s
<1> DEFINE live == {i \in DOMAIN SeatList : SeatList[i] \notin Range(gone)}
           k == Cardinality(live)
           front == Picked(SeatList, live)
           st == front \o gone
<1>1. live \subseteq Nat /\ live \subseteq DOMAIN SeatList /\ IsFiniteSet(live) /\ k \in Nat
  <2>1. live \subseteq DOMAIN SeatList /\ DOMAIN SeatList \subseteq Nat
    BY SeatListFits
  <2>2. IsFiniteSet(DOMAIN SeatList)
    BY SeatListFits, CountTo
  <2> HIDE DEF live
  <2> QED  BY <2>1, <2>2, FS_Subset, FS_CardinalityType
<1>a. \A i \in live : SeatList[i] \in SeatSet
  BY SeatListFits
<1>b. /\ front \in Seq(SeatSet) /\ Len(front) = k
      /\ \E e \in Bijection(1 .. k, live) : \A n \in 1 .. k : front[n] = SeatList[e[n]]
  <2> HIDE DEF live
  <2>1. IsFiniteSet(live) /\ live \subseteq Nat
    BY <1>1
  <2>2. Picked(SeatList, live) \in Seq(SeatSet) /\ Len(Picked(SeatList, live)) = Cardinality(live)
    BY <1>a, <2>1, PickedSeq
  <2>3. \E e \in Bijection(1 .. Cardinality(live), live) :
            \A n \in 1 .. Cardinality(live) : Picked(SeatList, live)[n] = SeatList[e[n]]
    BY <2>1, PickedIs
  <2> QED  BY <2>2, <2>3
<1>2. PICK e \in Bijection(1 .. k, live) : \A n \in 1 .. k : front[n] = SeatList[e[n]]
  BY <1>b
<1>3. /\ \A n \in 1 .. k : e[n] \in live /\ e[n] \in DOMAIN SeatList
      /\ \A m, n \in 1 .. k : e[m] = e[n] => m = n
      /\ \A i \in live : \E n \in 1 .. k : e[n] = i
  BY <1>1, <1>2 DEF Bijection, Injection, Surjection, IsInjective
<1>4. \A i \in live : SeatList[i] \notin Range(gone)
  OBVIOUS
<1>5. gone \in Seq(SeatSet) /\ Len(gone) \in Nat /\ DOMAIN gone = 1 .. Len(gone)
  BY DEF Seated
<1>6. /\ \A n \in 1 .. Len(gone) : gone[n] \in Range(gone)
      /\ \A s \in Range(gone) : \E n \in 1 .. Len(gone) : gone[n] = s
      /\ \A m, n \in 1 .. Len(gone) : gone[m] = gone[n] => m = n
  BY <1>5 DEF Range, IsInjective
<1>7. ASSUME NEW s \in SeatSet PROVE s \in Range(gone) \/ \E i \in live : SeatList[i] = s
  BY SeatListFits
<1> HIDE DEF live, k, front
<1>8. front \in Seq(SeatSet) /\ Len(front) = k /\ \A n \in 1 .. k : front[n] = SeatList[e[n]]
  BY <1>b, <1>2
<1>9. /\ st \in Seq(SeatSet) /\ Len(st) = k + Len(gone)
      /\ \A n \in 1 .. k + Len(gone) : st[n] = IF n <= k THEN front[n] ELSE gone[n - k]
  BY <1>5, <1>8
<1> HIDE DEF st
<1>10. DOMAIN st = 1 .. k + Len(gone)
  BY <1>9
<1>11. \A n \in DOMAIN st :
          /\ n <= k => n \in 1 .. k /\ st[n] = SeatList[e[n]]
          /\ ~ (n <= k) => n - k \in 1 .. Len(gone) /\ st[n] = gone[n - k]
  BY <1>1, <1>5, <1>8, <1>9, <1>10
<1>12. ASSUME NEW i \in DOMAIN st, NEW j \in DOMAIN st, st[i] = st[j] PROVE i = j
  <2>0. i \in Int /\ j \in Int /\ k \in Int
    BY <1>1, <1>5, <1>10
  <2>1. CASE i <= k /\ j <= k
    <3>1. i \in 1 .. k /\ j \in 1 .. k /\ SeatList[e[i]] = SeatList[e[j]]
      BY <1>11, <1>12, <2>1
    <3> QED  BY <1>3, <3>1, SeatListFits
  <2>2. CASE ~ (i <= k) /\ ~ (j <= k)
    <3>1. i - k \in 1 .. Len(gone) /\ j - k \in 1 .. Len(gone) /\ gone[i - k] = gone[j - k]
      BY <1>11, <1>12, <2>2
    <3>2. i - k = j - k
      BY <1>6, <3>1
    <3> QED  BY <2>0, <3>2
  <2>3. CASE i <= k /\ ~ (j <= k)
    <3>1. i \in 1 .. k /\ j - k \in 1 .. Len(gone) /\ SeatList[e[i]] = gone[j - k]
      BY <1>11, <1>12, <2>3
    <3> QED  BY <1>3, <1>4, <1>6, <3>1
  <2>4. CASE ~ (i <= k) /\ j <= k
    <3>1. i - k \in 1 .. Len(gone) /\ j \in 1 .. k /\ SeatList[e[j]] = gone[i - k]
      BY <1>11, <1>12, <2>4
    <3> QED  BY <1>3, <1>4, <1>6, <3>1
  <2> QED  BY <2>1, <2>2, <2>3, <2>4
<1>13. ASSUME NEW s \in SeatSet PROVE \E i \in DOMAIN st : st[i] = s
  <2>1. CASE s \in Range(gone)
    <3>1. PICK n \in 1 .. Len(gone) : gone[n] = s
      BY <1>6, <2>1
    <3> DEFINE m == n + k
    <3>2. m \in DOMAIN st /\ ~ (m <= k) /\ m - k = n
      BY <1>1, <1>5, <1>10
    <3> HIDE DEF m
    <3>3. st[m] = gone[m - k]
      BY <1>11, <3>2
    <3> QED  BY <3>1, <3>2, <3>3
  <2>2. CASE \E i \in live : SeatList[i] = s
    <3>1. PICK n \in 1 .. k : SeatList[e[n]] = s
      BY <1>3, <2>2
    <3>2. n \in DOMAIN st /\ n <= k
      BY <1>1, <1>5, <1>10
    <3>3. st[n] = s
      BY <1>11, <3>1, <3>2
    <3> QED  BY <3>2, <3>3
  <2> QED  BY <1>7, <2>1, <2>2
<1>14. Len(st) = Len(SeatList)
  <2>1. \A s : s \in SeatSet <=> \E i \in DOMAIN st : s = st[i]
    BY <1>9, <1>10, <1>13
  <2>2. IsFiniteSet(DOMAIN st) /\ Cardinality(DOMAIN st) = k + Len(gone)
    BY <1>1, <1>5, <1>10, FS_Interval
  <2>3. Cardinality(DOMAIN st) = Cardinality(SeatSet)
    <3>1. SameIn(DOMAIN st, st, DOMAIN st, SeatSet)
      BY <1>12, <2>1, <2>2 DEF SameIn
    <3> QED  BY <3>1, SameSize
  <2> QED  BY <1>9, <2>2, <2>3, SeatListFits
<1>15. Standing = st
  BY Zenon DEF Standing, st, front, live
<1> QED  BY <1>9, <1>12, <1>13, <1>14, <1>15

ByScore(s, p) ==
    LET better == {q \in SeatSet : points[q] > points[s]}
        equal == {q \in SeatSet : points[q] = points[s]}
    IN  p \in Cardinality(better) + 1 .. Cardinality(better) + Cardinality(equal)

(* A place is behind all that score more, and before none that scores less. *)
LEMMA PlaceIsByScore ==
    ASSUME points \in [SeatSet -> 0 .. MaxPoints],
           NEW st, st \in Seq(SeatSet), \A i, j \in DOMAIN st : st[i] = st[j] => i = j,
           \A s \in SeatSet : \E i \in DOMAIN st : st[i] = s,
           NEW i \in DOMAIN st
    PROVE  ByScore(st[i], PlaceAt(st, i))
<1> DEFINE D == DOMAIN st
           A == {j \in D : points[st[j]] > points[st[i]]}
           B == {j \in D : points[st[j]] = points[st[i]] /\ j < i}
           E == {j \in D : points[st[j]] = points[st[i]]}
           better == {q \in SeatSet : points[q] > points[st[i]]}
           equal == {q \in SeatSet : points[q] = points[st[i]]}
<1>1. D = 1 .. Len(st) /\ Len(st) \in Nat /\ \A j \in D : st[j] \in SeatSet /\ points[st[j]] \in Nat
  BY SeatListFits
<1>2. IsFiniteSet(D)
  BY <1>1, CountTo
<1>3. /\ \A b : b \in better <=> \E j \in A : b = st[j]
      /\ \A b : b \in equal <=> \E j \in E : b = st[j]
  BY <1>1
<1>4. /\ IsFiniteSet(A) /\ Cardinality(A) = Cardinality(better) /\ Cardinality(A) \in Nat
      /\ IsFiniteSet(E) /\ Cardinality(E) = Cardinality(equal) /\ Cardinality(E) \in Nat
  <2>1. A \subseteq D
    OBVIOUS
  <2>e. E \subseteq D
    OBVIOUS
  <2> HIDE DEF A, B, E, D, better, equal
  <2>2. \A j, k \in D : st[j] = st[k] => j = k
    BY DEF D
  <2>a. SameIn(D, st, A, better)
    BY <1>2, <1>3, <2>1, <2>2 DEF SameIn
  <2>b. SameIn(D, st, E, equal)
    BY <1>2, <1>3, <2>e, <2>2 DEF SameIn
  <2>3. IsFiniteSet(A) /\ Cardinality(A) = Cardinality(better) /\ Cardinality(A) \in Nat
    BY <2>a, SameSize
  <2>4. IsFiniteSet(E) /\ Cardinality(E) = Cardinality(equal) /\ Cardinality(E) \in Nat
    BY <2>b, SameSize
  <2> QED  BY <2>3, <2>4
<1>5. B \subseteq E \ {i} /\ i \in E /\ A \cap B = {}
  BY <1>1
<1>6. PlaceAt(st, i) = 1 + Cardinality(A \cup B)
  <2>1. A \cup B = {j \in DOMAIN st : \/ points[st[j]] > points[st[i]]
                                      \/ points[st[j]] = points[st[i]] /\ j < i}
    OBVIOUS
  <2> HIDE DEF A, B
  <2> QED  BY <2>1 DEF PlaceAt
<1> HIDE DEF A, B, E, D, better, equal
<1>7. IsFiniteSet(E \ {i}) /\ Cardinality(E \ {i}) = Cardinality(E) - 1
  BY <1>4, <1>5, FS_RemoveElement
<1>8. IsFiniteSet(B) /\ Cardinality(B) \in Nat /\ Cardinality(B) <= Cardinality(E) - 1
  BY <1>5, <1>7, FS_Subset, FS_CardinalityType
<1>9. Cardinality(A \cup B) = Cardinality(A) + Cardinality(B)
  <2>1. Cardinality(A \cup B) = Cardinality(A) + Cardinality(B) - Cardinality(A \cap B)
    BY <1>4, <1>8, FS_Union
  <2>2. Cardinality(A \cap B) = 0
    BY <1>5, FS_EmptySet
  <2> QED  BY <1>4, <1>8, <2>1, <2>2
<1>10. PlaceAt(st, i) \in Cardinality(better) + 1 .. Cardinality(better) + Cardinality(equal)
  BY <1>4, <1>6, <1>8, <1>9
<1> QED  BY <1>10 DEF ByScore, better, equal

(* Every place from the first to the last is one index's. *)
LEMMA PlacesFit ==
    ASSUME points \in [SeatSet -> 0 .. MaxPoints], NEW st, st \in Seq(SeatSet)
    PROVE  \A p \in DOMAIN st : \E i \in DOMAIN st : PlaceAt(st, i) = p
<1> DEFINE D == 1 .. Len(st)
           R == {r \in D \X D : \/ points[st[r[1]]] > points[st[r[2]]]
                                \/ points[st[r[1]]] = points[st[r[2]]] /\ r[1] < r[2]}
           f == [i \in D |-> 1 + Cardinality(Below(D, R, i))]
<1>1. DOMAIN st = D /\ Len(st) \in Nat /\ \A j \in D : st[j] \in SeatSet /\ points[st[j]] \in Nat
  BY SeatListFits
<1>2. IsFiniteSet(D) /\ Cardinality(D) = Len(st)
  BY <1>1, CountTo
<1>3. \A j, i \in D : <<j, i>> \in R <=> \/ points[st[j]] > points[st[i]]
                                         \/ points[st[j]] = points[st[i]] /\ j < i
  OBVIOUS
<1>4. \A i \in D : i \in Nat /\ points[st[i]] \in Nat
  BY <1>1
<1> HIDE DEF R, D
<1>5. f \in Bijection(D, 1 .. Cardinality(D))
  <2>1. \A i \in D : <<i, i>> \notin R
    BY <1>3, <1>4
  <2>2. \A i, j \in D : i # j => <<i, j>> \in R \/ <<j, i>> \in R
    BY <1>3, <1>4
  <2>3. \A i, j, k \in D : <<i, j>> \in R /\ <<j, k>> \in R => <<i, k>> \in R
    BY <1>3, <1>4
  <2> QED  BY <1>2, <2>1, <2>2, <2>3, Ranks
<1>6. ASSUME NEW i \in D PROVE PlaceAt(st, i) = f[i]
  <2> DEFINE T == {j \in DOMAIN st : \/ points[st[j]] > points[st[i]]
                                     \/ points[st[j]] = points[st[i]] /\ j < i}
  <2>1. Below(D, R, i) = T
    <3>1. \A j : j \in Below(D, R, i) <=> j \in T
      BY <1>1, <1>3 DEF Below
    <3> HIDE DEF T
    <3> QED  BY <3>1
  <2>2. f[i] = 1 + Cardinality(Below(D, R, i))
    OBVIOUS
  <2> HIDE DEF f
  <2> QED  BY <2>1, <2>2 DEF PlaceAt
<1> HIDE DEF f
<1>7. 1 .. Cardinality(D) = D
  BY <1>2 DEF D
<1>8. \A p \in D : \E i \in D : f[i] = p
  BY <1>5, <1>7 DEF Bijection, Surjection
<1> QED  BY <1>1, <1>6, <1>8

(* A round is ranked: every seat once, in places without a gap, by score. *)
PlacesAreRight ==
    /\ Len(ranking) = Len(SeatList)
    /\ \A p \in DOMAIN ranking : ranking[p].place = p /\ ByScore(ranking[p].who, p)
    /\ \A p, q \in DOMAIN ranking : ranking[p].who = ranking[q].who => p = q

(* What rankSeats returns is a ranking of every seat. *)
LEMMA RankedFits ==
    ASSUME points \in [SeatSet -> 0 .. MaxPoints], gone \in Seq(Seated), IsInjective(gone)
    PROVE  /\ Ranked \in Seq(Placing) /\ Len(Ranked) = Len(SeatList)
           /\ \A p \in DOMAIN Ranked : Ranked[p].place = p /\ ByScore(Ranked[p].who, p)
           /\ \A p, q \in DOMAIN Ranked : Ranked[p].who = Ranked[q].who => p = q
<1> DEFINE st == Standing
           x(p) == CHOOSE i \in DOMAIN st : PlaceAt(st, i) = p
<1>1. /\ st \in Seq(SeatSet) /\ Len(st) = Len(SeatList)
      /\ \A i, j \in DOMAIN st : st[i] = st[j] => i = j
      /\ \A s \in SeatSet : \E i \in DOMAIN st : st[i] = s
  BY StandingFits
<1>2. Ranked = [p \in DOMAIN st |-> [who |-> st[x(p)], place |-> p]]
  BY Zenon DEF Ranked
<1> HIDE DEF st
<1>3. DOMAIN st = 1 .. Len(st) /\ Len(st) \in Nat /\ \A i \in DOMAIN st : st[i] \in SeatSet
  BY <1>1
<1>4. \A p \in DOMAIN st : x(p) \in DOMAIN st /\ PlaceAt(st, x(p)) = p
  <2>1. \A p \in DOMAIN st : \E i \in DOMAIN st : PlaceAt(st, i) = p
    BY <1>1, PlacesFit
  <2> QED  BY <2>1, Zenon
<1>5. \A i \in DOMAIN st : ByScore(st[i], PlaceAt(st, i))
  BY <1>1, PlaceIsByScore
<1> HIDE DEF x
<1>6. \A p \in DOMAIN st : ByScore(st[x(p)], p)
  BY <1>4, <1>5
<1>7. \A p \in DOMAIN st : Ranked[p].who = st[x(p)] /\ Ranked[p].place = p /\ Ranked[p] \in Placing
  BY <1>2, <1>3, <1>4 DEF Placing
<1>8. DOMAIN Ranked = DOMAIN st
  BY <1>2
<1>9. Ranked \in Seq(Placing) /\ Len(Ranked) = Len(st)
  <2> DEFINE n == Len(st)
             r == Ranked
  <2>1. n \in Nat /\ \A p \in 1 .. n : r[p] \in Placing
    BY <1>3, <1>7
  <2>2. r = [p \in 1 .. n |-> r[p]]
    BY <1>2, <1>3
  <2> HIDE DEF n, r
  <2>3. r \in Seq(Placing) /\ Len(r) = n
    BY <2>1, <2>2
  <2> QED  BY <2>3 DEF n, r
<1>10. ASSUME NEW p \in DOMAIN st, NEW q \in DOMAIN st, Ranked[p].who = Ranked[q].who PROVE p = q
  <2>1. st[x(p)] = st[x(q)]
    BY <1>7, <1>10
  <2>2. x(p) = x(q)
    BY <1>1, <1>4, <2>1
  <2> QED  BY <1>4, <2>2
<1> QED  BY <1>1, <1>6, <1>7, <1>8, <1>9, <1>10

-----------------------------------------------------------------------------
(* The inductive invariant: the ranking, the rows as the worker read them, and the list    *)
(* it built of them, whose places are those of the ranking.                             *)

RowsFit == Len(rows) <= Len(ranking) /\ \A i \in DOMAIN rows : rows[i] = ranking[i]
ListFits ==
    /\ \A i \in DOMAIN list : /\ list[i].place \in DOMAIN ranking /\ list[i].player \in onchain
                              /\ ranking[list[i].place].who = list[i].player
    /\ \A i, j \in DOMAIN list : list[i].place = list[j].place => i = j
RosterInv ==
    /\ RosterTypeOK /\ IsInjective(gone) /\ TableSum(tiers) <= RoundCap
    /\ stage = "playing" => ranking = <<>> /\ step = "idle"
    /\ stage # "playing" => PlacesAreRight
    /\ step # "idle" => RowsFit
    /\ step = "listed" => ListFits

(* The invariant holds at the start, where nothing is ranked. *)
LEMMA RosterStarts == ASSUME RosterInit PROVE RosterInv
<1>1. points \in [SeatSet -> 0 .. MaxPoints]
  BY SeatListFits DEF RosterInit
<1>2. /\ gone \in Seq(Seated) /\ ranking \in Seq(Placing) /\ rows \in Seq(Placing)
      /\ list \in Seq([player : Wallets, place : Nat]) /\ IsInjective(gone)
      /\ written \in 0 .. Len(ranking)
  BY DEF RosterInit, IsInjective
<1>3. onchain = Seated /\ Seated \subseteq Wallets /\ tiers \in TierTables /\ TableSum(tiers) <= RoundCap
  BY DEF RosterInit, Seated
<1> QED  BY <1>1, <1>2, <1>3 DEF RosterInit, RosterInv, RosterTypeOK

(* Playing, nothing is ranked, and the worker has nothing to read. *)
LEMMA PlayStep ==
    ASSUME RosterInv, stage = "playing", UNCHANGED <<stage, ranking, written, onchain, tiers, workPart>>,
           points' \in [SeatSet -> 0 .. MaxPoints], gone' \in Seq(Seated), IsInjective(gone')
    PROVE  RosterInv'
BY DEF RosterInv, RosterTypeOK, workPart

(* Whoever leaves is once among those that left. *)
LEMMA DepartStep == ASSUME RosterInv, NEW w \in Wallets, DepartSeat(w) PROVE RosterInv'
<1>1. gone \in Seq(Seated) /\ IsInjective(gone) /\ points \in [SeatSet -> 0 .. MaxPoints]
  BY DEF RosterInv, RosterTypeOK
<1>2. w \in Seated /\ gone' = Append(gone, w) /\ \A i \in 1 .. Len(gone) : gone[i] # w
  BY <1>1 DEF DepartSeat, Range
<1>3. /\ gone' \in Seq(Seated) /\ Len(gone') = Len(gone) + 1 /\ Len(gone) \in Nat
      /\ \A i \in 1 .. Len(gone) : gone'[i] = gone[i]
      /\ gone'[Len(gone) + 1] = w
  BY <1>1, <1>2
<1>4. DOMAIN gone' = 1 .. Len(gone) + 1 /\ DOMAIN gone = 1 .. Len(gone)
  BY <1>1, <1>3
<1>5. \A i, j \in 1 .. Len(gone) : gone[i] = gone[j] => i = j
  BY <1>1, <1>4 DEF IsInjective
<1>6. ASSUME NEW i \in DOMAIN gone', NEW j \in DOMAIN gone', gone'[i] = gone'[j] PROVE i = j
  <2>1. CASE i \in 1 .. Len(gone) /\ j \in 1 .. Len(gone)
    BY <1>3, <1>5, <1>6, <2>1
  <2>2. CASE i = Len(gone) + 1 \/ j = Len(gone) + 1
    <3>1. i = Len(gone) + 1 \/ i \in 1 .. Len(gone)
      BY <1>3, <1>4
    <3>2. j = Len(gone) + 1 \/ j \in 1 .. Len(gone)
      BY <1>3, <1>4
    <3> QED  BY <1>2, <1>3, <1>6, <2>2, <3>1, <3>2
  <2> QED  BY <1>3, <1>4, <2>1, <2>2
<1>7. IsInjective(gone')
  BY <1>6 DEF IsInjective
<1>8. stage = "playing" /\ UNCHANGED <<stage, points, ranking, written, onchain, tiers, workPart>>
  BY DEF DepartSeat
<1> QED  BY <1>1, <1>3, <1>7, <1>8, PlayStep

(* The finish ranks the round. *)
LEMMA FinishRoundStep == ASSUME RosterInv, FinishRound PROVE RosterInv'
<1>1. /\ points \in [SeatSet -> 0 .. MaxPoints] /\ gone \in Seq(Seated) /\ IsInjective(gone)
      /\ ranking = <<>> /\ step = "idle" /\ written \in 0 .. Len(ranking)
  BY DEF RosterInv, RosterTypeOK, FinishRound
<1>2. ranking' = Ranked /\ stage' = "completed" /\ UNCHANGED <<points, gone, written, onchain, tiers, workPart>>
  BY DEF FinishRound
<1>3. /\ ranking' \in Seq(Placing) /\ Len(ranking') = Len(SeatList)
      /\ \A p \in DOMAIN ranking' : ranking'[p].place = p /\ ByScore(ranking'[p].who, p)
      /\ \A p, q \in DOMAIN ranking' : ranking'[p].who = ranking'[q].who => p = q
  BY <1>1, <1>2, RankedFits
<1>4. PlacesAreRight'
  BY <1>2, <1>3 DEF PlacesAreRight, ByScore
<1>5. written' \in 0 .. Len(ranking')
  <2>1. written = 0 /\ Len(ranking') \in Nat
    BY <1>1, <1>3
  <2> QED  BY <1>2, <2>1
<1>6. RosterTypeOK'
  BY <1>2, <1>3, <1>5 DEF RosterInv, RosterTypeOK, workPart
<1> QED  BY <1>1, <1>2, <1>4, <1>6 DEF RosterInv, workPart

(* What leaves the round and its ranking as they are. *)
LEMMA RankedStays ==
    ASSUME RosterInv, points' = points, gone' = gone, ranking' = ranking,
           stage' = stage \/ (stage = "completed" /\ stage' = "settled")
    PROVE  /\ IsInjective(gone') /\ stage' \in {"playing", "completed", "settled"}
           /\ stage' = "playing" => stage = "playing" /\ ranking' = <<>> /\ step = "idle"
           /\ stage' # "playing" => PlacesAreRight'
<1>1. stage' # "playing" => PlacesAreRight
  BY DEF RosterInv
<1>2. PlacesAreRight => PlacesAreRight'
  BY DEF PlacesAreRight, ByScore
<1> QED  BY <1>1, <1>2 DEF RosterInv, RosterTypeOK

(* A row more in the database: what the worker has read is still a part of them. *)
LEMMA InsertStep == ASSUME RosterInv, InsertRow PROVE RosterInv'
<1>1. UNCHANGED <<stage, points, gone, ranking, onchain, tiers, workPart>> /\ written' \in 0 .. Len(ranking')
  BY DEF InsertRow, RosterInv, RosterTypeOK
<1>2. RosterTypeOK'
  BY <1>1 DEF RosterInv, RosterTypeOK, workPart
<1>3. (step' # "idle" => RowsFit') /\ (step' = "listed" => ListFits')
  BY <1>1 DEF RosterInv, RowsFit, ListFits, workPart
<1>4. /\ points' = points /\ gone' = gone /\ ranking' = ranking /\ step' = step
      /\ tiers' = tiers /\ stage' = stage
  BY <1>1 DEF workPart
<1>5. /\ IsInjective(gone') /\ (stage' = "playing" => ranking' = <<>> /\ step = "idle")
      /\ stage' # "playing" => PlacesAreRight'
  BY <1>4, RankedStays
<1>6. TableSum(tiers') <= RoundCap
  BY <1>4 DEF RosterInv
<1> QED  BY <1>2, <1>3, <1>4, <1>5, <1>6 DEF RosterInv

(* A late entry makes nobody on a list a stranger. *)
LEMMA EnterStep == ASSUME RosterInv, NEW w \in Wallets, EnterRound(w) PROVE RosterInv'
<1>1. onchain' = onchain \cup {w} /\ UNCHANGED <<stage, roundPart, tiers, workPart>>
  BY DEF EnterRound
<1>2. RosterTypeOK'
  BY <1>1 DEF RosterInv, RosterTypeOK, roundPart, workPart
<1>3. (step' # "idle" => RowsFit') /\ (step' = "listed" => ListFits')
  BY <1>1 DEF RosterInv, RowsFit, ListFits, roundPart, workPart
<1>4. points' = points /\ gone' = gone /\ ranking' = ranking /\ step' = step /\ stage' = stage
  BY <1>1 DEF roundPart, workPart
<1>5. /\ IsInjective(gone') /\ (stage' = "playing" => ranking' = <<>> /\ step = "idle")
      /\ stage' # "playing" => PlacesAreRight'
  BY <1>4, RankedStays
<1>6. TableSum(tiers') <= RoundCap
  BY <1>1 DEF RosterInv
<1> QED  BY <1>2, <1>3, <1>4, <1>5, <1>6 DEF RosterInv

(* setTiers takes only tables within the cap. *)
LEMMA TiersStep == ASSUME RosterInv, NEW t \in TierTables, ChangeTiers(t) PROVE RosterInv'
<1>1. tiers' = t /\ TableSum(t) <= RoundCap /\ UNCHANGED <<stage, roundPart, onchain, workPart>>
  BY DEF ChangeTiers
<1>2. RosterTypeOK'
  BY <1>1 DEF RosterInv, RosterTypeOK, roundPart, workPart
<1>3. (step' # "idle" => RowsFit') /\ (step' = "listed" => ListFits')
  BY <1>1 DEF RosterInv, RowsFit, ListFits, roundPart, workPart
<1>4. points' = points /\ gone' = gone /\ ranking' = ranking /\ step' = step /\ stage' = stage
  BY <1>1 DEF roundPart, workPart
<1>5. /\ IsInjective(gone') /\ (stage' = "playing" => ranking' = <<>> /\ step = "idle")
      /\ stage' # "playing" => PlacesAreRight'
  BY <1>4, RankedStays
<1>6. TableSum(tiers') <= RoundCap
  BY <1>1 DEF RosterInv
<1> QED  BY <1>2, <1>3, <1>4, <1>5, <1>6 DEF RosterInv

(* The worker's own steps leave the round as it is. *)
LEMMA WorkerStays ==
    ASSUME RosterInv, UNCHANGED <<roundPart, onchain, tiers>>, stage # "playing",
           stage' = stage \/ (stage = "completed" /\ stage' = "settled"),
           step' \in {"idle", "rows", "listed"}, rows' \in Seq(Placing),
           list' \in Seq([player : Wallets, place : Nat]),
           step' # "idle" => RowsFit', step' = "listed" => ListFits'
    PROVE  RosterInv'
<1>1. points' = points /\ gone' = gone /\ ranking' = ranking /\ written' = written
  BY DEF roundPart
<1>2. /\ IsInjective(gone') /\ stage' \in {"playing", "completed", "settled"} /\ stage' # "playing"
      /\ stage' # "playing" => PlacesAreRight'
  BY <1>1, RankedStays
<1>3. RosterTypeOK'
  BY <1>1, <1>2 DEF RosterInv, RosterTypeOK
<1>4. TableSum(tiers') <= RoundCap
  BY DEF RosterInv
<1> QED  BY <1>2, <1>3, <1>4 DEF RosterInv

(* The worker reads the first rows of the ranking. *)
LEMMA ReadStep == ASSUME RosterInv, ReadRows PROVE RosterInv'
<1>1. /\ ranking \in Seq(Placing) /\ written \in 0 .. Len(ranking) /\ Len(ranking) \in Nat
      /\ DOMAIN ranking = 1 .. Len(ranking)
  BY DEF RosterInv, RosterTypeOK
<1>2. rows' = SubSeq(ranking, 1, written) /\ step' = "rows" /\ stage = "completed"
      /\ UNCHANGED <<stage, roundPart, onchain, tiers, list>>
  BY DEF ReadRows
<1>3. \A i \in 1 .. written : ranking[i] \in Placing
  BY <1>1
<1>4. /\ rows' \in Seq(Placing) /\ Len(rows') = IF 1 <= written THEN written - 1 + 1 ELSE 0
      /\ \A i \in 1 .. written - 1 + 1 : rows'[i] = ranking[1 + i - 1]
  BY <1>1, <1>2, <1>3, SubSeqProperties
<1>5. Len(rows') = written /\ \A i \in 1 .. written : rows'[i] = ranking[i]
  <2>1. written \in Nat
    BY <1>1
  <2>2. written - 1 + 1 = written /\ (1 <= written \/ written = 0)
    BY <2>1
  <2>3. Len(rows') = written
    BY <1>4, <2>1, <2>2
  <2>4. ASSUME NEW i \in 1 .. written PROVE rows'[i] = ranking[i]
    <3>1. 1 + i - 1 = i /\ i \in 1 .. written - 1 + 1
      BY <2>1
    <3> QED  BY <1>4, <3>1
  <2> QED  BY <2>3, <2>4
<1>6. DOMAIN rows' = 1 .. written
  BY <1>4, <1>5
<1>7. RowsFit'
  BY <1>1, <1>2, <1>5, <1>6 DEF RowsFit, roundPart
<1>8. list' \in Seq([player : Wallets, place : Nat])
  BY <1>2 DEF RosterInv, RosterTypeOK
<1> QED  BY <1>2, <1>4, <1>7, <1>8, WorkerStays

(* What it lists has the places of the rows, and each place once. *)
LEMMA BuildStep == ASSUME RosterInv, BuildPlacements PROVE RosterInv'
<1> DEFINE ix == {i \in DOMAIN rows : Listed(rows[i].who)}
           kept == Picked(rows, ix)
           k == Cardinality(ix)
<1>1. /\ step = "rows" /\ step' = "listed" /\ UNCHANGED <<stage, roundPart, onchain, tiers, rows>>
      /\ list' = [i \in DOMAIN kept |-> [player |-> kept[i].who, place |-> kept[i].place]]
  BY DEF BuildPlacements
<1>2. /\ rows \in Seq(Placing) /\ ranking \in Seq(Placing) /\ stage # "playing"
      /\ RowsFit /\ PlacesAreRight /\ onchain \subseteq Wallets
  BY <1>1 DEF RosterInv, RosterTypeOK
<1>3. /\ DOMAIN rows = 1 .. Len(rows) /\ Len(rows) \in Nat
      /\ DOMAIN ranking = 1 .. Len(ranking) /\ Len(ranking) \in Nat /\ Len(rows) <= Len(ranking)
      /\ \A i \in DOMAIN rows : rows[i] \in Placing /\ rows[i] = ranking[i] /\ i \in DOMAIN ranking
  BY <1>2 DEF RowsFit
<1>4. \A i \in DOMAIN rows : rows[i].place = i /\ rows[i].who = ranking[i].who
  BY <1>2, <1>3 DEF PlacesAreRight
<1>5. ix \subseteq Nat /\ ix \subseteq DOMAIN rows /\ IsFiniteSet(ix) /\ k \in Nat
  <2>1. ix \subseteq DOMAIN rows /\ DOMAIN rows \subseteq Nat /\ IsFiniteSet(DOMAIN rows)
    BY <1>3, CountTo
  <2> HIDE DEF ix
  <2> QED  BY <2>1, FS_Subset, FS_CardinalityType
<1>6. \A i \in ix : rows[i].who \in Wallets /\ rows[i].who \in onchain
  BY DEF Listed
<1> HIDE DEF ix
<1>7. PICK e \in Bijection(1 .. k, ix) : \A n \in 1 .. k : kept[n] = rows[e[n]]
  BY <1>5, PickedIs
<1>8. DOMAIN kept = 1 .. k
  BY <1>5, PickedIs
<1>9. /\ \A n \in 1 .. k : e[n] \in ix /\ e[n] \in DOMAIN rows
      /\ \A m, n \in 1 .. k : e[m] = e[n] => m = n
  BY <1>5, <1>7 DEF Bijection, Injection, IsInjective
<1> HIDE DEF kept, k
<1>10. \A n \in 1 .. k : /\ kept[n].place = e[n] /\ kept[n].who \in Wallets /\ kept[n].who \in onchain
                         /\ kept[n].who = ranking[e[n]].who /\ e[n] \in Nat
  BY <1>3, <1>4, <1>6, <1>7, <1>9
<1>11. /\ DOMAIN list' = 1 .. k
       /\ \A n \in 1 .. k : list'[n] = [player |-> kept[n].who, place |-> kept[n].place]
  BY <1>1, <1>8
<1>12. \A n \in 1 .. k : /\ list'[n].place = e[n] /\ list'[n].player = ranking[e[n]].who
                         /\ list'[n].player \in onchain
                         /\ list'[n] \in [player : Wallets, place : Nat]
  BY <1>10, <1>11
<1>13. list' \in Seq([player : Wallets, place : Nat])
  <2> DEFINE l == list'
             P == [player : Wallets, place : Nat]
  <2>1. l = [n \in 1 .. k |-> l[n]]
    BY <1>1, <1>8
  <2>2. \A n \in 1 .. k : l[n] \in P
    BY <1>12
  <2>3. k \in Nat
    BY <1>5
  <2> HIDE DEF l, P
  <2>4. l \in Seq(P)
    BY <2>1, <2>2, <2>3
  <2> QED  BY <2>4 DEF l, P
<1>14. ListFits'
  <2>1. onchain' = onchain /\ ranking' = ranking
    BY <1>1 DEF roundPart
  <2>2. \A i \in DOMAIN list' : /\ list'[i].place \in DOMAIN ranking' /\ list'[i].player \in onchain'
                                /\ ranking'[list'[i].place].who = list'[i].player
    BY <1>3, <1>9, <1>11, <1>12, <2>1
  <2>3. \A i, j \in DOMAIN list' : list'[i].place = list'[j].place => i = j
    BY <1>9, <1>11, <1>12
  <2> QED  BY <2>2, <2>3 DEF ListFits
<1>15. RowsFit' /\ rows' \in Seq(Placing)
  BY <1>1, <1>2 DEF RowsFit, roundPart
<1> QED  BY <1>1, <1>2, <1>13, <1>14, <1>15, WorkerStays

(* Every step keeps the invariant. *)
LEMMA RosterStep == RosterInv /\ [RosterNext]_rosterVars => RosterInv'
<1> SUFFICES ASSUME RosterInv, [RosterNext]_rosterVars PROVE RosterInv'
  OBVIOUS
<1>1. ASSUME NEW s \in SeatSet, ScorePoint(s) PROVE RosterInv'
  <2>1. points' \in [SeatSet -> 0 .. MaxPoints]
    BY <1>1, SeatListFits DEF ScorePoint, RosterInv, RosterTypeOK
  <2> QED  BY <1>1, <2>1, PlayStep DEF ScorePoint, RosterInv, RosterTypeOK
<1>2. ASSUME NEW w \in Wallets, DepartSeat(w) \/ EnterRound(w) PROVE RosterInv'
  BY <1>2, DepartStep, EnterStep
<1>3. ASSUME NEW t \in TierTables, ChangeTiers(t) PROVE RosterInv'
  BY <1>3, TiersStep
<1>4. CASE SettleListed \/ RetryLater
  <2>1. /\ rows' = rows /\ list' = list /\ step' = "idle" /\ step # "idle"
        /\ UNCHANGED <<roundPart, onchain, tiers>>
        /\ stage' = stage \/ (stage = "completed" /\ stage' = "settled")
    BY <1>4 DEF SettleListed, RetryLater
  <2>2. /\ stage # "playing" /\ rows' \in Seq(Placing)
        /\ list' \in Seq([player : Wallets, place : Nat])
    BY <2>1 DEF RosterInv, RosterTypeOK
  <2> QED  BY <2>1, <2>2, WorkerStays
<1>5. CASE UNCHANGED rosterVars
  BY <1>5 DEF rosterVars, roundPart, workPart, RosterInv, RosterTypeOK, PlacesAreRight, ByScore,
              RowsFit, ListFits
<1> QED  BY <1>1, <1>2, <1>3, <1>4, <1>5, FinishRoundStep, InsertStep, ReadStep, BuildStep DEF RosterNext

(* What is paid, place by place. *)
LEMMA PaidByPlace ==
    ASSUME NEW f, NEW k, NEW D, IsFiniteSet(D), \A i \in D : f[i] \in Int,
           NEW P, IsFiniteSet(P), \A i \in D : k[i] \in P
    PROVE  \E g : (\A p \in P : g[p] = Sum(f, {i \in D : k[i] = p})) /\ Sum(g, P) = Sum(f, D)
<1> DEFINE g == [p \in P |-> Sum(f, {i \in D : k[i] = p})]
<1>1. \A p \in P : g[p] = Sum(f, {i \in D : k[i] = p})
  OBVIOUS
<1>2. Sum(g, P) = Sum(f, D)
  BY SumByOwnerOf
<1> HIDE DEF g
<1> QED  BY <1>1, <1>2

(* What a list of different places is paid is no more than the table. *)
LEMMA PrizesFit ==
    ASSUME NEW table, table \in Seq(Nat), NEW D, IsFiniteSet(D),
           NEW P, IsFiniteSet(P), P \subseteq Nat \ {0},
           NEW own, \A i \in D : own[i] \in P, \A i, j \in D : own[i] = own[j] => i = j,
           NEW f, \A i \in D : f[i] = PrizeIn(table, own[i])
    PROVE  Sum(f, D) <= Sum(table, DOMAIN table)
<1> DEFINE T == DOMAIN table
           h == [p \in P |-> PrizeIn(table, p)]
<1>1. IsFiniteSet(D) /\ IsFiniteSet(P)
  OBVIOUS
<1>2. T = 1 .. Len(table) /\ Len(table) \in Nat /\ \A p \in T : table[p] \in Nat
  OBVIOUS
<1>3. \A p \in P : PrizeIn(table, p) \in Nat
  BY <1>2 DEF PrizeIn
<1>4. \A i \in D : f[i] \in Nat
  BY <1>3
<1>5. PICK g : (\A p \in P : g[p] = Sum(f, {i \in D : own[i] = p})) /\ Sum(g, P) = Sum(f, D)
  <2>1. \A i \in D : f[i] \in Int
    BY <1>4
  <2>2. \A i \in D : own[i] \in P
    OBVIOUS
  <2> HIDE DEF T, h
  <2> QED  BY <1>1, <2>1, <2>2, PaidByPlace
<1>6. ASSUME NEW p \in P PROVE g[p] \in Int /\ h[p] \in Nat /\ g[p] <= h[p]
  <2> DEFINE S == {i \in D : own[i] = p}
  <2>1. g[p] = Sum(f, S) /\ h[p] = PrizeIn(table, p) /\ PrizeIn(table, p) \in Nat
    BY <1>3, <1>5
  <2>3. ASSUME NEW i \in S PROVE Sum(f, S) = PrizeIn(table, p)
    <3>1. S = {i} /\ f[i] = PrizeIn(table, p)
      OBVIOUS
    <3>2. f[i] \in Int
      BY <2>1, <3>1
    <3> QED  BY <3>1, <3>2, SumOfOne
  <2> HIDE DEF S, h
  <2>2. CASE S = {}
    BY <2>1, <2>2, SumEmpty
  <2>4. CASE S # {}
    <3>1. Sum(f, S) = PrizeIn(table, p)
      BY <2>3, <2>4
    <3> QED  BY <2>1, <3>1
  <2> QED  BY <2>2, <2>4
<1>7. Sum(g, P) <= Sum(h, P)
  <2>1. \A p \in P : g[p] \in Int /\ h[p] \in Int /\ g[p] <= h[p]
    BY <1>6
  <2> HIDE DEF h
  <2> QED  BY <1>1, <2>1, SumGrows
<1>8. Sum(h, P) <= Sum(table, T)
  <2> DEFINE I == P \cap T
             O == P \ T
  <2>1. IsFiniteSet(I) /\ IsFiniteSet(O) /\ I \cap O = {} /\ P = I \cup O /\ IsFiniteSet(T)
    BY <1>1, <1>2, FS_Subset, CountTo
  <2>2. \A p \in I : h[p] = table[p] /\ h[p] \in Int
    BY <1>2 DEF PrizeIn
  <2>3. \A p \in O : h[p] = 0
    BY <1>2 DEF PrizeIn
  <2>4. \A p \in I \cup O : h[p] \in Int
    BY <2>2, <2>3
  <2>5. I \in SUBSET T
    OBVIOUS
  <2> HIDE DEF I, O, h, T
  <2>6. Sum(h, I \cup O) = Sum(h, I) + Sum(h, O)
    BY <2>1, <2>4, SumOfParts
  <2>7. Sum(h, O) = 0
    BY <2>1, <2>3, SumOfNothing
  <2>8. Sum(h, I) = Sum(table, I)
    BY <2>1, <2>2, SumSame
  <2>9. Sum(table, I) <= Sum(table, T)
    BY <1>2, <2>1, <2>5, SumOfPart
  <2>10. Sum(h, I) \in Int
    BY <2>1, <2>2, SumType
  <2> QED  BY <2>1, <2>6, <2>7, <2>8, <2>9, <2>10
<1>9. Sum(h, P) \in Int /\ Sum(g, P) \in Int /\ Sum(table, T) \in Int
  <2>1. \A p \in P : g[p] \in Int /\ h[p] \in Int
    BY <1>6
  <2>2. IsFiniteSet(T) /\ \A p \in T : table[p] \in Int
    BY <1>2, CountTo
  <2> HIDE DEF h, T
  <2> QED  BY <1>1, <2>1, <2>2, SumType
<1> HIDE DEF h, T
<1>10. Sum(f, D) <= Sum(table, T)
  BY <1>5, <1>7, <1>8, <1>9
<1> QED  BY <1>10 DEF T

(* No more are listed than seats are taken. *)
LEMMA ListIsShort ==
    ASSUME RosterInv, step = "listed", stage = "completed"
    PROVE  Len(list) \in Nat /\ DOMAIN list = 1 .. Len(list) /\ Len(list) <= Len(SeatList)
<1>1. /\ list \in Seq([player : Wallets, place : Nat]) /\ ranking \in Seq(Placing)
      /\ ListFits /\ Len(ranking) = Len(SeatList)
  BY DEF RosterInv, RosterTypeOK, PlacesAreRight
<1> DEFINE m == Len(list)
           n == Len(ranking)
           f == [i \in 1 .. m |-> list[i].place]
<1>2. m \in Nat /\ n \in Nat /\ DOMAIN list = 1 .. m /\ DOMAIN ranking = 1 .. n
  BY <1>1
<1>3. \A i \in 1 .. m : f[i] \in 1 .. n
  BY <1>1, <1>2 DEF ListFits
<1>4. \A i, j \in 1 .. m : f[i] = f[j] => i = j
  BY <1>1, <1>2 DEF ListFits
<1>5. f \in [1 .. m -> 1 .. n]
  BY <1>3
<1> HIDE DEF f, m, n
<1>6. f \in Injection(1 .. m, 1 .. n)
  BY <1>4, <1>5 DEF Injection, IsInjective
<1>7. IsFiniteSet(1 .. n) /\ Cardinality(1 .. n) = n /\ Cardinality(1 .. m) = m
  BY <1>2, CountTo
<1>8. m <= n
  BY <1>6, <1>7, FS_Injection
<1> QED  BY <1>1, <1>2, <1>8 DEF m, n

(* The prizes of the list, at the tiers of the moment, are within the cap. *)
LEMMA ListIsPaid ==
    ASSUME RosterInv, step = "listed", stage = "completed"
    PROVE  TableSum([i \in DOMAIN list |-> PrizeIn(tiers, list[i].place)]) <= RoundCap
<1> DEFINE D == DOMAIN list
           P == 1 .. Len(ranking)
           f == [i \in D |-> PrizeIn(tiers, list[i].place)]
           own == [i \in D |-> list[i].place]
<1>1. /\ ranking \in Seq(Placing) /\ ListFits /\ TableSum(tiers) <= RoundCap
      /\ tiers \in Seq(Nat)
  BY RosterAssumption DEF RosterInv, RosterTypeOK
<1>2. IsFiniteSet(D) /\ IsFiniteSet(P) /\ P \subseteq Nat \ {0} /\ P = DOMAIN ranking
  BY <1>1, ListIsShort, CountTo
<1>3. \A i \in D : own[i] \in P /\ f[i] = PrizeIn(tiers, own[i])
  BY <1>1, <1>2 DEF ListFits
<1>4. \A i, j \in D : own[i] = own[j] => i = j
  BY <1>1 DEF ListFits
<1>5. TableSum(f) = Sum(f, D)
  BY DEF TableSum
<1>6. TableSum(tiers) = Sum(tiers, DOMAIN tiers)
  BY DEF TableSum
<1>7. Sum(f, D) \in Int /\ Sum(tiers, DOMAIN tiers) \in Int
  <2>1. \A i \in D : f[i] \in Int
    BY <1>1, <1>3 DEF PrizeIn
  <2>2. IsFiniteSet(DOMAIN tiers) /\ \A p \in DOMAIN tiers : tiers[p] \in Int
    BY <1>1, CountTo
  <2> HIDE DEF f, D
  <2> QED  BY <1>2, <2>1, <2>2, SumType
<1> HIDE DEF D, P, f, own
<1>8. Sum(f, D) <= Sum(tiers, DOMAIN tiers)
  BY <1>1, <1>2, <1>3, <1>4, PrizesFit
<1>9. TableSum(f) <= RoundCap
  BY <1>1, <1>5, <1>6, <1>7, <1>8, RosterAssumption
<1> QED  BY <1>9 DEF f, D

(* What the invariant says of a list: signer and escrow take it. *)
LEMMA ListIsAcceptable == RosterInv => SettlementIsAcceptable
<1> SUFFICES ASSUME RosterInv, step = "listed", stage = "completed"
             PROVE  /\ SignerAccepts(list) /\ EscrowAccepts(list)
                    /\ \A i \in DOMAIN list : ByScore(list[i].player, list[i].place)
  BY DEF SettlementIsAcceptable, ByScore
<1>1. /\ ranking \in Seq(Placing) /\ Len(ranking) = Len(SeatList) /\ ListFits /\ PlacesAreRight
  BY DEF RosterInv, RosterTypeOK, PlacesAreRight
<1>2. /\ Len(list) \in Nat /\ Len(list) <= Len(SeatList) /\ Len(SeatList) \in Nat
      /\ Len(SeatList) <= MostPlacements /\ MostPlacements <= MostPlace
      /\ MostPlacements \in Nat /\ MostPlace \in Nat
  BY ListIsShort, SeatListFits, RosterAssumption
<1>3. \A i \in DOMAIN list :
         /\ list[i].place \in 1 .. Len(SeatList) /\ list[i].player \in onchain
         /\ ranking[list[i].place].who = list[i].player
         /\ ByScore(list[i].player, list[i].place)
  BY <1>1 DEF ListFits, PlacesAreRight
<1>4. \A i, j \in DOMAIN list : list[i].player = list[j].player => i = j
  BY <1>1 DEF ListFits, PlacesAreRight
<1>5. Len(list) <= MostPlacements /\ \A i \in DOMAIN list : list[i].place \in 1 .. MostPlace
  BY <1>2, <1>3
<1>6. SignerAccepts(list)
  BY <1>4, <1>5 DEF SignerAccepts
<1>7. EscrowAccepts(list)
  <2>1. \A i \in DOMAIN list : list[i].place # 0
    BY <1>5
  <2> QED  BY <1>3, <1>4, <1>5, <2>1, ListIsPaid DEF EscrowAccepts
<1> QED  BY <1>3, <1>6, <1>7

(* Of scores, ranking, rows, list and chain: what each variable may hold. *)
THEOREM RosterTyped == RosterSpec => []RosterTypeOK
<1>1. RosterInit => RosterInv
  BY RosterStarts
<1>2. RosterInv => RosterTypeOK
  BY DEF RosterInv
<1> QED  BY <1>1, <1>2, RosterStep, PTL DEF RosterSpec

(* Whatever rows were written when the worker read them, whoever left, entered or tied,  *)
(* and whatever tiers stand by then: the list it built is one that signer and escrow take,  *)
(* and its places are those of the whole round by score (settlementRoster.js:4,           *)
(* ArenaEscrow.sol:379).                                                         *)
THEOREM SettlementsAreAcceptable == RosterSpec => []SettlementIsAcceptable
<1>1. RosterInit => RosterInv
  BY RosterStarts
<1> QED  BY <1>1, RosterStep, ListIsAcceptable, PTL DEF RosterSpec

-----------------------------------------------------------------------------
(* What the tools hold, send and set in the escrow has its type. *)

(* What is sent has a limit in the numbers, and only the player's own tool enters on the *)
(* player's allowance to the escrow.                                                 *)
StepFits(cmd, x) == x.limit \in Nat /\ (x.op = "enter" => cmd = "enter")
StepsFit(k) ==
    /\ k.waiting \in BOOLEAN /\ k.secret \in Secrets \cup {NoSecret}
    /\ \A i \in DOMAIN k.plan : StepFits(k.cmd, k.plan[i])
IsTx(x) ==
    /\ x = [by |-> x.by, cmd |-> x.cmd, op |-> x.op, limit |-> x.limit, label |-> x.label, secret |-> x.secret]
    /\ x.by \in Tools \cup {"gone"} /\ StepFits(x.cmd, x)

EscrowTyped ==
    /\ opened \in [Labels -> Secrets \cup {NoSecret}]
    /\ entrant \in [Labels -> BOOLEAN] /\ paidOut \in [Labels -> BOOLEAN]
    /\ owed \in Nat /\ stakeNow \in Stakes
    /\ allowance \in [{"player", "owner", "permit2"} -> Nat]
ToolsTyped ==
    /\ drawn \subseteq Secrets /\ runs \in 0 .. MaxRuns
    /\ \A t \in Tools : StepsFit(tool[t])
ChainTyped == \A x \in inflight : IsTx(x)
CliTyped == EscrowTyped /\ ToolsTyped /\ ChainTyped

(* That is more than the types the run checks, once files have theirs. *)
LEMMA CliTypesAre == ASSUME CliTyped, SeedTypes PROVE CliTypeOK
BY DEF CliTyped, EscrowTyped, ToolsTyped, ChainTyped, StepsFit, IsTx, SeedTypes, CliTypeOK

(* Before anything is sent there is nothing to fit. *)
LEMMA CliTypesStart == ASSUME CliInit PROVE CliTyped
<1>1. EscrowTyped
  <2>1. [player |-> 0, owner |-> 0, permit2 |-> 0] \in [{"player", "owner", "permit2"} -> Nat]
    OBVIOUS
  <2> QED  BY <2>1 DEF CliInit, EscrowTyped
<1>2. ToolsTyped
  <2>1. StepsFit(NoTool)
    BY DEF NoTool, StepsFit
  <2>2. MaxRuns \in Nat
    BY CliAssumption DEF CliAssumption
  <2> QED  BY <2>1, <2>2 DEF CliInit, ToolsTyped
<1>3. ChainTyped
  BY DEF CliInit, ChainTyped
<1> QED  BY <1>1, <1>2, <1>3 DEF CliTyped

(* Stakes are numbers, and so is the greatest of them. *)
LEMMA StakesAreNat == Stakes \subseteq Nat /\ Max(Stakes) \in Nat /\ FundAmount \in Nat
<1>1. Max(Stakes) \in Stakes
  BY CliAssumption DEF CliAssumption, Max
<1> QED  BY <1>1, CliAssumption DEF CliAssumption

(* When one tool's record changes, and the new one fits, all fit. *)
LEMMA ToolAfter ==
    ASSUME ToolsFit, ToolsTyped, NEW t \in Tools, NEW k, tool' = [tool EXCEPT ![t] = k], StepsFit(k)
    PROVE  \A u \in Tools : StepsFit(tool'[u])
<1>1. \A u \in Tools : tool'[u] = IF u = t THEN k ELSE tool[u]
  BY DEF ToolsFit
<1> QED  BY <1>1 DEF ToolsTyped

(* A tool that starts. *)
LEMMA StartTyped ==
    ASSUME CliInv, CliTyped, NEW t \in Tools, NEW cmd, NEW l, NEW secret \in Secrets \cup {NoSecret}, NEW plan,
           Start(t, cmd, l, secret, plan), \A i \in DOMAIN plan : StepFits(cmd, plan[i]),
           drawn' \subseteq Secrets
    PROVE  CliTyped'
<1> DEFINE k == [cmd |-> cmd, label |-> l, secret |-> secret, plan |-> plan, waiting |-> FALSE]
<1>1. StepsFit(k)
  BY DEF StepsFit
<1>2. /\ runs < MaxRuns /\ runs' = runs + 1 /\ tool' = [tool EXCEPT ![t] = k]
      /\ UNCHANGED <<opened, entrant, paidOut, owed, stakeNow, allowance, inflight>>
  BY DEF Start, escrowPart
<1> HIDE DEF k
<1>3. \A u \in Tools : StepsFit(tool'[u])
  BY <1>1, <1>2, ToolAfter DEF CliInv, CliTyped
<1>4. runs' \in 0 .. MaxRuns
  BY <1>2, CliAssumption DEF CliTyped, ToolsTyped, CliAssumption
<1>5. ToolsTyped'
  BY <1>3, <1>4 DEF ToolsTyped
<1> QED  BY <1>2, <1>5 DEF CliTyped, EscrowTyped, ChainTyped

(* What is planned fits: an approval, if any, and then what it is for. *)
LEMMA PlanSteps ==
    ASSUME NEW payer, NEW amount \in Nat, NEW approval \in Nat, NEW op, NEW cmd, op = "enter" => cmd = "enter"
    PROVE  \A i \in DOMAIN Plan(payer, amount, approval, op) :
              StepFits(cmd, Plan(payer, amount, approval, op)[i])
<1>1. StepFits(cmd, Tx("approve", approval)) /\ StepFits(cmd, Tx(op, amount))
  BY DEF StepFits, Tx
<1>2. CASE Plan(payer, amount, approval, op) = <<Tx("approve", approval), Tx(op, amount)>>
  BY <1>1, <1>2
<1>3. CASE Plan(payer, amount, approval, op) = <<Tx(op, amount)>>
  BY <1>1, <1>3
<1> QED  BY <1>2, <1>3 DEF Plan

(* A tool that starts plans calls whose limits are numbers. *)
LEMMA ToolStartsTyped ==
    ASSUME CliInv, CliTyped, NEW t \in Tools,
           \/ \E l \in Labels : OpenTool(t, l) \/ EnterTool(t, l) \/ SettleTool(t, l)
           \/ WithdrawTool(t) \/ FundTool(t)
    PROVE  CliTyped'
<1>1. drawn \subseteq Secrets /\ stakeNow \in Nat
  BY StakesAreNat DEF CliTyped, ToolsTyped, EscrowTyped
<1>2. ASSUME NEW op, op # "enter", NEW cmd
      PROVE  \A i \in DOMAIN <<Tx(op, 0)>> : StepFits(cmd, <<Tx(op, 0)>>[i])
  BY <1>2 DEF StepFits, Tx
<1>3. ASSUME NEW l \in Labels, OpenTool(t, l) PROVE CliTyped'
  <2>1. PICK secret \in Secrets \ drawn :
           drawn' = drawn \cup {secret} /\ Start(t, "open", l, secret, <<Tx("openRound", 0)>>)
    BY <1>3 DEF OpenTool
  <2>2. drawn' \subseteq Secrets
    BY <1>1, <2>1
  <2>3. \A i \in DOMAIN <<Tx("openRound", 0)>> : StepFits("open", <<Tx("openRound", 0)>>[i])
    BY <1>2
  <2> QED  BY <2>1, <2>2, <2>3, StartTyped
<1>4. ASSUME NEW l \in Labels, EnterTool(t, l) PROVE CliTyped'
  <2>1. drawn' \subseteq Secrets
    BY <1>1, <1>4 DEF EnterTool
  <2>2. CASE Start(t, "enter", l, NoSecret, Plan("player", stakeNow, stakeNow, "enter"))
    <3> DEFINE plan == Plan("player", stakeNow, stakeNow, "enter")
    <3>1. \A i \in DOMAIN plan : StepFits("enter", plan[i])
      BY <1>1, PlanSteps
    <3> HIDE DEF plan
    <3> QED  BY <2>1, <2>2, <3>1, StartTyped DEF plan
  <2>3. CASE Start(t, "permit", l, NoSecret, Plan("permit2", stakeNow, Max(Stakes), "enterWithPermit2"))
    <3> DEFINE plan == Plan("permit2", stakeNow, Max(Stakes), "enterWithPermit2")
    <3>1. \A i \in DOMAIN plan : StepFits("permit", plan[i])
      BY <1>1, StakesAreNat, PlanSteps
    <3> HIDE DEF plan
    <3> QED  BY <2>1, <2>3, <3>1, StartTyped DEF plan
  <2> QED  BY <1>4, <2>2, <2>3 DEF EnterTool
<1>5. ASSUME NEW l \in Labels, SettleTool(t, l) PROVE CliTyped'
  <2>1. drawn' \subseteq Secrets /\ Start(t, "settle", l, files[l], <<Tx("settleRound", 0)>>)
        /\ files[l] \in Secrets \cup {NoSecret}
    BY <1>1, <1>5 DEF SettleTool, CliInv, SeedTypes
  <2>2. \A i \in DOMAIN <<Tx("settleRound", 0)>> : StepFits("settle", <<Tx("settleRound", 0)>>[i])
    BY <1>2
  <2> QED  BY <2>1, <2>2, StartTyped
<1>6. ASSUME WithdrawTool(t) PROVE CliTyped'
  <2>1. drawn' \subseteq Secrets /\ Start(t, "withdraw", "none", NoSecret, <<Tx("withdraw", 0)>>)
    BY <1>1, <1>6 DEF WithdrawTool
  <2>2. \A i \in DOMAIN <<Tx("withdraw", 0)>> : StepFits("withdraw", <<Tx("withdraw", 0)>>[i])
    BY <1>2
  <2> QED  BY <2>1, <2>2, StartTyped
<1>7. ASSUME FundTool(t) PROVE CliTyped'
  <2> DEFINE plan == Plan("owner", FundAmount, FundAmount, "fundPool")
  <2>1. drawn' \subseteq Secrets /\ Start(t, "fund", "none", NoSecret, plan)
    BY <1>1, <1>7 DEF FundTool
  <2>2. \A i \in DOMAIN plan : StepFits("fund", plan[i])
    BY StakesAreNat, PlanSteps
  <2> HIDE DEF plan
  <2> QED  BY <2>1, <2>2, StartTyped
<1> QED  BY <1>3, <1>4, <1>5, <1>6, <1>7

(* A transaction that mines leaves numbers: an allowance covers what it is spent on. *)
LEMMA MinedTyped ==
    ASSUME CliInv, CliTyped, NEW tx \in inflight, Mined(tx) PROVE CliTyped'
<1>1. IsTx(tx) /\ tx.limit \in Nat /\ (tx.op = "enter" => Payer(tx) = "player")
      /\ Payer(tx) \in {"player", "owner", "permit2"}
  <2>1. IsTx(tx) /\ tx.limit \in Nat /\ (tx.op = "enter" => tx.cmd = "enter")
    BY DEF CliTyped, ChainTyped, IsTx, StepFits
  <2> QED  BY <2>1 DEF Payer
<1>2. inflight' \subseteq inflight /\ UNCHANGED <<files, drawn, tool, runs>>
  BY DEF Mined, toolPart
<1>3. ToolsTyped' /\ ChainTyped'
  BY <1>2 DEF CliTyped, ToolsTyped, ChainTyped
<1>4. CASE ~ Runs(tx)
  <2>1. UNCHANGED <<opened, entrant, paidOut, owed, stakeNow, allowance>>
    BY <1>4 DEF Mined, escrowPart
  <2> QED  BY <1>3, <2>1 DEF CliTyped, EscrowTyped
<1>5. CASE Runs(tx)
  <2>1. MineTx(tx)
    BY <1>5 DEF Mined
  <2>2. allowance \in [{"player", "owner", "permit2"} -> Nat] /\ stakeNow \in Nat /\ owed \in Nat
    BY StakesAreNat DEF CliTyped, EscrowTyped
  <2>3. entrant' \in [Labels -> BOOLEAN] /\ paidOut' \in [Labels -> BOOLEAN]
    BY <2>1 DEF MineTx, CliTyped, EscrowTyped
  <2>4. owed' \in Nat /\ stakeNow' \in Stakes
    BY <2>1, <2>2 DEF MineTx, CliTyped, EscrowTyped
  <2>5. opened' \in [Labels -> Secrets \cup {NoSecret}]
    <3>1. CliInv'
      BY MinedFits
    <3> QED  BY <3>1 DEF CliInv, SeedTypes
  <2>6. allowance' \in [{"player", "owner", "permit2"} -> Nat]
    <3>1. CASE tx.op = "approve"
      <4>1. allowance' = [allowance EXCEPT ![Payer(tx)] = tx.limit]
        BY <2>1, <3>1 DEF MineTx
      <4> QED  BY <1>1, <2>2, <4>1
    <3>2. CASE tx.op = "enter"
      <4>1. stakeNow <= allowance["player"]
        BY <1>1, <1>5, <3>2 DEF Runs
      <4>2. allowance["player"] - stakeNow \in Nat
        BY <2>2, <4>1
      <4>3. allowance' = [allowance EXCEPT !["player"] = allowance["player"] - stakeNow]
        BY <2>1, <3>2 DEF MineTx
      <4> QED  BY <2>2, <4>2, <4>3
    <3>3. CASE tx.op = "fundPool"
      <4>1. allowance["owner"] >= FundAmount
        BY <1>5, <3>3 DEF Runs
      <4>2. allowance["owner"] - FundAmount \in Nat
        BY <2>2, <4>1, StakesAreNat
      <4>3. allowance' = [allowance EXCEPT !["owner"] = allowance["owner"] - FundAmount]
        BY <2>1, <3>3 DEF MineTx
      <4> QED  BY <2>2, <4>2, <4>3
    <3>4. CASE tx.op \notin {"approve", "enter", "fundPool"}
      <4>1. allowance' = allowance
        BY <2>1, <3>4 DEF MineTx
      <4> QED  BY <2>2, <4>1
    <3> QED  BY <3>1, <3>2, <3>3, <3>4
  <2>7. EscrowTyped'
    BY <2>3, <2>4, <2>5, <2>6 DEF EscrowTyped
  <2> QED  BY <1>3, <2>7 DEF CliTyped
<1> QED  BY <1>4, <1>5

(* A tool that ends leaves nothing behind but its transactions. *)
LEMMA QuitTyped ==
    ASSUME CliInv, CliTyped, NEW t \in Tools, Quit(t)
    PROVE  \A u \in Tools : StepsFit(tool'[u])
<1>1. StepsFit(NoTool)
  BY DEF NoTool, StepsFit
<1>2. tool' = [tool EXCEPT ![t] = NoTool]
  BY DEF Quit
<1> QED  BY <1>1, <1>2, ToolAfter DEF CliInv, CliTyped

(* What a tool sends is the first of its plan. *)
LEMMA SubmitTyped == ASSUME CliInv, CliTyped, NEW t \in Tools, Submit(t) PROVE CliTyped'
<1> DEFINE k == tool[t]
           next == Head(k.plan)
           tx == [by |-> t, cmd |-> k.cmd, op |-> next.op, limit |-> next.limit,
                  label |-> k.label, secret |-> k.secret]
<1>1. /\ k.plan # <<>> /\ UNCHANGED <<opened, entrant, paidOut, owed, stakeNow, allowance, drawn, runs>>
      /\ \/ inflight' = inflight \cup {tx} /\ tool' = [tool EXCEPT ![t].waiting = TRUE]
         \/ Quit(t) /\ inflight' = inflight
  BY DEF Submit, escrowPart
<1>2. StepsFit(k) /\ ToolFits(k)
  BY DEF CliTyped, ToolsTyped, CliInv, ToolsFit
<1>3. StepFits(k.cmd, next)
  <2>1. 1 \in DOMAIN k.plan /\ next = k.plan[1]
    BY <1>1, <1>2 DEF ToolFits, PlanFits
  <2> QED  BY <1>2, <2>1 DEF StepsFit
<1>4. IsTx(tx)
  BY <1>3 DEF IsTx, StepFits
<1>5. CASE inflight' = inflight \cup {tx} /\ tool' = [tool EXCEPT ![t].waiting = TRUE]
  <2> DEFINE new == [k EXCEPT !.waiting = TRUE]
  <2>1. new.plan = k.plan /\ new.cmd = k.cmd /\ new.secret = k.secret /\ new.waiting = TRUE
    BY <1>2 DEF ToolFits
  <2>2. StepsFit(new)
    BY <1>2, <2>1 DEF StepsFit
  <2>3. tool' = [tool EXCEPT ![t] = new]
    BY <1>5
  <2> HIDE DEF new, k
  <2>4. \A u \in Tools : StepsFit(tool'[u])
    BY <2>2, <2>3, ToolAfter DEF CliInv, CliTyped
  <2> HIDE DEF tx
  <2> QED  BY <1>1, <1>4, <1>5, <2>4 DEF CliTyped, EscrowTyped, ToolsTyped, ChainTyped
<1>6. CASE Quit(t) /\ inflight' = inflight
  <2>1. \A u \in Tools : StepsFit(tool'[u])
    BY <1>6, QuitTyped
  <2> HIDE DEF tx, k
  <2> QED  BY <1>1, <1>6, <2>1 DEF CliTyped, EscrowTyped, ToolsTyped, ChainTyped
<1> QED  BY <1>1, <1>5, <1>6

(* A receipt takes the first call off the plan, or ends it. *)
LEMMA ReceiptTyped == ASSUME CliInv, CliTyped, NEW t \in Tools, Receipt(t) PROVE CliTyped'
<1> DEFINE k == tool[t]
<1>1. /\ UNCHANGED <<opened, entrant, paidOut, owed, stakeNow, allowance, drawn, runs, inflight>>
      /\ \/ tool' = [tool EXCEPT ![t].waiting = FALSE, ![t].plan = Tail(@)]
         \/ Quit(t)
  BY DEF Receipt, escrowPart
<1>2. StepsFit(k) /\ ToolFits(k) /\ k.waiting \in BOOLEAN
  BY DEF CliTyped, ToolsTyped, CliInv, ToolsFit, ToolFits
<1>3. tool[t].waiting
  BY DEF Receipt
<1>4. \A u \in Tools : StepsFit(tool'[u])
  <2>1. CASE tool' = [tool EXCEPT ![t].waiting = FALSE, ![t].plan = Tail(@)]
    <3> DEFINE new == [k EXCEPT !.waiting = FALSE, !.plan = Tail(k.plan)]
    <3>1. new.plan = Tail(k.plan) /\ new.cmd = k.cmd /\ new.secret = k.secret /\ new.waiting = FALSE
      BY <1>2 DEF ToolFits
    <3>2. k.plan # <<>>
      BY <1>2, <1>3 DEF ToolFits
    <3>3. \A i \in DOMAIN Tail(k.plan) : i + 1 \in DOMAIN k.plan /\ Tail(k.plan)[i] = k.plan[i + 1]
      <4>1. ASSUME NEW q, q # <<>>, (\E x : q = <<x>>) \/ (\E x, y : q = <<x, y>>)
            PROVE  \A i \in DOMAIN Tail(q) : i + 1 \in DOMAIN q /\ Tail(q)[i] = q[i + 1]
        <5>1. CASE \E x : q = <<x>>
          <6>1. Tail(q) = <<>>
            BY <5>1
          <6> QED  BY <6>1
        <5>2. CASE \E x, y : q = <<x, y>>
          <6>1. PICK x, y : q = <<x, y>>
            BY <5>2
          <6>2. Tail(q) = <<y>>
            BY <6>1
          <6>3. q[1 + 1] = y /\ 1 + 1 \in DOMAIN q
            BY <6>1
          <6> QED  BY <6>2, <6>3
        <5> QED  BY <4>1, <5>1, <5>2
      <4>2. (\E x : k.plan = <<x>>) \/ (\E x, y : k.plan = <<x, y>>)
        <5> HIDE DEF k
        <5> QED  BY <1>2, <3>2 DEF ToolFits, PlanFits
      <4> HIDE DEF k
      <4> QED  BY <3>2, <4>1, <4>2
    <3>4. StepsFit(new)
      <4>1. \A i \in DOMAIN new.plan : StepFits(new.cmd, new.plan[i])
        BY <1>2, <3>1, <3>3 DEF StepsFit
      <4> HIDE DEF new
      <4> QED  BY <1>2, <3>1, <4>1 DEF StepsFit
    <3>5. tool' = [tool EXCEPT ![t] = new]
      BY <2>1 DEF CliInv, ToolsFit
    <3> HIDE DEF new, k
    <3> QED  BY <3>4, <3>5, ToolAfter DEF CliInv, CliTyped
  <2>2. CASE Quit(t)
    BY <2>2, QuitTyped
  <2> QED  BY <1>1, <2>1, <2>2
<1> QED  BY <1>1, <1>4 DEF CliTyped, EscrowTyped, ToolsTyped, ChainTyped

(* What a tool no longer waits for is what it was. *)
LEMMA GiveUpTyped == ASSUME CliInv, CliTyped, NEW t \in Tools, GiveUp(t) PROVE CliTyped'
<1>1. /\ UNCHANGED <<opened, entrant, paidOut, owed, stakeNow, allowance, drawn, runs>>
      /\ inflight' = {IF x.by = t THEN [x EXCEPT !.by = "gone"] ELSE x : x \in inflight}
  BY DEF GiveUp, Orphaned, escrowPart
<1>2. \A u \in Tools : StepsFit(tool'[u])
  BY QuitTyped DEF GiveUp
<1>3. ASSUME NEW x \in inflight PROVE IsTx([x EXCEPT !.by = "gone"]) /\ IsTx(x)
  <2>1. IsTx(x)
    BY DEF CliTyped, ChainTyped
  <2> DEFINE y == [by |-> "gone", cmd |-> x.cmd, op |-> x.op, limit |-> x.limit, label |-> x.label,
                   secret |-> x.secret]
  <2>2. [x EXCEPT !.by = "gone"] = y
    BY <2>1 DEF IsTx
  <2>3. IsTx(y)
    BY <2>1 DEF IsTx, StepFits
  <2> QED  BY <2>1, <2>2, <2>3
<1>4. ChainTyped'
  BY <1>1, <1>3 DEF ChainTyped
<1> QED  BY <1>1, <1>2, <1>4 DEF CliTyped, EscrowTyped, ToolsTyped

(* One step of the tools, of the chain or of the player. *)
LEMMA CliTypesStep == CliInv /\ CliTyped /\ [CliNext]_cliVars => CliTyped'
<1> SUFFICES ASSUME CliInv, CliTyped, [CliNext]_cliVars PROVE CliTyped'
  OBVIOUS
<1>1. CASE \E t \in Tools :
             \/ \E l \in Labels : OpenTool(t, l) \/ EnterTool(t, l) \/ SettleTool(t, l)
             \/ WithdrawTool(t) \/ FundTool(t)
  BY <1>1, ToolStartsTyped
<1>2. CASE \E t \in Tools : Submit(t) \/ Receipt(t) \/ GiveUp(t)
  BY <1>2, SubmitTyped, ReceiptTyped, GiveUpTyped
<1>3. CASE \E tx \in inflight : Mined(tx)
  BY <1>3, MinedTyped
<1>4. CASE SetStake
  <2>1. /\ stakeNow' \in Stakes
        /\ UNCHANGED <<opened, entrant, paidOut, owed, allowance, drawn, tool, runs, inflight>>
    BY <1>4 DEF SetStake, toolPart
  <2> QED  BY <2>1 DEF CliTyped, EscrowTyped, ToolsTyped, ChainTyped
<1>5. CASE UNCHANGED cliVars
  BY <1>5 DEF cliVars, escrowPart, toolPart, CliTyped, EscrowTyped, ToolsTyped, ChainTyped
<1> QED  BY <1>1, <1>2, <1>3, <1>4, <1>5 DEF CliNext

(* The operator's tools keep the types of their state (lib.mjs): no allowance goes below    *)
(* zero, however many tools run at once.                                               *)
THEOREM CliTypesHold == CliSpec => []CliTypeOK
<1>1. CliInit => CliInv /\ CliTyped
  BY CliInitFits, CliTypesStart
<1>2. CliInv /\ CliTyped => CliTypeOK
  BY CliTypesAre DEF CliInv
<1>3. CliInv /\ CliTyped /\ [CliNext]_cliVars => CliInv' /\ CliTyped'
  BY CliStep, CliTypesStep
<1> QED  BY <1>1, <1>2, <1>3, PTL DEF CliSpec

-----------------------------------------------------------------------------
(* What the limiters count has its type. *)

(* Before anything is asked the window is not opened and the bucket is full. *)
LEMMA LimitTypesStart == ASSUME LimitInit PROVE LimitTypeOK
<1>1. MaxPerSec * Second \in Nat
  BY LimitIsNat
<1>2. NoEntry \in [count : Nat, resetAt : {-1} \cup Nat]
  BY DEF NoEntry
<1> QED  BY <1>1, <1>2 DEF LimitInit, LimitTypeOK

(* A window counts up from nothing, a bucket never holds more than its burst. *)
LEMMA LimitTypesStep == LimitTypeOK /\ [LimitNext]_limitVars => LimitTypeOK'
<1> SUFFICES ASSUME LimitTypeOK, [LimitNext]_limitVars PROVE LimitTypeOK'
  OBVIOUS
<1> DEFINE Entries == [count : Nat, resetAt : {-1} \cup Nat]
<1>1. /\ limitTime \in Nat /\ lastRefill \in 0 .. limitTime /\ entry \in Entries
      /\ shares \in 0 .. MaxPerSec * Second /\ admitted \in Seq(Nat) /\ limiter \in Windowed \cup {"bucket"}
  BY DEF LimitTypeOK
<1>2. WindowMs \in Nat /\ MaxPerSec \in Nat /\ Second \in Nat /\ MaxPerSec * Second \in Nat
  BY LimitIsNat
<1>3. \A ok : Admit(ok) => admitted' \in Seq(Nat)
  BY <1>1 DEF Admit
<1>4. CASE Request
  <2>1. Current \in Entries
    BY <1>1, <1>2 DEF Current, Opened
  <2>2. entry' \in Entries
    BY <1>4, <2>1 DEF Request
  <2> QED  BY <1>1, <1>3, <1>4, <2>2 DEF Request, LimitTypeOK
<1>5. CASE SweepCounts
  <2>1. entry' \in Entries
    BY <1>5 DEF SweepCounts, NoEntry
  <2> QED  BY <1>1, <1>5, <2>1 DEF SweepCounts, LimitTypeOK
<1>6. CASE Check
  <2> DEFINE full == MaxPerSec * Second
             gained == (limitTime - lastRefill) * MaxPerSec
  <2>1. limitTime - lastRefill \in Nat
    BY <1>1
  <2>2. gained \in Nat /\ full \in Nat
    BY <1>2, <2>1
  <2> HIDE DEF full, gained
  <2>3. shares \in 0 .. full /\ shares \in Nat
    BY <1>1, <2>2 DEF full
  <2>4. Refilled = Min({full, shares + gained})
    BY DEF Refilled, full, gained
  <2>5. {full, shares + gained} \subseteq Nat /\ {full, shares + gained} # {}
    BY <2>2, <2>3
  <2>6. Refilled \in 0 .. full
    <3>1. Refilled \in {full, shares + gained} /\ Refilled <= full
      BY <2>4, <2>5, MinIs
    <3> QED  BY <2>2, <2>3, <3>1
  <2>7. shares' \in 0 .. full
    <3>1. shares' = IF Refilled < Second THEN Refilled ELSE Refilled - Second
      BY <1>6 DEF Check
    <3> QED  BY <1>2, <2>2, <2>6, <3>1
  <2>8. lastRefill' \in 0 .. limitTime' /\ admitted' \in Seq(Nat)
    BY <1>1, <1>3, <1>6 DEF Check
  <2> QED  BY <1>1, <1>6, <2>7, <2>8 DEF Check, LimitTypeOK, full
<1>7. CASE LimitPass
  BY <1>1, <1>7 DEF LimitPass, LimitTypeOK
<1>8. CASE UNCHANGED limitVars
  BY <1>8 DEF limitVars, LimitTypeOK
<1> QED  BY <1>4, <1>5, <1>6, <1>7, <1>8 DEF LimitNext

(* The limiters keep the types of their state (index.js, gameSocket.js): a bucket is never   *)
(* below nothing nor above its burst.                                                  *)
THEOREM LimitTypesHold == LimitSpec => []LimitTypeOK
BY LimitTypesStart, LimitTypesStep, PTL DEF LimitSpec

-----------------------------------------------------------------------------
(* A behaviour of Services is one of every part: the part it is of takes its steps and   *)
(* the others stutter (Services: ServicesSpec).                                     *)
THEOREM ServicesPlayTheirParts == ServicesSpec =>
    /\ AccountsSpec
    /\ LimitSpec
    /\ SenderSpec
    /\ RosterSpec
    /\ CliSpec
<1>1. ServicesInit => AccountsInit  BY DEF ServicesInit
<1>2. [ServicesNext]_servicesVars => [AccountsNext]_accountVars  BY DEF ServicesNext, servicesVars
<1>3. ServicesInit => LimitInit  BY DEF ServicesInit
<1>4. [ServicesNext]_servicesVars => [LimitNext]_limitVars  BY DEF ServicesNext, servicesVars
<1>5. ServicesInit => SenderInit  BY DEF ServicesInit
<1>6. [ServicesNext]_servicesVars => [SenderNext]_senderVars  BY DEF ServicesNext, servicesVars
<1>7. ServicesInit => RosterInit  BY DEF ServicesInit
<1>8. [ServicesNext]_servicesVars => [RosterNext]_rosterVars  BY DEF ServicesNext, servicesVars
<1>9. ServicesInit => CliInit  BY DEF ServicesInit
<1>10. [ServicesNext]_servicesVars => [CliNext]_cliVars  BY DEF ServicesNext, servicesVars
<1> QED
  BY <1>1, <1>2, <1>3, <1>4, <1>5, <1>6, <1>7, <1>8, <1>9, <1>10, PTL
  DEF ServicesSpec, AccountsSpec, LimitSpec, SenderSpec, RosterSpec, CliSpec

(* ServicesTypeOK: every variable around a round keeps its type, whichever part moves.    *)
THEOREM ServicesTyped == ServicesSpec => []ServicesTypeOK
<1>1. AccountsTypeOK /\ LimitTypeOK /\ SenderTypeOK /\ RosterTypeOK /\ CliTypeOK => ServicesTypeOK
  BY DEF ServicesTypeOK
<1> QED
  BY <1>1, ServicesPlayTheirParts, AccountsTypeCorrect, LimitTypesHold, SenderTypeCorrect, RosterTyped, CliTypesHold, PTL
=============================================================================
