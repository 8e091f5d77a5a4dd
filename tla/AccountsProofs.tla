----------------------------- MODULE AccountsProofs -----------------------------
(***************************************************************************)
(* What holds of every sign-in and of every submitted score, for any addresses,     *)
(* requests in flight, ages and bounds, and any number of faults: a signature opens   *)
(* one session, and a round takes one score.                                       *)
(***************************************************************************)
EXTENDS Accounts, FiniteSetTheorems, TLAPS

(* A nonce that was accepted is in the store no more, and none is drawn twice. *)
NoncesAreSpent ==
    /\ IsFiniteSet(verified) /\ accepted = Cardinality(verified)
    /\ \A a \in Addresses : nonceStore[a].nonce <= nonces
    /\ \A sig \in signed : sig.nonce <= nonces
    /\ \A v \in verified : v.nonce # 0 /\ v.nonce # nonceStore[v.by].nonce
    /\ \A s \in sessions : \E v \in verified : v.by = s.sub

(* What a /score request found out about its row is so for good. *)
ScoringFits(q) ==
    /\ q.row \in RowIds /\ q.from \in Addresses
    /\ rounds[q.row].issuedTo = q.from /\ rounds[q.row].mode = "sandbox-classic-solo"
    /\ rounds[q.row].status # "none"

(* Past the UPDATE a request has its row to itself, and has done to it what its place *)
(* in the handler says.                                                          *)
Won(q) == q.pc \in {"insert", "stats"}
WinnerFits(q) ==
    /\ rounds[q.row].status = "completed" /\ answered[q.row] = 0
    /\ results[q.row] = IF q.pc = "insert" THEN {} ELSE {q.from}

OneWinner ==
    /\ \A c \in Calls : call[c].pc = "close" \/ Won(call[c]) => ScoringFits(call[c])
    /\ \A c \in Calls : Won(call[c]) => WinnerFits(call[c])
    /\ \A c, d \in Calls : Won(call[c]) /\ Won(call[d]) /\ call[c].row = call[d].row => c = d

OpenIsBlank == \A i \in RowIds : rounds[i].status # "completed" => results[i] = {} /\ answered[i] = 0

AInv == AccountsTypeOK /\ NoncesAreSpent /\ OneWinner /\ OpenIsBlank /\ OneScorePerRound

-----------------------------------------------------------------------------
(* Nobody has signed, nothing is issued: the invariant holds of a start. *)
LEMMA AccountsInitFits == ASSUME AccountsInit PROVE AInv
<1> USE DEF AccountsInit, IdleCall, Empty
<1>1. AccountsTypeOK
  BY AccountsAssumption DEF AccountsTypeOK, RoundRow, SoloModes, RowIds
<1>2. NoncesAreSpent  BY FS_EmptySet DEF NoncesAreSpent
<1>3. OneWinner /\ OpenIsBlank /\ OneScorePerRound  BY DEF OneWinner, Won, OpenIsBlank, OneScorePerRound
<1> QED  BY <1>1, <1>2, <1>3 DEF AInv

(* Sign-in. *)
LEMMA SweptFits ==
    ASSUME AccountsTypeOK, NoncesAreSpent
    PROVE  /\ Swept \in [Addresses -> [nonce : Nat, createdAt : Nat]]
           /\ \A a \in Addresses : Swept[a].nonce \in {0, nonceStore[a].nonce}
BY DEF Swept, Empty, AccountsTypeOK

(* A challenge is answered with a nonce above all before it, so no accepted signature  *)
(* holds it.                                                                     *)
LEMMA IssueFits ==
    ASSUME AccountsTypeOK, NoncesAreSpent, NEW a \in Addresses, IssueChallenge(a)
    PROVE  AccountsTypeOK' /\ NoncesAreSpent'
<1>1. UNCHANGED <<hour, signed, sessions, verified, accepted, rounds, results, stats, solo, keys, call, answered, dbBudget>>
  BY DEF IssueChallenge, dbVars, memoVars
<1>2. hour \in Nat /\ nonces \in Nat  BY DEF AccountsTypeOK
<1>3. \A v \in verified : v.by \in Addresses /\ v.nonce \in Nat /\ v.nonce <= nonces
  BY DEF AccountsTypeOK, NoncesAreSpent
<1>4. /\ nonces' \in Nat /\ nonces <= nonces'
      /\ nonceStore' \in [Addresses -> [nonce : Nat, createdAt : Nat]]
      /\ \A b \in Addresses : \/ nonceStore'[b].nonce \in {0, nonceStore[b].nonce}
                              \/ nonceStore'[b].nonce = nonces' /\ nonces' = nonces + 1
  <2>1. CASE nonces' = nonces + 1 /\ nonceStore' = [Swept EXCEPT ![a] = [nonce |-> nonces', createdAt |-> hour]]
    <3> DEFINE e == [nonce |-> nonces', createdAt |-> hour]
    <3>1. e \in [nonce : Nat, createdAt : Nat] /\ e.nonce = nonces'  BY <1>2, <2>1
    <3> HIDE DEF e
    <3>2. \A b \in Addresses : nonceStore'[b] = IF b = a THEN e ELSE Swept[b]  BY <2>1, SweptFits DEF e
    <3>3. nonceStore' \in [Addresses -> [nonce : Nat, createdAt : Nat]]  BY <2>1, <3>1, SweptFits DEF e
    <3> QED  BY <1>2, <2>1, <3>1, <3>2, <3>3, SweptFits
  <2>2. CASE nonceStore' = Swept /\ UNCHANGED nonces  BY <1>2, <2>2, SweptFits
  <2> QED  BY <2>1, <2>2 DEF IssueChallenge
<1>5. AccountsTypeOK'  BY <1>1, <1>4 DEF AccountsTypeOK
<1>6. NoncesAreSpent'
  <2>1. \A b \in Addresses : nonceStore'[b].nonce <= nonces'
    BY <1>2, <1>4 DEF NoncesAreSpent, AccountsTypeOK
  <2>2. \A sig \in signed : sig.nonce <= nonces'  BY <1>2, <1>4 DEF NoncesAreSpent, AccountsTypeOK
  <2>3. \A v \in verified : v.nonce # 0 /\ v.nonce # nonceStore'[v.by].nonce
    BY <1>2, <1>3, <1>4 DEF NoncesAreSpent
  <2> QED  BY <1>1, <2>1, <2>2, <2>3 DEF NoncesAreSpent
<1> QED  BY <1>5, <1>6

(* A signature is of the nonce that stands now. *)
LEMMA SignFits ==
    ASSUME AccountsTypeOK, NoncesAreSpent, NEW a \in Addresses, Sign(a)
    PROVE  AccountsTypeOK' /\ NoncesAreSpent'
<1>1. UNCHANGED <<hour, nonces, nonceStore, sessions, verified, accepted, rounds, results, stats, solo, keys, call,
                  answered, dbBudget>>
  BY DEF Sign, dbVars, memoVars
<1> DEFINE sig == [by |-> a, nonce |-> nonceStore[a].nonce]
<1>2. signed' = signed \cup {sig} /\ sig \in [by : Addresses, nonce : Nat] /\ sig.nonce <= nonces
  BY DEF Sign, AccountsTypeOK, NoncesAreSpent
<1> HIDE DEF sig
<1>3. AccountsTypeOK'  BY <1>1, <1>2 DEF AccountsTypeOK
<1> QED  BY <1>1, <1>2, <1>3 DEF NoncesAreSpent

(* What is accepted was in the store, so it is new among what was; and then it is gone. *)
LEMMA VerifyFits ==
    ASSUME AccountsTypeOK, NoncesAreSpent, NEW a \in Addresses, NEW sig \in signed, VerifyChallenge(a, sig)
    PROVE  AccountsTypeOK' /\ NoncesAreSpent'
<1>1. UNCHANGED <<hour, nonces, signed, rounds, results, stats, solo, keys, call, answered, dbBudget>>
  BY DEF VerifyChallenge, dbVars, memoVars
<1>2. /\ nonceStore \in [Addresses -> [nonce : Nat, createdAt : Nat]] /\ nonceStore[a].nonce # 0
      /\ nonceStore' = [nonceStore EXCEPT ![a] = Empty]
      /\ Empty \in [nonce : Nat, createdAt : Nat] /\ Empty.nonce = 0
      /\ verified \subseteq [by : Addresses, nonce : Nat]
  BY DEF VerifyChallenge, Consume, Empty, AccountsTypeOK
<1>3. \A b \in Addresses : nonceStore'[b].nonce = IF b = a THEN 0 ELSE nonceStore[b].nonce  BY <1>2
<1>4. \A b \in Addresses : nonceStore'[b].nonce <= nonces
  BY <1>3 DEF NoncesAreSpent, AccountsTypeOK
<1>5. CASE Matches(a, sig)
  <2>1. /\ sig.by = a /\ sig.nonce = nonceStore[a].nonce /\ sig \notin verified
    BY <1>5 DEF Matches, NoncesAreSpent
  <2>2. /\ verified' = verified \cup {sig} /\ accepted' = accepted + 1
        /\ sessions' = sessions \cup {Session(a)}
    BY <1>5 DEF VerifyChallenge
  <2>3. Session(a) \in [sub : Addresses, exp : Nat] /\ Session(a).sub = a
    BY AccountsAssumption DEF Session, AccountsTypeOK
  <2>4. IsFiniteSet(verified') /\ accepted' = Cardinality(verified')
    BY <2>1, <2>2, FS_AddElement DEF NoncesAreSpent
  <2>5. \A v \in verified' : v.nonce # 0 /\ v.nonce # nonceStore'[v.by].nonce
    BY <1>2, <1>3, <2>1, <2>2 DEF NoncesAreSpent
  <2>6. \A s \in sessions' : \E v \in verified' : v.by = s.sub
    BY <2>1, <2>2, <2>3 DEF NoncesAreSpent
  <2>7. AccountsTypeOK'  BY <1>1, <1>2, <2>2, <2>3 DEF AccountsTypeOK
  <2> QED  BY <1>1, <1>4, <2>4, <2>5, <2>6, <2>7 DEF NoncesAreSpent
<1>6. CASE ~Matches(a, sig)
  <2>1. UNCHANGED <<verified, accepted, sessions>>  BY <1>6 DEF VerifyChallenge
  <2>2. AccountsTypeOK'  BY <1>1, <1>2, <2>1 DEF AccountsTypeOK
  <2>3. \A v \in verified : v.nonce # 0 /\ v.nonce # nonceStore'[v.by].nonce
    BY <1>2, <1>3 DEF NoncesAreSpent
  <2> QED  BY <1>1, <1>4, <2>1, <2>2, <2>3 DEF NoncesAreSpent
<1> QED  BY <1>5, <1>6

(* Sign-in touches no round and no request. *)
LEMMA AuthKeeps == ASSUME AInv, AuthNext PROVE AInv'
<1>1. AccountsTypeOK' /\ NoncesAreSpent'  BY IssueFits, SignFits, VerifyFits DEF AuthNext, AInv
<1>2. UNCHANGED <<rounds, results, stats, call, answered>>
  BY DEF AuthNext, IssueChallenge, Sign, VerifyChallenge, dbVars
<1> QED
  BY <1>1, <1>2 DEF AInv, OneWinner, Won, ScoringFits, WinnerFits, OpenIsBlank, OneScorePerRound
-----------------------------------------------------------------------------
(* The requests.  What a step leaves alone of sign-in stays true. *)
LEMMA AuthStays == ASSUME NoncesAreSpent, UNCHANGED authVars PROVE NoncesAreSpent'
BY DEF NoncesAreSpent, authVars

(* A step of a request that writes no row and leaves it with none to score. *)
LEMMA RowlessStep ==
    ASSUME AInv, AccountsTypeOK', NoncesAreSpent', NEW c \in Calls,
           \A d \in Calls : d # c => call'[d] = call[d],
           ~Won(call'[c]), call'[c].pc = "close" => ScoringFits(call'[c]),
           UNCHANGED <<rounds, results, answered, stats>>
    PROVE  AInv'
<1>1. OneWinner'
  BY DEF AInv, OneWinner, Won, ScoringFits, WinnerFits
<1>2. OpenIsBlank' /\ OneScorePerRound'  BY DEF AInv, OpenIsBlank, OneScorePerRound
<1> QED  BY <1>1, <1>2 DEF AInv

(* Rows are born where there were none, and no request has such a row. *)
LEMMA BirthStep ==
    ASSUME AInv, AccountsTypeOK', NoncesAreSpent', NEW c \in Calls,
           \A d \in Calls : d # c => call'[d] = call[d],
           ~Won(call'[c]), call'[c].pc # "close",
           \A i \in RowIds : rounds'[i] = rounds[i] \/ (rounds[i].status = "none" /\ rounds'[i].status = "active"),
           UNCHANGED <<results, answered, stats>>
    PROVE  AInv'
<1>1. \A d \in Calls : call[d].pc = "close" \/ Won(call[d]) => rounds'[call[d].row] = rounds[call[d].row]
  BY DEF AInv, OneWinner, ScoringFits
<1>2. OneWinner'
  BY <1>1 DEF AInv, OneWinner, Won, ScoringFits, WinnerFits
<1>3. OpenIsBlank' /\ OneScorePerRound'  BY DEF AInv, OpenIsBlank, OneScorePerRound
<1> QED  BY <1>2, <1>3 DEF AInv

(* A step of a /score request on its row, by what it does to the row.  Whoever else    *)
(* has the row is before the UPDATE, unless this request lost it.                   *)
LEMMA ScoreStep ==
    ASSUME AInv, AccountsTypeOK', NoncesAreSpent', NEW c \in Calls, NEW i \in RowIds,
           call[c].pc = "close" \/ Won(call[c]), call[c].row = i,
           \A d \in Calls : d # c => call'[d] = call[d],
           \A j \in RowIds : j # i => UNCHANGED <<rounds[j], results[j], answered[j]>>,
           UNCHANGED <<rounds[i].issuedTo, rounds[i].mode>>, rounds'[i].status = "completed",
           \A a \in Addresses : stats'[a] >= stats[a],
           \/ Won(call[c]) \/ rounds[i].status # "completed"
           \/ UNCHANGED <<results[i], answered[i]>> /\ ~Won(call'[c]),
           call'[c].pc # "close",
           Won(call'[c]) => /\ call'[c].row = i /\ call'[c].from = call[c].from
                            /\ answered'[i] = 0
                            /\ results'[i] = IF call'[c].pc = "insert" THEN {} ELSE {call[c].from},
           results'[i] \subseteq {call[c].from}, answered'[i] <= 1,
           answered'[i] = 1 => results'[i] = {call[c].from} /\ stats'[call[c].from] > 0
    PROVE  AInv'
<1> USE DEF AInv
<1>1. ScoringFits(call[c]) /\ rounds[i].issuedTo = call[c].from /\ rounds'[i].issuedTo = call[c].from
      /\ rounds[i].mode = "sandbox-classic-solo" /\ rounds'[i].mode = "sandbox-classic-solo"
      /\ call[c].from \in Addresses
  BY DEF OneWinner, ScoringFits
<1>2. ASSUME NEW d \in Calls, d # c, Won(call[d]), call[d].row = i
      PROVE  UNCHANGED <<results[i], answered[i]>> /\ ~Won(call'[c])
  BY <1>2 DEF OneWinner, WinnerFits
<1>3. ASSUME NEW d \in Calls, d # c
      PROVE  /\ call'[d] = call[d]
             /\ call[d].pc = "close" \/ Won(call[d]) => ScoringFits(call[d])'
             /\ Won(call[d]) => WinnerFits(call[d])'
  <2>1. call'[d] = call[d]  BY <1>3
  <2>2. CASE call[d].row = i
    BY <1>1, <1>2, <1>3, <2>1, <2>2 DEF OneWinner, ScoringFits, WinnerFits
  <2>3. CASE call[d].row # i
    BY <1>3, <2>1, <2>3 DEF OneWinner, ScoringFits, WinnerFits
  <2> QED  BY <2>1, <2>2, <2>3
<1>4. Won(call'[c]) => ScoringFits(call[c])' /\ WinnerFits(call[c])'
  BY <1>1 DEF ScoringFits, WinnerFits
<1>5. OneWinner'
  <2>1. \A d \in Calls : call'[d].pc = "close" \/ Won(call'[d]) => ScoringFits(call[d])'
    BY <1>3, <1>4
  <2>2. \A d \in Calls : Won(call'[d]) => WinnerFits(call[d])'  BY <1>3, <1>4
  <2>3. \A d, e \in Calls : Won(call'[d]) /\ Won(call'[e]) /\ call'[d].row = call'[e].row => d = e
    BY <1>2, <1>3 DEF OneWinner
  <2> QED  BY <2>1, <2>2, <2>3 DEF OneWinner, Won
<1>6. OpenIsBlank'  BY DEF OpenIsBlank
<1>7. OneScorePerRound'
  <2>1. ASSUME NEW j \in RowIds
        PROVE  /\ answered'[j] <= 1
               /\ answered'[j] = 1 => results'[j] = {rounds'[j].issuedTo} /\ stats'[rounds'[j].issuedTo] > 0
               /\ results'[j] # {} => /\ results'[j] = {rounds'[j].issuedTo}
                                      /\ rounds'[j].status = "completed"
                                      /\ rounds'[j].mode = "sandbox-classic-solo"
    <3>1. CASE j = i  BY <1>1, <3>1
    <3>2. CASE j # i
      <4>1. UNCHANGED <<rounds[j], results[j], answered[j]>>  BY <3>2
      <4>2. answered[j] = 1 => stats'[rounds[j].issuedTo] > 0
        <5>1. ASSUME answered[j] = 1 PROVE rounds[j].issuedTo \in Addresses
          BY <5>1 DEF OneScorePerRound, AccountsTypeOK
        <5> QED  BY <5>1 DEF OneScorePerRound, AccountsTypeOK
      <4> QED  BY <4>1, <4>2 DEF OneScorePerRound
    <3> QED  BY <3>1, <3>2
  <2> QED  BY <2>1 DEF OneScorePerRound
<1> QED  BY <1>5, <1>6, <1>7

CallType ==
    [pc : {"idle", "issue", "register", "close", "insert", "stats"},
     from : Addresses \cup {Guest}, mode : SoloModes, row : 0 .. MaxRows]

(* The type of one request. *)
LEMMA CallsAreTyped ==
    ASSUME AccountsTypeOK, NEW c \in Calls
    PROVE  /\ call[c] \in CallType /\ call \in [Calls -> CallType]
           /\ IdleCall \in CallType /\ IdleCall.pc = "idle" /\ MaxRows \in Nat
BY AccountsAssumption DEF AccountsTypeOK, CallType, IdleCall, SoloModes

(* The type of everything, after a step of one request. *)
LEMMA CallTypes ==
    ASSUME AccountsTypeOK, NEW c \in Calls, NEW q \in CallType, call' = [call EXCEPT ![c] = q],
           UNCHANGED <<hour, authVars>>, solo' \subseteq [key : Nat, touched : Nat], keys' \in Nat,
           rounds' \in [RowIds -> RoundRow], results' \in [RowIds -> SUBSET Addresses],
           stats' \in [Addresses -> Nat], answered' \in [RowIds -> Nat], dbBudget' \in Nat
    PROVE  AccountsTypeOK'
BY DEF AccountsTypeOK, authVars, CallType

(* Goto and Answer. *)
LEMMA CallMoves ==
    ASSUME AccountsTypeOK, NEW c \in Calls, NEW pc \in {"idle", "issue", "register", "close", "insert", "stats"}
    PROVE  /\ Goto(c, pc) => \E q \in CallType : /\ call' = [call EXCEPT ![c] = q] /\ call'[c] = q
                                                 /\ q.pc = pc /\ q.row = call[c].row /\ q.from = call[c].from
                                                 /\ \A d \in Calls : d # c => call'[d] = call[d]
           /\ Answer(c) => /\ call' = [call EXCEPT ![c] = IdleCall] /\ call'[c] = IdleCall
                           /\ \A d \in Calls : d # c => call'[d] = call[d]
<1>1. call[c] \in CallType /\ call \in [Calls -> CallType]  BY CallsAreTyped
<1>2. Goto(c, pc) => call' = [call EXCEPT ![c] = [call[c] EXCEPT !.pc = pc]]  BY <1>1 DEF Goto
<1>3. [call[c] EXCEPT !.pc = pc] \in CallType  BY <1>1 DEF CallType
<1>4. /\ [call[c] EXCEPT !.pc = pc].pc = pc /\ [call[c] EXCEPT !.pc = pc].row = call[c].row
      /\ [call[c] EXCEPT !.pc = pc].from = call[c].from
  BY <1>1 DEF CallType
<1> QED  BY <1>1, <1>2, <1>3, <1>4 DEF Answer

(* The steps of /round/start, and the SELECT of /score. *)
LEMMA StartKeeps ==
    ASSUME AInv, NEW c \in Calls, NEW from \in Speakers, NEW mode \in {"sandbox-classic-solo", "sandbox-lbs-solo"},
           StartRound(c, from, mode)
    PROVE  AInv'
<1> DEFINE q == [pc |-> IF from = Guest THEN "register" ELSE "issue", from |-> from, mode |-> mode, row |-> 0]
<1>1. from \in Addresses \cup {Guest}  BY DEF Speakers, AInv, AccountsTypeOK
<1>2. q \in CallType /\ ~Won(q) /\ q.pc # "close"
  BY <1>1, AccountsAssumption DEF CallType, SoloModes, Won
<1>3. call' = [call EXCEPT ![c] = q] /\ UNCHANGED <<hour, authVars, dbVars, memoVars, answered, dbBudget>>
  BY DEF StartRound
<1> HIDE DEF q
<1>4. AccountsTypeOK  BY DEF AInv
<1>5. call'[c] = q /\ \A d \in Calls : d # c => call'[d] = call[d]  BY <1>3, <1>4, CallsAreTyped
<1>6. AccountsTypeOK'  BY <1>2, <1>3, <1>4, CallTypes DEF AccountsTypeOK, dbVars, memoVars
<1>7. NoncesAreSpent'  BY <1>3, AuthStays DEF AInv
<1> QED  BY <1>2, <1>3, <1>5, <1>6, <1>7, RowlessStep DEF dbVars

(* A /score request begins, with its row read and checked. *)
LEMMA SubmitKeeps ==
    ASSUME AInv, NEW c \in Calls, NEW from \in Speakers, NEW i \in RowIds, SubmitScore(c, from, i)
    PROVE  AInv'
<1> DEFINE q == [pc |-> "close", from |-> from, mode |-> "none", row |-> i]
<1>1. from \in Addresses  BY DEF Speakers, AInv, AccountsTypeOK, SubmitScore
<1>2. q \in CallType /\ q.pc = "close" /\ ~Won(q) /\ q.row = i /\ q.from = from
  BY <1>1, AccountsAssumption DEF CallType, SoloModes, Won, RowIds
<1>3. call' = [call EXCEPT ![c] = q] /\ UNCHANGED <<hour, authVars, dbVars, memoVars, answered, dbBudget>>
  BY DEF SubmitScore
<1> HIDE DEF q
<1>4. AccountsTypeOK  BY DEF AInv
<1>5. call'[c] = q /\ \A d \in Calls : d # c => call'[d] = call[d]  BY <1>3, <1>4, CallsAreTyped
<1>6. AccountsTypeOK'  BY <1>2, <1>3, <1>4, CallTypes DEF AccountsTypeOK, dbVars, memoVars
<1>7. NoncesAreSpent'  BY <1>3, AuthStays DEF AInv
<1>8. ScoringFits(q)  BY <1>1, <1>2 DEF ScoringFits, SubmitScore, Scorable
<1> QED  BY <1>2, <1>3, <1>5, <1>6, <1>7, <1>8, RowlessStep DEF dbVars, ScoringFits

(* A round is kept in memory if there is room for it, and answered anyway. *)
LEMMA RegisterKeeps ==
    ASSUME AInv, NEW c \in Calls, RegisterSoloRound(c)
    PROVE  AInv'
<1>1. AccountsTypeOK  BY DEF AInv
<1>2. UNCHANGED <<hour, authVars, dbVars, answered, dbBudget>> /\ Answer(c)  BY DEF RegisterSoloRound
<1>3. keys' \in Nat /\ solo' \subseteq [key : Nat, touched : Nat]
  BY <1>1 DEF RegisterSoloRound, LiveRounds, AccountsTypeOK
<1>4. /\ call' = [call EXCEPT ![c] = IdleCall] /\ call'[c] = IdleCall /\ IdleCall \in CallType /\ IdleCall.pc = "idle"
      /\ \A d \in Calls : d # c => call'[d] = call[d]
  BY <1>1, <1>2, CallMoves, CallsAreTyped
<1>5. AccountsTypeOK'  BY <1>1, <1>2, <1>3, <1>4, CallTypes DEF AccountsTypeOK, dbVars
<1>6. NoncesAreSpent'  BY <1>2, AuthStays DEF AInv
<1> QED  BY <1>2, <1>4, <1>5, <1>6, RowlessStep DEF dbVars, Won

(* The INSERT of a row: also when it was applied twice. *)
LEMMA IssueRowKeeps ==
    ASSUME AInv, NEW c \in Calls, Goto(c, "register"), dbBudget' \in Nat, call[c].pc = "issue",
           rounds' \in [RowIds -> RoundRow],
           \A i \in RowIds : rounds'[i] = rounds[i] \/ (rounds[i].status = "none" /\ rounds'[i].status = "active"),
           UNCHANGED <<hour, authVars, memoVars, results, stats, answered>>
    PROVE  AInv'
<1>1. AccountsTypeOK  BY DEF AInv
<1>2. PICK q \in CallType : /\ call' = [call EXCEPT ![c] = q] /\ call'[c] = q /\ q.pc = "register"
                            /\ \A d \in Calls : d # c => call'[d] = call[d]
  BY <1>1, CallMoves
<1>3. AccountsTypeOK'  BY <1>1, <1>2, CallTypes DEF AccountsTypeOK, memoVars
<1>4. NoncesAreSpent'  BY AuthStays DEF AInv
<1> QED  BY <1>2, <1>3, <1>4, BirthStep DEF Won

(* What a request inserts is a row of the database, open. *)
LEMMA RowOfIsARow ==
    ASSUME AccountsTypeOK, NEW c \in Calls
    PROVE  RowOf(c) \in RoundRow /\ RowOf(c).status = "active"
BY CallsAreTyped DEF RowOf, RoundRow, CallType

(* A fresh row has neither score nor result. *)
LEMMA IssueRoundKeeps ==
    ASSUME AInv, NEW c \in Calls, IssueRound(c)
    PROVE  AInv'
<1>1. AccountsTypeOK  BY DEF AInv
<1>2. PICK i \in RowIds : Fresh(i) /\ rounds' = [rounds EXCEPT ![i] = RowOf(c)]  BY DEF IssueRound
<1>3. /\ rounds' \in [RowIds -> RoundRow]
      /\ \A j \in RowIds : rounds'[j] = rounds[j] \/ (rounds[j].status = "none" /\ rounds'[j].status = "active")
  BY <1>1, <1>2, RowOfIsARow DEF Fresh, AccountsTypeOK
<1> QED  BY <1>1, <1>3, IssueRowKeeps DEF IssueRound, AccountsTypeOK
-----------------------------------------------------------------------------
(* A /score request, from its UPDATE on. *)
LEMMA OfTheRow ==
    ASSUME AInv, NEW c \in Calls, call[c].pc = "close" \/ Won(call[c])
    PROVE  /\ call[c].row \in RowIds /\ call[c].from \in Addresses
           /\ rounds \in [RowIds -> RoundRow] /\ results \in [RowIds -> SUBSET Addresses]
           /\ stats \in [Addresses -> Nat] /\ answered \in [RowIds -> Nat]
           /\ rounds[call[c].row].status # "none"
           /\ Won(call[c]) => WinnerFits(call[c])
           /\ results[call[c].row] \subseteq {call[c].from} /\ answered[call[c].row] \in {0, 1}
           /\ answered[call[c].row] = 1 => results[call[c].row] = {call[c].from} /\ stats[call[c].from] > 0
<1>1. ScoringFits(call[c]) /\ (Won(call[c]) => WinnerFits(call[c]))  BY DEF AInv, OneWinner
<1> QED  BY <1>1 DEF AInv, ScoringFits, AccountsTypeOK, OneScorePerRound

(* The row is completed, by whichever request. *)
LEMMA Completes ==
    ASSUME AInv, NEW i \in RowIds
    PROVE  /\ [rounds EXCEPT ![i].status = "completed"] \in [RowIds -> RoundRow]
           /\ \A j \in RowIds : j # i => [rounds EXCEPT ![i].status = "completed"][j] = rounds[j]
           /\ LET r == [rounds EXCEPT ![i].status = "completed"][i] IN
              r.status = "completed" /\ r.issuedTo = rounds[i].issuedTo /\ r.mode = rounds[i].mode
<1>1. rounds \in [RowIds -> RoundRow] /\ rounds[i] \in RoundRow  BY DEF AInv, AccountsTypeOK
<1>2. /\ [rounds[i] EXCEPT !.status = "completed"] \in RoundRow
      /\ [rounds[i] EXCEPT !.status = "completed"].status = "completed"
      /\ [rounds[i] EXCEPT !.status = "completed"].issuedTo = rounds[i].issuedTo
      /\ [rounds[i] EXCEPT !.status = "completed"].mode = rounds[i].mode
  BY <1>1 DEF RoundRow
<1> QED  BY <1>1, <1>2

(* The UPDATE: whoever finds the row open has it to itself from then on. *)
LEMMA CloseKeeps ==
    ASSUME AInv, NEW c \in Calls, call[c].pc = "close", rounds' = [rounds EXCEPT ![call[c].row].status = "completed"],
           dbBudget' \in Nat,
           (Closable(call[c].row) /\ Goto(c, "insert")) \/ Answer(c),
           UNCHANGED <<hour, authVars, memoVars, results, stats, answered>>
    PROVE  AInv'
<1> DEFINE i == call[c].row
<1>1. AccountsTypeOK  BY DEF AInv
<1>2. /\ i \in RowIds /\ rounds[i].status # "none"
      /\ results[i] \subseteq {call[c].from} /\ answered[i] \in {0, 1}
      /\ answered[i] = 1 => results[i] = {call[c].from} /\ stats[call[c].from] > 0
  BY OfTheRow
<1>3. /\ rounds' \in [RowIds -> RoundRow]
      /\ \A j \in RowIds : j # i => rounds'[j] = rounds[j]
      /\ rounds'[i].status = "completed"
      /\ rounds'[i].issuedTo = rounds[i].issuedTo /\ rounds'[i].mode = rounds[i].mode
  BY <1>2, Completes
<1>4. PICK q \in CallType : /\ call' = [call EXCEPT ![c] = q] /\ call'[c] = q
                            /\ q.pc = "insert" \/ q.pc = "idle"
                            /\ q.pc = "insert" => Closable(i) /\ q.row = i /\ q.from = call[c].from
                            /\ \A d \in Calls : d # c => call'[d] = call[d]
  BY <1>1, CallMoves, CallsAreTyped
<1>5. AccountsTypeOK'  BY <1>1, <1>3, <1>4, CallTypes DEF AccountsTypeOK, memoVars
<1>6. NoncesAreSpent'  BY AuthStays DEF AInv
<1>7. Closable(i) => rounds[i].status # "completed" /\ results[i] = {} /\ answered[i] = 0
  BY <1>2 DEF Closable, AInv, OpenIsBlank
<1>8. Won(q) <=> q.pc = "insert"  BY <1>4 DEF Won
<1>9. \A a \in Addresses : stats'[a] >= stats[a]  BY <1>1 DEF AccountsTypeOK
<1>10. Won(q) => /\ q.row = i /\ q.from = call[c].from /\ rounds[i].status # "completed"
                  /\ answered'[i] = 0 /\ results'[i] = IF q.pc = "insert" THEN {} ELSE {call[c].from}
  BY <1>4, <1>7, <1>8
<1>11. /\ results'[i] \subseteq {call[c].from} /\ answered'[i] <= 1
       /\ answered'[i] = 1 => results'[i] = {call[c].from} /\ stats'[call[c].from] > 0
  BY <1>2
<1>12. \A j \in RowIds : j # i => rounds'[j] = rounds[j] /\ results'[j] = results[j] /\ answered'[j] = answered[j]
  BY <1>3
<1>13. q.pc # "close"  BY <1>4
<1> HIDE DEF i
<1> QED  BY <1>2, <1>3, <1>4, <1>5, <1>6, <1>9, <1>10, <1>11, <1>12, <1>13, ScoreStep DEF i

(* The result goes in once, by the request that closed the row. *)
LEMMA InsertKeeps ==
    ASSUME AInv, NEW c \in Calls, call[c].pc = "insert", dbBudget' \in Nat,
           results' = [results EXCEPT ![call[c].row] = @ \cup {call[c].from}],
           Goto(c, "stats") \/ Answer(c),
           UNCHANGED <<hour, authVars, memoVars, rounds, stats, answered>>
    PROVE  AInv'
<1> DEFINE i == call[c].row
<1>1. AccountsTypeOK /\ Won(call[c])  BY DEF AInv, Won
<1>2. /\ i \in RowIds /\ call[c].from \in Addresses /\ results \in [RowIds -> SUBSET Addresses]
      /\ rounds[i].status = "completed" /\ results[i] = {} /\ answered[i] = 0
  BY <1>1, OfTheRow DEF WinnerFits
<1>3. /\ results' \in [RowIds -> SUBSET Addresses] /\ results'[i] = {call[c].from}
      /\ \A j \in RowIds : j # i => results'[j] = results[j]
  BY <1>2
<1>4. PICK q \in CallType : /\ call' = [call EXCEPT ![c] = q] /\ call'[c] = q
                            /\ q.pc = "stats" \/ q.pc = "idle"
                            /\ q.pc = "stats" => q.row = i /\ q.from = call[c].from
                            /\ \A d \in Calls : d # c => call'[d] = call[d]
  BY <1>1, CallMoves, CallsAreTyped
<1>5. AccountsTypeOK'  BY <1>1, <1>3, <1>4, CallTypes DEF AccountsTypeOK, memoVars
<1>6. NoncesAreSpent'  BY AuthStays DEF AInv
<1>7. Won(q) <=> q.pc = "stats"  BY <1>4 DEF Won
<1>8. \A a \in Addresses : stats'[a] >= stats[a]  BY <1>1 DEF AccountsTypeOK
<1> QED  BY <1>1, <1>2, <1>3, <1>4, <1>5, <1>6, <1>7, <1>8, ScoreStep

(* The statistics and the answer; the row has its score. *)
LEMMA StatsKeep ==
    ASSUME AInv, NEW c \in Calls, call[c].pc = "stats", NEW n \in {1, 2}, dbBudget' \in Nat,
           stats' = [stats EXCEPT ![call[c].from] = @ + n],
           answered' = [answered EXCEPT ![call[c].row] = @ + 1],
           Answer(c),
           UNCHANGED <<hour, authVars, memoVars, rounds, results>>
    PROVE  AInv'
<1> DEFINE i == call[c].row
           p == call[c].from
<1>1. AccountsTypeOK /\ Won(call[c])  BY DEF AInv, Won
<1>2. /\ i \in RowIds /\ p \in Addresses
      /\ stats \in [Addresses -> Nat] /\ answered \in [RowIds -> Nat]
      /\ rounds[i].status = "completed" /\ results[i] = {p} /\ answered[i] = 0
  BY <1>1, OfTheRow DEF WinnerFits
<1>3. /\ stats' \in [Addresses -> Nat] /\ answered' \in [RowIds -> Nat]
      /\ answered'[i] = 1 /\ stats'[p] > 0
      /\ \A j \in RowIds : j # i => answered'[j] = answered[j]
      /\ \A a \in Addresses : stats'[a] >= stats[a]
  BY <1>2
<1>4. /\ call' = [call EXCEPT ![c] = IdleCall] /\ call'[c] = IdleCall /\ IdleCall \in CallType
      /\ ~Won(IdleCall) /\ IdleCall.pc # "close"
      /\ \A d \in Calls : d # c => call'[d] = call[d]
  BY <1>1, CallMoves, CallsAreTyped DEF Won
<1>5. AccountsTypeOK'  BY <1>1, <1>3, <1>4, CallTypes DEF AccountsTypeOK, memoVars
<1>6. NoncesAreSpent'  BY AuthStays DEF AInv
<1> QED  BY <1>1, <1>2, <1>3, <1>4, <1>5, <1>6, ScoreStep
-----------------------------------------------------------------------------
(* A query applied and then run again: what the second answers ends the request, and    *)
(* the row is as the first left it; but stats count twice.                          *)
LEMMA RetryKeeps ==
    ASSUME AInv, NEW c \in Calls, LostThenRetried(c)
    PROVE  AInv'
<1>1. AccountsTypeOK  BY DEF AInv
<1>2. dbBudget' \in Nat /\ UNCHANGED <<hour, authVars, memoVars>>
  BY <1>1 DEF LostThenRetried, Fault, AccountsTypeOK
<1>3. CASE /\ call[c].pc = "issue"
           /\ \E i, j \in RowIds :
                 /\ Fresh(i)
                 /\ j # i /\ rounds[j].status = "none" /\ \A k \in i + 1 .. j - 1 : rounds[k].status # "none"
                 /\ rounds' = [rounds EXCEPT ![i] = RowOf(c), ![j] = RowOf(c)]
           /\ Goto(c, "register")
           /\ UNCHANGED <<results, stats, answered>>
  <2>1. PICK i, j \in RowIds : /\ rounds[i].status = "none" /\ rounds[j].status = "none"
                               /\ rounds' = [rounds EXCEPT ![i] = RowOf(c), ![j] = RowOf(c)]
    BY <1>3 DEF Fresh
  <2>2. /\ rounds' \in [RowIds -> RoundRow]
        /\ \A k \in RowIds : rounds'[k] = rounds[k] \/ (rounds[k].status = "none" /\ rounds'[k].status = "active")
    BY <1>1, <2>1, RowOfIsARow DEF AccountsTypeOK
  <2> QED  BY <1>2, <1>3, <2>2, IssueRowKeeps
<1>4. CASE /\ call[c].pc = "close"
           /\ rounds' = [rounds EXCEPT ![call[c].row].status = "completed"]
           /\ Answer(c)
           /\ UNCHANGED <<results, stats, answered>>
  BY <1>2, <1>4, CloseKeeps
<1>5. CASE /\ call[c].pc = "insert"
           /\ results' = [results EXCEPT ![call[c].row] = @ \cup {call[c].from}]
           /\ Answer(c)
           /\ UNCHANGED <<rounds, stats, answered>>
  BY <1>2, <1>5, InsertKeeps
<1>6. CASE /\ call[c].pc = "stats"
           /\ stats' = [stats EXCEPT ![call[c].from] = @ + 2]
           /\ answered' = [answered EXCEPT ![call[c].row] = @ + 1]
           /\ Answer(c)
           /\ UNCHANGED <<rounds, results>>
  BY <1>2, <1>6, StatsKeep
<1> QED  BY <1>3, <1>4, <1>5, <1>6 DEF LostThenRetried

(* A query that fails ends its request, or goes on without its row. *)
LEMMA FailKeeps ==
    ASSUME AInv, NEW c \in Calls, QueryFails(c)
    PROVE  AInv'
<1>1. AccountsTypeOK  BY DEF AInv
<1>2. /\ dbBudget' \in Nat /\ UNCHANGED <<hour, authVars, dbVars, memoVars, answered>>
      /\ Goto(c, "register") \/ Answer(c)
  BY <1>1 DEF QueryFails, Fault, AccountsTypeOK
<1>3. PICK q \in CallType : /\ call' = [call EXCEPT ![c] = q] /\ call'[c] = q
                            /\ q.pc = "register" \/ q.pc = "idle"
                            /\ \A d \in Calls : d # c => call'[d] = call[d]
  BY <1>1, <1>2, CallMoves, CallsAreTyped
<1>4. AccountsTypeOK'  BY <1>1, <1>2, <1>3, CallTypes DEF AccountsTypeOK, dbVars, memoVars
<1>5. NoncesAreSpent'  BY <1>2, AuthStays DEF AInv
<1>6. ~Won(call'[c]) /\ call'[c].pc # "close"  BY <1>3 DEF Won
<1> QED  BY <1>2, <1>3, <1>4, <1>5, <1>6, RowlessStep DEF dbVars

(* One step of one request. *)
LEMMA CallKeeps ==
    ASSUME AInv, NEW c \in Calls, CallNext(c)
    PROVE  AInv'
<1>1. dbBudget \in Nat  BY DEF AInv, AccountsTypeOK
<1>2. CASE Close(c)  BY <1>1, <1>2, CloseKeeps DEF Close
<1>3. CASE InsertResult(c)  BY <1>1, <1>3, InsertKeeps DEF InsertResult
<1>4. CASE UpsertStats(c)  BY <1>1, <1>4, StatsKeep DEF UpsertStats
<1> QED  BY <1>2, <1>3, <1>4, StartKeeps, SubmitKeeps, IssueRoundKeeps, RegisterKeeps, RetryKeeps, FailKeeps
         DEF CallNext
-----------------------------------------------------------------------------
(* A restart loses the nonces and the requests in flight; what was accepted, and what *)
(* rows there are, stays.                                                        *)
LEMMA RestartKeeps == ASSUME AInv, Restart PROVE AInv'
<1>1. AccountsTypeOK  BY DEF AInv
<1>2. /\ UNCHANGED <<hour, nonces, signed, sessions, verified, accepted, rounds, results, stats, keys, answered>>
      /\ nonceStore' = [a \in Addresses |-> Empty] /\ solo' = {} /\ call' = [c \in Calls |-> IdleCall]
      /\ dbBudget' \in Nat
  BY <1>1 DEF Restart, Fault, AccountsTypeOK, dbVars
<1>3. call' \in [Calls -> CallType] /\ \A c \in Calls : call'[c].pc = "idle"  BY <1>1, <1>2, CallsAreTyped
<1>4. AccountsTypeOK'  BY <1>1, <1>2, <1>3 DEF AccountsTypeOK, Empty, CallType
<1>5. NoncesAreSpent'
  <2>1. \A a \in Addresses : nonceStore'[a].nonce = 0  BY <1>2 DEF Empty
  <2>2. \A v \in verified : v.by \in Addresses  BY <1>1 DEF AccountsTypeOK
  <2>3. nonces \in Nat  BY <1>1 DEF AccountsTypeOK
  <2> QED  BY <1>2, <2>1, <2>2, <2>3 DEF AInv, NoncesAreSpent
<1>6. OneWinner'  BY <1>3 DEF OneWinner, Won
<1>7. OpenIsBlank' /\ OneScorePerRound'  BY <1>2 DEF AInv, OpenIsBlank, OneScorePerRound
<1> QED  BY <1>4, <1>5, <1>6, <1>7 DEF AInv

(* The clock, and the rounds kept in memory, say nothing about nonces or rows. *)
LEMMA ClockKeeps ==
    ASSUME AInv, HourPasses \/ (\E r \in solo : RespawnSoloRound(r)) \/ UNCHANGED accountVars
    PROVE  AInv'
<1>1. /\ UNCHANGED <<nonces, nonceStore, signed, sessions, verified, accepted>>
      /\ UNCHANGED <<rounds, results, stats, keys, call, answered, dbBudget>>
  BY DEF HourPasses, RespawnSoloRound, authVars, dbVars, memoVars, accountVars
<1>2. hour' \in Nat /\ solo' \subseteq [key : Nat, touched : Nat]
  BY DEF AInv, AccountsTypeOK, HourPasses, RespawnSoloRound, authVars, dbVars, memoVars, accountVars
<1>3. AccountsTypeOK'  BY <1>1, <1>2 DEF AInv, AccountsTypeOK
<1>4. NoncesAreSpent'  BY <1>1 DEF AInv, NoncesAreSpent
<1>5. OneWinner'  BY <1>1 DEF AInv, OneWinner, Won, ScoringFits, WinnerFits
<1>6. OpenIsBlank' /\ OneScorePerRound'  BY <1>1 DEF AInv, OpenIsBlank, OneScorePerRound
<1> QED  BY <1>3, <1>4, <1>5, <1>6 DEF AInv

(* The inductive invariant of sign-in, rounds and scores. *)
THEOREM AInvAlways == AccountsSpec => []AInv
<1>1. AInv /\ [AccountsNext]_accountVars => AInv'
  BY AuthKeeps, CallKeeps, RestartKeeps, ClockKeeps DEF AccountsNext
<1> QED  BY AccountsInitFits, <1>1, PTL DEF AccountsSpec

(* The types of what is kept in memory, in tokens and in rows. *)
THEOREM AccountsTypeCorrect == AccountsSpec => []AccountsTypeOK
BY AInvAlways, PTL DEF AInv

(* walletAuth.js:107 "On success the nonce is consumed": of any number of addresses and *)
(* challenges, through failed attempts and restarts, a signature opens one session at   *)
(* most, and a session speaks for an address whose wallet signed.                     *)
THEOREM SignaturesAreSpent == AccountsSpec => []SignatureIsSingleUse
<1>1. AInv => SignatureIsSingleUse  BY DEF AInv, NoncesAreSpent, SignatureIsSingleUse
<1> QED  BY <1>1, AInvAlways, PTL

(* api.js:148 "two submissions racing for the same round get exactly one row through",  *)
(* of any number of submissions, of retried and failed queries and restarts.           *)
THEOREM RoundsScoreOnce == AccountsSpec => []OneScorePerRound
BY AInvAlways, PTL DEF AInv
=============================================================================
