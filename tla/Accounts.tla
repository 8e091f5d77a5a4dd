------------------------------- MODULE Accounts -------------------------------
(***************************************************************************)
(* The HTTP side of the game server: wallet sign-in                            *)
(* (server/src/utils/walletAuth.js), solo rounds (server/src/game/soloRounds.js, *)
(* rounds.js) and score submission (server/src/routes/api.js) over the database  *)
(* (server/src/db/pool.js, schema.sql).  Challenges and solo rounds live in the   *)
(* memory of the process; sessions are signed tokens the client keeps; rows are    *)
(* in the database.  Every await of a handler ends an action.                     *)
(*                                                                             *)
(* A nonce stands for the message that holds it, and a signature is the pair of    *)
(* the address it recovers to and the nonce.  query() of pool.js runs a query a     *)
(* second time when the connection was lost, also when the first had been applied.  *)
(***************************************************************************)
EXTENDS Integers, FiniteSets

CONSTANTS
    Addresses, Guest,
    Calls,               \* requests that may be in flight
    NonceTTL, NonceMax, SessionTTL, RoundTTL, MaxRounds,
    DbFaults,            \* what may go wrong: of lost, failed and crash
    MaxDbFaults,         \* bounds of a run: faults,
    MaxNonces, MaxRows, MaxKeys, MaxHour  \* nonces, rows, keys and the clock

ASSUME AccountsAssumption ==
    /\ Guest \notin Addresses
    /\ {NonceTTL, NonceMax, SessionTTL, RoundTTL, MaxRounds, MaxDbFaults,
        MaxNonces, MaxRows, MaxKeys, MaxHour} \subseteq Nat
    /\ DbFaults \subseteq {"lost", "failed", "crash"}

RowIds == 1 .. MaxRows

VARIABLES
    hour,       \* the clock
    nonces,     \* how many were drawn
    nonceStore, \* per address: nonce and createdAt; nonce 0 is no entry
    signed,     \* signatures clients hold
    sessions,   \* tokens clients hold: sub and exp
    verified,   \* what verifyChallenge accepted: by whom, which nonce, how old
    accepted,   \* how often it did
    solo,       \* soloRounds.js: key and touched
    keys,       \* how many keys were drawn
    rounds,     \* table rounds, solo rows: mode, issuedTo and status
    results,    \* table round_results: the participants of each row
    stats,      \* table player_stats: total_rounds
    call,       \* per request: pc, from (an address or Guest), mode and row
    answered,   \* per row: how many /score requests were answered ok
    dbBudget    \* faults that may still happen

authVars == <<nonces, nonceStore, signed, sessions, verified, accepted>>
dbVars == <<rounds, results, stats>>
memoVars == <<solo, keys>>
accountVars == <<hour, authVars, dbVars, memoVars, call, answered, dbBudget>>

Fault(kind) == kind \in DbFaults /\ dbBudget > 0 /\ dbBudget' = dbBudget - 1

-----------------------------------------------------------------------------
(* Sign-in. *)

Empty == [nonce |-> 0, createdAt |-> 0]
Swept == [a \in Addresses |-> IF hour - nonceStore[a].createdAt > NonceTTL THEN Empty ELSE nonceStore[a]]
Held(store) == {a \in Addresses : store[a].nonce # 0}

(* issueChallenge; a store that is full answers 429, swept all the same. *)
IssueChallenge(a) ==
    /\ nonces < MaxNonces
    /\ \/ /\ a \in Held(Swept) \/ Cardinality(Held(Swept)) < NonceMax
          /\ nonces' = nonces + 1
          /\ nonceStore' = [Swept EXCEPT ![a] = [nonce |-> nonces', createdAt |-> hour]]
       \/ /\ a \notin Held(Swept) /\ Cardinality(Held(Swept)) >= NonceMax
          /\ nonceStore' = Swept /\ UNCHANGED nonces
    /\ UNCHANGED <<hour, signed, sessions, verified, accepted, dbVars, memoVars, call, answered, dbBudget>>

(* A wallet signs the message it was shown: anyone may ask for one in its name.  *)
Sign(a) ==
    /\ nonceStore[a].nonce # 0
    /\ signed' = signed \cup {[by |-> a, nonce |-> nonceStore[a].nonce]}
    /\ UNCHANGED <<hour, nonces, nonceStore, sessions, verified, accepted, dbVars, memoVars, call, answered, dbBudget>>

(* verifyChallenge: the entry goes first, success or not. *)
ConsumeNever(a, ok) == nonceStore  \* slip
Consume(a, ok) == [nonceStore EXCEPT ![a] = Empty]

Matches(a, sig) ==
    /\ hour - nonceStore[a].createdAt <= NonceTTL
    /\ sig = [by |-> a, nonce |-> nonceStore[a].nonce]

(* issueSession. *)
Session(a) == [sub |-> a, exp |-> hour + SessionTTL]

VerifyChallenge(a, sig) ==
    /\ nonceStore[a].nonce # 0
    /\ LET ok == Matches(a, sig)
       IN  /\ nonceStore' = Consume(a, ok)
           /\ sessions' = IF ok THEN sessions \cup {Session(a)} ELSE sessions
           /\ verified' = IF ok THEN verified \cup {sig} ELSE verified
           /\ accepted' = IF ok THEN accepted + 1 ELSE accepted
    /\ UNCHANGED <<hour, nonces, signed, dbVars, memoVars, call, answered, dbBudget>>

(* verifySessionToken: whom a request speaks for; without a valid token, Guest. *)
Speakers == {Guest} \cup {s.sub : s \in {t \in sessions : hour < t.exp}}

-----------------------------------------------------------------------------
(* POST /round/start: the row first, then the layout in memory. *)

IdleCall == [pc |-> "idle", from |-> Guest, mode |-> "none", row |-> 0]
Goto(c, pc) == call' = [call EXCEPT ![c].pc = pc]
Answer(c) == call' = [call EXCEPT ![c] = IdleCall]

Fresh(i) == rounds[i].status = "none" /\ \A j \in 1 .. i - 1 : rounds[j].status # "none"
RowOf(c) == [mode |-> call[c].mode, issuedTo |-> call[c].from, status |-> "active"]

StartRound(c, from, mode) ==
    /\ call[c].pc = "idle" /\ keys < MaxKeys
    /\ call' = [call EXCEPT ![c] =
          [pc |-> IF from = Guest THEN "register" ELSE "issue", from |-> from, mode |-> mode, row |-> 0]]
    /\ UNCHANGED <<hour, authVars, dbVars, memoVars, answered, dbBudget>>

(* issueRound: a failed insert leaves a round without a row. *)
IssueRound(c) ==
    /\ call[c].pc = "issue"
    /\ \E i \in RowIds : Fresh(i) /\ rounds' = [rounds EXCEPT ![i] = RowOf(c)]
    /\ Goto(c, "register")
    /\ UNCHANGED <<hour, authVars, results, stats, memoVars, answered, dbBudget>>

(* registerSoloRound: over the bound the call answers 429, the row stays. *)
LiveRounds == {r \in solo : hour - r.touched <= RoundTTL}
RegisterSoloRound(c) ==
    /\ call[c].pc = "register"
    /\ \/ /\ Cardinality(LiveRounds) < MaxRounds
          /\ keys' = keys + 1
          /\ solo' = LiveRounds \cup {[key |-> keys', touched |-> hour]}
       \/ /\ Cardinality(LiveRounds) >= MaxRounds
          /\ solo' = LiveRounds /\ UNCHANGED keys
    /\ Answer(c)
    /\ UNCHANGED <<hour, authVars, dbVars, answered, dbBudget>>

(* respawnSoloRound: whoever holds the key keeps the round alive. *)
RespawnSoloRound(r) ==
    /\ r \in solo
    /\ solo' = (solo \ {r}) \cup
          (IF hour - r.touched > RoundTTL THEN {} ELSE {[r EXCEPT !.touched = hour]})
    /\ UNCHANGED <<hour, authVars, dbVars, keys, call, answered, dbBudget>>

-----------------------------------------------------------------------------
(* POST /score. *)

ScorableByAnyone(i, from) ==  \* slip: no look at issued_to
    /\ rounds[i].mode = "sandbox-classic-solo"
    /\ rounds[i].status = "active"
Scorable(i, from) ==
    /\ rounds[i].issuedTo = from
    /\ rounds[i].mode = "sandbox-classic-solo"
    /\ rounds[i].status = "active"

(* The SELECT and its checks; anything else is refused. *)
SubmitScore(c, from, i) ==
    /\ call[c].pc = "idle"
    /\ from # Guest /\ Scorable(i, from)
    /\ call' = [call EXCEPT ![c] = [pc |-> "close", from |-> from, mode |-> "none", row |-> i]]
    /\ UNCHANGED <<hour, authVars, dbVars, memoVars, answered, dbBudget>>

(* UPDATE ... AND status = 'active' RETURNING id. *)
Closable(i) == rounds[i].status = "active"

Close(c) ==
    /\ call[c].pc = "close"
    /\ \/ Closable(call[c].row) /\ Goto(c, "insert")
       \/ ~Closable(call[c].row) /\ Answer(c)
    /\ rounds' = [rounds EXCEPT ![call[c].row].status = "completed"]
    /\ UNCHANGED <<hour, authVars, results, stats, memoVars, answered, dbBudget>>

(* round_results is UNIQUE(round_id, participant): a second row is an error. *)
InsertResult(c) ==
    /\ call[c].pc = "insert"
    /\ \/ call[c].from \notin results[call[c].row] /\ Goto(c, "stats")
       \/ call[c].from \in results[call[c].row] /\ Answer(c)
    /\ results' = [results EXCEPT ![call[c].row] = @ \cup {call[c].from}]
    /\ UNCHANGED <<hour, authVars, rounds, stats, memoVars, answered, dbBudget>>

UpsertStats(c) ==
    /\ call[c].pc = "stats"
    /\ stats' = [stats EXCEPT ![call[c].from] = @ + 1]
    /\ answered' = [answered EXCEPT ![call[c].row] = @ + 1]
    /\ Answer(c)
    /\ UNCHANGED <<hour, authVars, rounds, results, memoVars, dbBudget>>

-----------------------------------------------------------------------------
(* The database connection and the process. *)

(* The query was applied, the connection is lost before the answer, and query()   *)
(* runs it again: what the handler sees is the answer to the second.              *)
LostThenRetried(c) ==
    /\ Fault("lost")
    /\ \/ /\ call[c].pc = "issue"
          /\ \E i, j \in RowIds :
                /\ Fresh(i)
                /\ j # i /\ rounds[j].status = "none" /\ \A k \in i + 1 .. j - 1 : rounds[k].status # "none"
                /\ rounds' = [rounds EXCEPT ![i] = RowOf(c), ![j] = RowOf(c)]
          /\ Goto(c, "register")
          /\ UNCHANGED <<results, stats, answered>>
       \/ /\ call[c].pc = "close"
          /\ rounds' = [rounds EXCEPT ![call[c].row].status = "completed"]
          /\ Answer(c)
          /\ UNCHANGED <<results, stats, answered>>
       \/ /\ call[c].pc = "insert"
          /\ results' = [results EXCEPT ![call[c].row] = @ \cup {call[c].from}]
          /\ Answer(c)
          /\ UNCHANGED <<rounds, stats, answered>>
       \/ /\ call[c].pc = "stats"
          /\ stats' = [stats EXCEPT ![call[c].from] = @ + 2]
          /\ answered' = [answered EXCEPT ![call[c].row] = @ + 1]
          /\ Answer(c)
          /\ UNCHANGED <<rounds, results>>
    /\ UNCHANGED <<hour, authVars, memoVars>>

(* The query fails for good: issueRound goes on without a row, /score answers 500. *)
QueryFails(c) ==
    /\ call[c].pc \in {"issue", "close", "insert", "stats"}
    /\ Fault("failed")
    /\ IF call[c].pc = "issue" THEN Goto(c, "register") ELSE Answer(c)
    /\ UNCHANGED <<hour, authVars, dbVars, memoVars, answered>>

(* The process restarts: its memory is gone, tokens and rows are not. *)
Restart ==
    /\ Fault("crash")
    /\ nonceStore' = [a \in Addresses |-> Empty]
    /\ solo' = {}
    /\ call' = [c \in Calls |-> IdleCall]
    /\ UNCHANGED <<hour, nonces, signed, sessions, verified, accepted, dbVars, keys, answered>>

HourPasses ==
    /\ hour < MaxHour
    /\ hour' = hour + 1
    /\ UNCHANGED <<authVars, dbVars, memoVars, call, answered, dbBudget>>

-----------------------------------------------------------------------------
AccountsInit ==
    /\ hour = 0
    /\ nonces = 0 /\ nonceStore = [a \in Addresses |-> Empty]
    /\ signed = {} /\ sessions = {} /\ verified = {} /\ accepted = 0
    /\ solo = {} /\ keys = 0
    /\ rounds = [i \in RowIds |-> [mode |-> "none", issuedTo |-> Guest, status |-> "none"]]
    /\ results = [i \in RowIds |-> {}]
    /\ stats = [a \in Addresses |-> 0]
    /\ call = [c \in Calls |-> IdleCall]
    /\ answered = [i \in RowIds |-> 0]
    /\ dbBudget = MaxDbFaults

AuthNext ==
    \E a \in Addresses :
        IssueChallenge(a) \/ Sign(a) \/ (\E sig \in signed : VerifyChallenge(a, sig))

CallNext(c) ==
    \/ \E from \in Speakers :
          \/ \E mode \in {"sandbox-classic-solo", "sandbox-lbs-solo"} : StartRound(c, from, mode)
          \/ \E i \in RowIds : SubmitScore(c, from, i)
    \/ IssueRound(c) \/ RegisterSoloRound(c)
    \/ Close(c) \/ InsertResult(c) \/ UpsertStats(c)
    \/ LostThenRetried(c) \/ QueryFails(c)

AccountsNext ==
    \/ AuthNext
    \/ \E c \in Calls : CallNext(c)
    \/ \E r \in solo : RespawnSoloRound(r)
    \/ Restart \/ HourPasses

AccountsSpec == AccountsInit /\ [][AccountsNext]_accountVars

-----------------------------------------------------------------------------
SoloModes == {"none", "sandbox-classic-solo", "sandbox-lbs-solo"}
RoundRow == [mode : SoloModes, issuedTo : Addresses \cup {Guest}, status : {"none", "active", "completed"}]

(* The type of every variable. *)
AccountsTypeOK ==
    /\ hour \in Nat /\ nonces \in Nat /\ keys \in Nat /\ accepted \in Nat
    /\ nonceStore \in [Addresses -> [nonce : Nat, createdAt : Nat]]
    /\ signed \subseteq [by : Addresses, nonce : Nat] /\ verified \subseteq signed
    /\ sessions \subseteq [sub : Addresses, exp : Nat]
    /\ solo \subseteq [key : Nat, touched : Nat]
    /\ rounds \in [RowIds -> RoundRow]
    /\ results \in [RowIds -> SUBSET Addresses]
    /\ stats \in [Addresses -> Nat]
    /\ call \in [Calls -> [pc : {"idle", "issue", "register", "close", "insert", "stats"},
                           from : Addresses \cup {Guest}, mode : SoloModes, row : 0 .. MaxRows]]
    /\ answered \in [RowIds -> Nat]
    /\ dbBudget \in Nat

(* walletAuth.js:107 "On success the nonce is consumed", docs/phase0-strip.md:113  *)
(* "Nonces are single use": a signature opens at most one session, through second  *)
(* challenges, failed attempts and restarts, and a session speaks only for an       *)
(* address whose wallet signed.                                                    *)
SignatureIsSingleUse ==
    /\ accepted = Cardinality(verified)
    /\ \A s \in sessions : \E v \in verified : v.by = s.sub

(* api.js:148 "The status guard makes this atomic: two submissions racing for the   *)
(* same round get exactly one row through": of all submissions of a round at most    *)
(* one is answered ok, by the wallet it was issued to, after its result and its       *)
(* stats are in; and no result stands on a round that is open or does not score.      *)
OneScorePerRound ==
    \A i \in RowIds :
        /\ answered[i] <= 1
        /\ answered[i] = 1 => results[i] = {rounds[i].issuedTo} /\ stats[rounds[i].issuedTo] > 0
        /\ results[i] # {} => /\ results[i] = {rounds[i].issuedTo}
                              /\ rounds[i].status = "completed"
                              /\ rounds[i].mode = "sandbox-classic-solo"
=============================================================================
