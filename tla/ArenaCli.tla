--------------------------------- MODULE ArenaCli ---------------------------------
(***************************************************************************)
(* The operator's command line tools (contracts/cli/lib.mjs): open, enter, settle,    *)
(* withdraw and fund, each a process of its own that reads the chain, sends its        *)
(* transactions one after the other and waits for each receipt.  Several may run at     *)
(* once, on the same round too; a tool may die, or give up waiting for a receipt, and   *)
(* its transaction still mine.  The escrow here is what the tools need of it (module    *)
(* ArenaEscrow is the whole), for one player.                                      *)
(***************************************************************************)
EXTENDS Integers, Sequences, FiniteSetsExt

CONSTANTS
    Tools,             \* tools that may run at once
    Labels,            \* round labels: the same label is the same roundId
    Secrets, NoSecret, \* seeds open may draw
    Stakes,            \* entryAmount may be any of these
    FundAmount,
    MaxRuns            \* bounds a run: tools started

ASSUME CliAssumption ==
    /\ NoSecret \notin Secrets /\ "gone" \notin Tools /\ Stakes \subseteq Nat
    /\ \E most \in Stakes : \A a \in Stakes : most >= a  \* amounts have a width
    /\ FundAmount \in Nat /\ MaxRuns \in Nat

VARIABLES
    opened,      \* per label: the seed whose hash the escrow holds
    entrant, paidOut, owed, \* whether the player is seated, the round settled, its credit
    stakeNow,    \* entryAmount
    allowance,   \* of "player" and "owner" to the escrow, and of the player to "permit2"
    files,       \* cli/rounds/: the seed saved per label
    drawn,       \* seeds drawn so far
    tool,        \* per tool: cmd, label, secret, plan (what is left to send) and waiting
    inflight,    \* transactions not mined yet
    receipts,    \* of mined ones: by and ok
    runs

escrowPart == <<opened, entrant, paidOut, owed, stakeNow, allowance>>
toolPart == <<files, drawn, tool, runs>>
cliVars == <<escrowPart, toolPart, inflight, receipts>>

NoTool == [cmd |-> "none", label |-> "none", secret |-> NoSecret, plan |-> <<>>, waiting |-> FALSE]
Tx(op, limit) == [op |-> op, limit |-> limit]

-----------------------------------------------------------------------------
(* A tool starts: what it reads decides what it will send. *)

(* What is spent is approved first, if it has not been: the very amount to the     *)
(* escrow, everything to Permit2, once.                                           *)
Plan(payer, amount, approval, op) ==
    IF allowance[payer] < amount THEN <<Tx("approve", approval), Tx(op, amount)>> ELSE <<Tx(op, amount)>>
Start(t, cmd, l, secret, plan) ==
    /\ tool[t] = NoTool /\ runs < MaxRuns
    /\ runs' = runs + 1
    /\ tool' = [tool EXCEPT ![t] =
          [cmd |-> cmd, label |-> l, secret |-> secret, plan |-> plan, waiting |-> FALSE]]
    /\ UNCHANGED <<escrowPart, files, inflight, receipts>>

OpenTool(t, l) ==
    /\ \E secret \in Secrets \ drawn :
          drawn' = drawn \cup {secret} /\ Start(t, "open", l, secret, <<Tx("openRound", 0)>>)
(* The stake is read before anything is sent; Permit2's signature is for just that.  *)
EnterTool(t, l) ==
    /\ \/ Start(t, "enter", l, NoSecret, Plan("player", stakeNow, stakeNow, "enter"))
       \/ Start(t, "permit", l, NoSecret, Plan("permit2", stakeNow, Max(Stakes), "enterWithPermit2"))
    /\ UNCHANGED drawn
SettleTool(t, l) ==
    /\ files[l] # NoSecret
    /\ Start(t, "settle", l, files[l], <<Tx("settleRound", 0)>>) /\ UNCHANGED drawn
WithdrawTool(t) == Start(t, "withdraw", "none", NoSecret, <<Tx("withdraw", 0)>>) /\ UNCHANGED drawn
FundTool(t) ==
    Start(t, "fund", "none", NoSecret, Plan("owner", FundAmount, FundAmount, "fundPool")) /\ UNCHANGED drawn

-----------------------------------------------------------------------------
(* The chain. *)

Payer(tx) == CASE tx.cmd = "fund" -> "owner" [] tx.cmd = "permit" -> "permit2" [] OTHER -> "player"
Runs(tx) ==
    \/ tx.op = "openRound" /\ opened[tx.label] = NoSecret
    \/ tx.op = "approve"
    \/ /\ tx.op \in {"enter", "enterWithPermit2"}
       /\ opened[tx.label] # NoSecret /\ ~paidOut[tx.label] /\ ~entrant[tx.label]
       /\ stakeNow <= allowance[Payer(tx)]
       /\ tx.op = "enterWithPermit2" => stakeNow <= tx.limit
    \/ /\ tx.op = "settleRound"
       /\ opened[tx.label] = tx.secret /\ ~paidOut[tx.label] /\ entrant[tx.label]
    \/ tx.op = "withdraw" /\ owed > 0
    \/ tx.op = "fundPool" /\ allowance["owner"] >= FundAmount

MineTx(tx) ==
    /\ opened' = IF tx.op = "openRound" THEN [opened EXCEPT ![tx.label] = tx.secret] ELSE opened
    /\ entrant' = IF tx.op \in {"enter", "enterWithPermit2"} THEN [entrant EXCEPT ![tx.label] = TRUE] ELSE entrant
    /\ paidOut' = IF tx.op = "settleRound" THEN [paidOut EXCEPT ![tx.label] = TRUE] ELSE paidOut
    /\ owed' = CASE tx.op = "settleRound" -> owed + 1 [] tx.op = "withdraw" -> 0 [] OTHER -> owed
    /\ allowance' = CASE tx.op = "approve"  -> [allowance EXCEPT ![Payer(tx)] = tx.limit]
                      [] tx.op = "enter"    -> [allowance EXCEPT !["player"] = @ - stakeNow]
                      [] tx.op = "fundPool" -> [allowance EXCEPT !["owner"] = @ - FundAmount]
                      [] OTHER -> allowance
    /\ UNCHANGED stakeNow

Mined(tx) ==
    /\ tx \in inflight
    /\ inflight' = inflight \ {tx}
    /\ receipts' = receipts \cup {[by |-> tx.by, ok |-> Runs(tx)]}
    /\ \/ Runs(tx) /\ MineTx(tx)
       \/ ~Runs(tx) /\ UNCHANGED escrowPart
    /\ UNCHANGED toolPart

SetStake ==
    /\ \E a \in Stakes \ {stakeNow} : stakeNow' = a
    /\ UNCHANGED <<opened, entrant, paidOut, owed, allowance, toolPart, inflight, receipts>>

-----------------------------------------------------------------------------
(* send: one transaction, after a dry run, and its receipt. *)

(* A process of its own: what it left in flight, or a receipt of it, is nobody's. *)
Quit(t) ==
    /\ tool' = [tool EXCEPT ![t] = NoTool]
    /\ receipts' = {r \in receipts : r.by # t}
Orphaned(t) == inflight' = {IF tx.by = t THEN [tx EXCEPT !.by = "gone"] ELSE tx : tx \in inflight}

SavesEarly(t, last) == tool[t].cmd = "open"  \* slip: the round file is written before the receipt
Saves(t, last) == tool[t].cmd = "open" /\ last

Write(t, last) ==
    files' = IF Saves(t, last) THEN [files EXCEPT ![tool[t].label] = tool[t].secret] ELSE files

Submit(t) ==
    /\ tool[t].plan # <<>> /\ ~tool[t].waiting
    /\ LET next == Head(tool[t].plan)
           tx == [by |-> t, cmd |-> tool[t].cmd, op |-> next.op, limit |-> next.limit,
                  label |-> tool[t].label, secret |-> tool[t].secret]
       IN  \/ /\ Runs(tx)
              /\ inflight' = inflight \cup {tx}
              /\ tool' = [tool EXCEPT ![t].waiting = TRUE] /\ UNCHANGED receipts
              /\ Write(t, FALSE)
           \/ ~Runs(tx) /\ Quit(t) /\ UNCHANGED <<inflight, files>>
    /\ UNCHANGED <<escrowPart, drawn, runs>>

Receipt(t) ==
    \E r \in receipts :
        /\ r.by = t /\ tool[t].waiting
        /\ LET last == Len(tool[t].plan) = 1
           IN  IF r.ok /\ ~last
               THEN /\ tool' = [tool EXCEPT ![t].waiting = FALSE, ![t].plan = Tail(@)]
                    /\ receipts' = receipts \ {r} /\ UNCHANGED files
               ELSE Quit(t) /\ Write(t, r.ok)
        /\ UNCHANGED <<escrowPart, drawn, runs, inflight>>

(* The wait runs out after 120 s, or somebody stops the tool. *)
GiveUp(t) ==
    /\ tool[t] # NoTool
    /\ Quit(t) /\ Orphaned(t)
    /\ UNCHANGED <<escrowPart, files, drawn, runs>>

CliInit ==
    /\ opened = [l \in Labels |-> NoSecret]
    /\ entrant = [l \in Labels |-> FALSE] /\ paidOut = [l \in Labels |-> FALSE] /\ owed = 0
    /\ stakeNow \in Stakes
    /\ allowance = [player |-> 0, owner |-> 0, permit2 |-> 0]
    /\ files = [l \in Labels |-> NoSecret] /\ drawn = {}
    /\ tool = [t \in Tools |-> NoTool]
    /\ inflight = {} /\ receipts = {} /\ runs = 0

CliNext ==
    \/ \E t \in Tools :
          \/ \E l \in Labels : OpenTool(t, l) \/ EnterTool(t, l) \/ SettleTool(t, l)
          \/ WithdrawTool(t) \/ FundTool(t)
          \/ Submit(t) \/ Receipt(t) \/ GiveUp(t)
    \/ \E tx \in inflight : Mined(tx)
    \/ SetStake

CliSpec == CliInit /\ [][CliNext]_cliVars

-----------------------------------------------------------------------------
(* The type of every variable. *)
CliTypeOK ==
    /\ opened \in [Labels -> Secrets \cup {NoSecret}] /\ files \in [Labels -> Secrets \cup {NoSecret}]
    /\ entrant \in [Labels -> BOOLEAN] /\ paidOut \in [Labels -> BOOLEAN]
    /\ owed \in Nat /\ stakeNow \in Stakes
    /\ allowance \in [{"player", "owner", "permit2"} -> Nat]
    /\ drawn \subseteq Secrets /\ runs \in 0 .. MaxRuns
    /\ \A t \in Tools : tool[t].waiting \in BOOLEAN /\ tool[t].secret \in Secrets \cup {NoSecret}
    /\ \A tx \in inflight : tx.by \in Tools \cup {"gone"}

(* lib.mjs:134 "the operator's seed between open and settle": a round file never holds *)
(* a seed but the one the escrow is committed to, also when the same label is opened     *)
(* twice at once and one of the two gives up, so what settle loads always matches the    *)
(* commitment; and nothing is settled but by a saved seed.                            *)
SavedSeedOpens ==
    \A l \in Labels :
        /\ files[l] # NoSecret => files[l] = opened[l]
        /\ paidOut[l] => files[l] # NoSecret
=============================================================================
