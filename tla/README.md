# Hopping Heads Arc: TLA+ models and proofs

Hopping Heads Arc is a multiplayer arena whose rounds can be staked: a player
pays an entry into an escrow contract, plays a three minute round on a Node game
server, and is paid by a settlement that one key signs and another submits.
This directory models where money, rounds, seats and scores change hands and what
guards them, checks the models with TLC on small instances, and proves with TLAPS,
for every value of the constants, almost every safety property those runs check:
the invariants of the escrow with its sums and windows, of the settlement, the
sender and the list it pays, of both kinds of lobby, of sign-in and scores; what a
round's scores and claims add up to, how far the movement judge lets anybody get,
what the powerup events and the collection rules promise; and that the escrow and the
chain of the settlement implement one abstract ledger. Section 5 says what is left to
TLC.

## 1. Inventory

### Components, state and operations

| component | state it keeps | operations | talks to |
|---|---|---|---|
| escrow contract (`contracts/src/ArenaEscrow.sol`) | roles, entry amount, tiers, caps, rounds, entered, placed, claimable and its total, windows | openRound, enter, enterWithPermit2, settleRound, withdraw, fundPool, withdrawPool, setters, pause, ownership | USDC, Permit2 |
| lobby (`server/src/ws/gameSocket.js`, `game/seats.js`) | lobbies in memory: status, seats, departed seats, timers | quickmatch, stake:submitted, disconnect, wait, countdown, round start and end, grace, cleanup; a free mode of its own, with guests and no stake | sockets, rounds rows, escrow (read only) |
| round rows (`game/rounds.js`, `db/schema.sql`) | tables rounds, round_results, player_stats | issueRound, saveResults, abandon | game server, worker |
| settlement worker (`services/settler`) | the rows it picked, the row it works on | PICK, open, settle, failure handling | rows, signer, escrow, its mempool |
| transaction sender (`services/settler/tx.js`) | hashes sent at one nonce | send, replace, receipt | RPC node |
| signer (`services/signer`) | a key | sign | worker |
| fragments and mints (`game/lobbyFrags.js`, `lobbyActions.js`) | claims, chests, mints, scores | collect, mint, respawn | clients, bots |
| bots (`game/bots.js`, `botDriver.js`) | brains | tick: move, claim, mint | fragments, movement |
| powerups (`game/powerups.js`) | the field, when the next is due, effects of seats | spawn, expire, pick up, on the tick | seats, clients |
| movement judge (`game/movement.js`) | a window of steps and a knockback budget per seat | judge a move, grant a knockback | pos events, bots, powerups |
| layout (`shared/layout.cjs`) | a stream of draws, the places of the fragments | create, respawn | lobby, solo rounds, the client's copy |
| client (`client/index.html`) | of a round: its copy of the fragments, what it has collected | collect, apply taken, rejected and respawn | lobby |
| collection rules (`game/collection.js`, `mapGenerator.js`) | assets of a map, locks, scores | discover, begin, finish and contest a mint | no caller but tests yet |
| wallet sign-in (`utils/walletAuth.js`) | nonces by address | challenge, verify | clients |
| solo rounds and scores (`game/soloRounds.js`, `routes/api.js`) | layout streams by key, rows | start, respawn, score | rows, clients |
| limiters (`server/src/index.js`, `createRateLimiter` in `gameSocket.js`) | counters per address, a bucket per socket and event | admit, sweep | every request and event |
| contract tools (`contracts/cli/lib.mjs`) | a file per round with its seed | open, enter, settle, withdraw, fund | escrow, USDC, Permit2 |

### How they meet

The game server and the worker never call each other. They share two database
tables: the server inserts a row in status `lobby` with chain_status
`open_requested` and later closes it as `completed` or `abandoned`; the worker
reads rows by chain_status, opens and settles them at the escrow, and writes
chain_status back. The lobby polls chain_status every two seconds and asks the
escrow whether an address has entered. Players pay the escrow directly; the
server believes the chain only. The worker asks the signer for a signature and
sends the transaction with the operator's key; its mempool may hold several
transactions of one nonce, of which one mines.

### What is hard in it

- **The escrow**: one balance backs every round's payouts, a free pool that the
  owner may withdraw and refused transfers; per-player windows that start at
  different blocks; parameters that validate against each other from different
  setters; role changes by calls of an inherited contract.
- **The lobby**: every `await` of a socket handler lets other handlers and five
  kinds of timers run; a seat outlives its socket; disconnect handlers run inside
  the handler that disconnects.
- **The settlement**: a row is written by two processes; a transaction not seen
  in time may still mine; failures write back a status read earlier; the worker
  and the server can die between any two awaits.
- **The play**: bots act one after the other on one snapshot of a tick; a mint
  puts claimed fragments out again; the client's count of fragments is believed,
  and lowers its cap; the judge reads a window it has itself shortened; a client
  collects before it is answered, and may not be; ticks come late.
- **The rest**: a query is run again after it may have been applied; handlers of
  the score route interleave at every query; a nonce is replaced while its message
  is being signed; a tool stops waiting for a transaction that still mines.

### What makes each correct

- escrow: what is owed is always held; a balance moves only by a pull or one
  placement of a settled round; a settlement takes two keys and happens once.
- lobby: one seat per wallet (which the code does not always keep, section 3); a
  seat is staked by the chain's word only and stays with who paid; a live round ranks
  everyone who played; a lobby in the map closes the row a stake is in, unless a late
  INSERT replaces it (which the code does not always keep either, section 3); a row of the
  free lobby is left open only where a timer will close it.
- settlement: the database never runs ahead of the chain; only closed rounds
  settle; the record is what the escrow did; a row that was closed is settled or
  dead-lettered.
- sender: nothing queues behind a stalled transaction, and what a send reports is
  what happened to it.
- play: a score is what was claimed and minted; a claim is credited once; bots see
  what the bots before them did; nobody is moved faster than the cap, and who keeps to
  it is flagged only where the cap itself fell by more than the tolerance pays; events
  tell the field; the layout follows from seed and log, and every client's places with it.
- sign-in, scores, tools: a signature opens one session; a round is scored once,
  by its owner; a saved seed opens its round.

`PROJECT.json` lists every component with what is and is not modelled of it, and
every hazard with the properties aimed at it.

## 2. Modules

| module | models | notes |
|---|---|---|
| `ArenaEscrow` | the contract, one action per external function | parameterised by players, keys, rounds, purse, choices of parameters |
| `ArenaEscrowHistory` | the contract with the history of its credits per block | a history variable on `ArenaEscrow`, for properties of spans of blocks |
| `RoundLedger` | what the contract promises the others: phases of a round, seats, placements, debts and the pool | abstract; implemented by `ArenaEscrow` and by the chain of `Settlement` |
| `ArenaEscrowProofs` | theorems and proofs about `ArenaEscrow`, `ArenaEscrowHistory` and `RoundLedger` | section 5 |
| `SettlementProofs`, `ArenaLobbyProofs`, `AccountsProofs`, `MovementProofs` | about the module each is named after | section 5 |
| `GameProofs` | about `ArenaRound`, `Collection`, `Sandbox`, `Powerups`, `Layout`, and `Game` which joins them | section 5 |
| `ServicesProofs` | about `Sender`, `ArenaCli`, `Limits`, `Roster`, and `Services` which joins them | section 5 |
| `Sums` | lemmas: induction over finite sets, and what sums, least and greatest elements and folds over sequences do | used by the others |
| `Settlement` | a stakeable round across server, rows, worker, mempool and escrow | one action per stretch between two awaits |
| `Sender` | `tx.js`: one send attempt by attempt, over the mempool | nonces, fees, replacement, late receipts |
| `Roster` | from scores to the placements the escrow accepts | ranking, leavers, rows, what signer and escrow check |
| `ArenaLobby` | the stakeable lobby, from the first quickmatch to the end of its round | one action per stretch between two awaits |
| `Sandbox` | the free lobby: guests, the wait for two, the round issued at countdown | one action per handler, per timer and for the INSERT's answer |
| `ArenaRound` | a round in play: claims, chests, mints, scores of sockets and bots | one action per socket event and per half of a bot's turn |
| `Movement` | the movement judge and what feeds it | lengths of steps, not positions |
| `Powerups` | the field of powerups and its events | one action per tick |
| `Layout` | places from the stream of draws, the copies of server and client, and what they tell each other | a place is the draw it was made from |
| `Collection` | the collection rules on a generated map | one action per exported function |
| `Accounts` | sign-in, solo rounds and scores over the database | one action per stretch between two awaits |
| `Limits` | the two fixed windows and the token bucket | one of the three per behaviour |
| `ArenaCli` | the operator's tools, several at once | one action per transaction or receipt |
| `MCArenaEscrow` | three instances of the escrow in one run: one that moves money, one player's window, one that changes parameters | below |
| `Game`, `Services` | six and five modules, side by side | below |
| `MCSettlement`, `MCArenaLobby`, `MCGame`, `MCServices` | the instances TLC checks | constants only |

### ArenaEscrow

Variables are the contract's storage (`rounds`, `entered`, `placed`, `claimable`,
`totalClaimable`, `windows`, roles, parameters, `paused`) and the part of the
world it depends on: `block`, the balances `usdc` and the addresses USDC
refuses. An action's guard is the conjunction of the function's requires and
modifiers: a call that reverts changes nothing and is no step. Amounts are
natural numbers; the one width that matters, the `uint192` of a window's total,
is the constant `Uint192Max` and the narrowing cast is modelled as the cast it is
(`AsUint192`). Signatures are modelled by who must hold which key: a settlement
is possible only with the signer's authorisation, so it is the operator's action;
Permit2 is a transfer with the same guards and effects. `openedAtBlock` and
`entrants`, which no function reads, are left out. The deployer's parameters and
every setter's argument come from sets of choices, refused ones included.

### Settlement

Per round: what the server's memory holds (`game`), who is in its results
(`seats`), the row, the result rows and payout units, what the escrow knows
(`chain`). The worker has a `batch` (the rows PICK returned, as they were then)
and a `job` (the row it is at, and where in `processRound`). Each read, query and
send of `processRound` is its own step. `mempool` holds the operator's
transactions at the next nonce. The sender takes its nonce from the last mined
transaction, so all that was sent and has not mined competes for one nonce, and
the one that mines drops the others. The three attempts of one send are one
transaction here: they differ only in their fee. Failures are steps: a stall, a
failing read, a bad signature, a failing query and a crash. `FaultKinds` says which
kinds may happen and `MaxFaults` how many in all.

### ArenaLobby

A lobby is a record and a handler is an operator from record to record, so a
chain of calls in the code (`disconnect` to `leaveSeat` to `abandonLobby`) is a
composition here. `sock[s].pc` says where the quickmatch handler of a connection
is: before it, awaiting the INSERT of `issueRound`, awaiting the chain, or in.
Timers are booleans that say the interval or timeout is set: how long they take
is not modelled, so every order of timers is possible. A handler that was awaiting
returns to the state as it is then, with what it had in its local variables: the
lobby chosen before the INSERT, the seat object `stake:submitted` was called for
(`stale` when that seat has been dropped or replaced since). A lobby has one row at a
time; a later INSERT puts another in its place, which `orphaned` and, when somebody had
entered it, `stranded` remember.

One assumption on time is a constant. `SlowInserts = FALSE` says that no INSERT of
`issueRound` outlasts what the lobby does meanwhile: the chain status that the
poll reads is not seen while an INSERT is in flight, and INSERTs succeed.
The database pool allows more (ten seconds for a connection, and one retry,
`server/src/db/pool.js:8` and `:28`), so `SlowInserts = TRUE` is the code as it
is: INSERTs then fail or take any time, and `Cleanup` is possible. Both are
checked; what holds only without slow INSERTs is said below.

Two abstractions: bots fill seats at countdown, never leave and are read by no
decision here, so they are left out; and a wallet's connection joins at most once
(`hasJoined`), so a reload is another connection of the same owner.

### Sandbox

The same file's other mode, written like `ArenaLobby`. It has no stake, no bots and no
fragments, so a seat is the connection that holds it, and every seat is on a live
one: no seat waits for its player, and an empty lobby never stays for the cleanup
timer. Its row is inserted by the countdown, which is the one await (`issuing`):
seats may go and the lobby may be abandoned before the INSERT answers or fails. The
queries that close a row are taken to succeed. A wallet is given its seat back on a
newer connection; a guest is somebody new each time.

### RoundLedger

Phases, seats and placements per round, what each player is owed, the sum promised
and the pool. It has no roles, caps, tiers or windows, and leaves amounts open
wherever the interface does: a settlement may owe more to those it places and to
nobody else, as long as the pool covers what is promised. `ArenaEscrow` implements
it under the mapping `Ledger` of that module (`ImplementsLedger`), `Settlement`
with the money mapped to zero (`ChainIsLedger`), so what the worker's model assumes
of the chain is what the contract's model provides.

### Sender and Roster

Both refine what `Settlement` has as one step. `Sender` has the attempts of a send
(`current`), the mempool (`queue`), the mined transactions by nonce, a foreign
stalled transaction under the fee floor, and what each send returned or threw. The
mempool is that of `services/settler/test/stubRpc.js`. `Roster` has the scores, who
left and when, the rows as they are inserted one by one, late entrants and an owner
who changes the tiers; the worker's reads may fall anywhere between.

### ArenaRound

`turn` is what is left of a tick: while it is not empty no socket event happens,
which is Node's run to completion, and the bots in it act one after the other.
`world` is the snapshot `driveBots` takes and updates. Where a bot or a human goes is
any place: steering and speed are `Movement`'s business, here only who stands where
when it claims. `refusal` is what the last handler answered.

### Movement, Powerups, Layout, Collection

`Movement` is one seat under one of three drivers: a bot on jittered ticks, a walker
whose client goes at its cap and reports steadily, and a client that reports
anything. Time is in units of `MIN_STEP_MS`, and a step is its length, since the
judge uses nothing else. A seat is slower the more it carries (`GrowCap`): a bot counts what
it claims, a client reports what it likes, and the cap of an update is that of what it
reports. A bot takes its pace from the cap of the same tick, a walker from the cap at its
last report, with what it carried then. Each sample remembers the cap its step kept to
(`cap`, history, as the next are). `walked`, `pushed`, `silence` (the longest time between two updates),
`grants`, `boosts` and `boostStart` are history: the code has none of them, and the
properties say with them what it ever let through. `Powerups` lets ticks come late by any time; which type appears where is
any choice, as the stream is not modelled. `Layout` has any set of blocked draws in
place of obstacle geometry. Its client (`Viewer`) is connected since `round:start`, where it
computed the layout itself; its requests (`asked`) and the events for it (`wire`) are
two ordered channels. It collects whatever fragment it shows, at once; the server takes the
fragment, rejects the request or drops it without an answer (the rate limit, the cap on
fragments). `lost` and `refused` are history: what was asked for and dropped since it was last
placed, and what was rejected since another claimed it. What the client counts and scores
by itself is not modelled. `Collection`
starts from every map the generator can roll over the given places, tiers and tags,
and takes the exported functions in any order, as no caller fixes one yet.

### Accounts, Limits, ArenaCli

`Accounts`: `call[c].pc` says at which query of its handler a request is; a query may
fail, or be applied, lost and run again (`pool.js:28`); the process may restart,
which loses challenges and solo layouts and keeps rows and tokens. A signature is
the pair of the signer and the nonce of the message. `Limits`: tokens are counted in
parts so that refills stay whole numbers. `ArenaCli`: a tool reads the chain once,
plans its transactions, and sends and awaits them in turn; a tool that gives up
leaves its transaction in flight. The escrow is reduced to one player's view.

### How they compose

`Settlement` and `ArenaLobby` meet in the row. `Settlement` reduces the lobby
to `Issue`, `StartRound`, `EndRound`, `AbandonLobby`; `ArenaLobby` reduces
the worker to `WorkerReports` and the escrow to `EnterOnChain`. `Settlement` and
`ArenaEscrow` meet in `RoundLedger`. `Roster` continues where `ArenaRound` ends (a
seat's score) and ends at the list `Settlement` sends; `Sender` is its `Send`. Steps
of a boost (`Movement!TakeSpeed`) are pickups of `Powerups`; places of `ArenaRound`
are drawn by `Layout`.

The modules of a round's rules share no state, and so do those of its surroundings.
`Game` joins six of them for one run and `Services` five: a behaviour is one of
the module it starts with (`part`), while the others wait in one initial state.
Every invariant of such a run is about one module; the run is a disjoint union of
its modules, not a product. `MCArenaEscrow` likewise: a behaviour looks (`looksAt`)
at the money of two players and two rounds, while the owner leaves the parameters
alone, at the window of one player over three rounds and blocks, or at the parameters and
roles around one player and one round.

## 3. Runs

Deadlock is not checked: every instance ends (rounds, blocks, connections, clocks
and faults are bounded), and the code's own end states are legitimate.

| run | question | instance |
|---|---|---|
| `escrow` | is the money safe, are the parameters consistent whatever setters and handovers do, and is the contract the ledger it promises? `TypeOK` `Solvent` `TotalIsSum` `PlacedWereSeated` `ParametersFit` `BalanceMoves` `PauseFreezesPlayers` `ImplementsLedger`; what does the per-player cap bound? `CapBoundsCredits`: the window's total is what was credited since its start (`WindowCountsCredits`), and any span of windowBlocks sees at most two full windows (`TwoWindowsPerSpan`) | money: 2 players, 2 rounds, 2 tiers, 2 blocks; window: 1 player, 3 rounds, 3 blocks; parameters: 4 keys, 1 player, 1 round |
| `settlement_safety` | do the database and the chain stay in step, is the record true, are only those placed who played and paid, and is the chain the ledger? `TypeOK` `ChainInStep` `NoWayBack` `RecordIsTrue` `PlacedHadResults` `ChainIsLedger` | 2 players, 2 rounds in one batch, any 2 failures of chain, database, server and worker |
| `settlement_liveness` | is every row that was closed settled or dead-lettered? `ClosedRowsSettle` | 2 rounds picked one at a time, any 2 failures of chain, database, server and worker |
| `lobby_seats` | who holds, keeps and loses a seat? `TypeOK` `OnlyEntrantsPlay` `EveryoneIsRanked` `StakedSeatSurvives` | 2 wallets, 3 connections, 2 lobbies of 2 seats, `SlowInserts = FALSE` |
| `lobby_closes` | does a late handler disturb the phases of a lobby, and does a lobby in the map close the row of a stake? `PhasesInOrder` `StakedRoundCloses` | the same wallets, 1 lobby, `SlowInserts = TRUE` |
| `game` | the rules of the game: `GameTypeOK`; rounds `ScoreIsEarned` `ClaimsAreCredited` `BotsSeeTheRound`; movement `PathWithinCap` `FlagOnlyAfterFall`; powerups `EventsTellTheField`; layout `LayoutReplays`; collection `MapPaysOnce`; free lobby `OpenRowIsHeld` | six parts, below |
| `services` | what surrounds a round: `ServicesTypeOK`; accounts `SignatureIsSingleUse` `OneScorePerRound`; limiters `NoFlood`; sender `SendsAreTrue`; roster `SettlementIsAcceptable`; tools `SavedSeedOpens` | five parts, below |

Runs that must fail, for five places where the code does not do what a document or
comment of the repository says. The others are under Remarks, with what does hold
in their place:

| run | property | what happens |
|---|---|---|
| `settlement_seats` | `EverySeatIsPlaced` | the row is completed before its results are inserted; a settlement in between places only those already there |
| `lobby_orphans` | `NoOrphanRows` | two joiners issue two rounds for one lobby; the first row is never closed |
| `lobby_two_seats` | `OneSeatPerAddress` | a wallet's first connection awaits the INSERT of a lobby's round; the lobby fills meanwhile, so the wallet's second connection, which finds no seat of its own, is seated in another one; then the first gets its seat too |
| `lobby_abandoned` | `AbandonedNeverPlays` | the last unstaked seat dropped by the countdown abandons the lobby, and the countdown goes on |
| `lobby_stakes` | `EveryStakedRowCloses` | a joiner's INSERT answers after its lobby filled, found nobody staked and was abandoned; the joiner is seated there, the new row opens, its stake is confirmed, and no timer is left to close the row (`docs/phase4-wire.md:135`) |

`OneSeatPerAddress` (`gameSocket.js:388`, "One seat per address across live
lobbies") was expected to hold where no INSERT outlasts what goes on around it, and
did with three connections. The attempt to prove it failed at a seat set after the
await, which asks nothing of the other lobbies; with a fourth connection to fill
the lobby in between TLC shows the wallet in two.

`OnlyEntrantsPlay`, `EveryoneIsRanked` and `StakedSeatSurvives` hold as long as no
INSERT outlasts what goes on around it, for any instance (section 5). With `SlowInserts = TRUE` TLC finds each of them
violated, from one cause: the second of two overlapping issues of `lobby_orphans`
returns when the lobby is past its wait, and quickmatch seats its player in a
lobby it chose before, without asking its status again. `PhasesInOrder` and
`StakedRoundCloses` do not depend on the assumption: they are checked with slow INSERTs.

`StakedRoundCloses` follows the row a stake was made in. A lobby that is in the map and not
over closes it, or an INSERT that answers late replaces it, and then nothing closes it
(`stranded`; the row is one of those `NoOrphanRows` finds). `EveryStakedRowCloses` is the
same without the two exceptions, and `lobby_stakes` shows that even without slow INSERTs
it fails, for a lobby that was abandoned before the stake.

### Remarks

Where a property says less than one would like, this is what the code does:

- *The window of the per-player cap is tumbling.* `ArenaEscrow.sol:30` and
  `docs/phase3-escrow.md:59` call it rolling; credits on either side of its end add
  up to nearly twice the cap within windowBlocks. `TwoWindowsPerSpan` is what holds.
- *A settlement may go unrecorded.* When its receipt came too late, the next look
  finds the round settled and writes neither transaction nor payouts
  (`settle.js:74`; `schema.sql:56`). `RecordIsTrue` says that what is recorded is right.
- *payout_units is priced before the send* with the tiers read then
  (`settle.js:83`); when the owner changes them meanwhile the row notes what the
  escrow did not pay (`schema.sql:95`). Nothing reads it back.
- *A score may be lost.* The round is closed before the result is inserted
  (`api.js:154`), so a failed insert leaves a closed round without a result and the
  retry is refused. So does a query whose first run was applied and whose answer was
  lost: `query()` runs the closing UPDATE again, finds nothing to close and answers 409.
  `OneScorePerRound` promises at most one score. A retried upsert counts stats twice.
- *A cap that falls flags who kept to it.* The window holds steps of a higher cap while
  the judge measures all of them by that of the moment: after a boost runs out, and
  when fragments are taken, since a seat that carries more is slower (`movement.js:59`). So
  `botDriver.js:20` ("the tests assert it never happens"), and the test "bot speed follows
  the grown cap: a full round of growing bots produces zero flags"
  (`server/tests/botDriver.test.js:67`), which is the answer to "Grown bots trip the movement judge"
  (`docs/phase2e-spawn.md:77`), hold as long as the cap does not fall by more than the
  tolerance within a window. `FlagOnlyAfterFall` says exactly that. At the code's numbers
  one fragment takes less than a fifth of the tolerance and half a dozen within 600 ms take more
  than all of it, of a boosted seat three; a client may also report any number at once
  (`gameSocket.js:558`). A bot is flagged within a window of the fall, no longer. A player
  may go on being flagged: nothing tells its client where the server holds it, so what
  it was held back is part of its next report again.
- *The first sighting is free.* The first position a seat reports is taken as it comes
  (`movement.js:90`), so `PathWithinCap` counts from there.
- *A boost is credited over the silence before it.* The judge allows a window its span
  times the cap of the moment its last step arrives (`movement.js:118`), so a client that was
  silent for long and is boosted at its next report is allowed the boosted speed over the
  whole gap. `PathWithinCap` counts a boost for its duration, the window and the longest
  silence; without the silence it is false, as larger bounds of time show, and with it
  it is proved.
- *An early mint is refused although another chest is ripe*: `tryMint` looks at the
  pending chest of the highest rarity only (`lobbyFrags.js:124`).
- *A set multiplies everything.* `mapGenerator.js:266` says "on those assets", the code
  (`:280`) and `FinalScore` the total.
- *A replacement need not pay more* than what it replaces when the base fee fell in
  between (`tx.js:58`); the stub's mempool takes it all the same, and so does `Sender`.
- *A tool that dies between receipt and file loses the seed* (`lib.mjs:188`); the round
  stays open.
- *The streams of one round may coincide.* `layout.cjs:100` says the powerup stream
  "never overlaps" the fragments'; it replaces the seed's last byte, and a seed that
  ends in that byte gets the same stream.
- *A client may show a fragment that is gone.* `client/index.html:6353` says "taken: gone
  for everyone (a no-op for the collector, who removed it optimistically)". A client
  that collected a fragment which another seat claimed first ignores that seat's `taken`, and the
  rejection of its own claim then puts the fragment back (`:6357`): it lies there, for this
  client only, until its rarity respawns, and can be collected and rejected again.
  `LayoutReplays` allows a claimed fragment to be shown after such a rejection only.
- *A claim that is dropped hides its fragment.* The rate limit (`gameSocket.js:569`) and
  the cap (`lobbyActions.js:34`) drop a claim without an answer, so the client goes on
  hiding, and counting, a fragment that is free, until its rarity respawns.
- *A rejection after a respawn undoes nothing*: the client shows the fragment already, so
  the count it took for it stays (`index.html:6357`), and with it the `fc` it reports.
- *A closing UPDATE that fails leaves its row open.* `abandonLobby` and `endRound` log the error
  and go on (`gameSocket.js:121`, `:783`); a stake in that row is not settled. In `Settlement`
  this is `ServerQueryFails`, and `ClosedRowsSettle` speaks of rows that were closed.
- *An unstaked lobby may wait for ever.* The wait starts with the first confirmed stake;
  nothing ends a lobby in which somebody stays connected and nobody stakes.
- *An abandoned free lobby still plays.* When its last seat goes while the countdown's
  INSERT is under way, `abandonLobby` (`gameSocket.js:113`, "a lobby that never started")
  finds no timer and no row to close; the INSERT answers, the countdown starts
  (`:677`) and an empty round runs for its three minutes in a lobby that is no longer in
  the map. `OpenRowIsHeld` is what remains true: the row is closed by that round.
- *The wait for two may end with one.* `autoStartTimer` is declared and cleared
  (`gameSocket.js:154`) but nothing sets it, so the wait of a free lobby is not
  cancelled when seats drop, and its countdown does not count them again.
- *Seats of dropped connections.* A connection that drops during the INSERT leaves a
  seat that no disconnect removes before the countdown (the handler at
  `gameSocket.js:623` does not know the lobby yet); a second leave while the grace timer
  runs abandons a lobby of away staked seats at once instead of after two minutes
  (`gameSocket.js:168`, `docs/phase4-wire.md:116`). The trace of `lobby_abandoned` starts
  from a seat of the first kind; the same end is reached without it when the grace
  timer of an away staked seat runs while an unstaked visitor is dropped by the
  countdown.
- *Ownership can be handed to the operator or the signer*: `acceptOwnership` compares
  nothing (`docs/phase3-escrow.md:52`), so of the three roles only operator and signer
  always differ (`TwoKeysSettle`, a part of `ParametersFit`).

### Bounds, and why they are enough

- *Escrow.* Two players and two rounds let one player's payout, pull or refusal
  fall between every two steps of the other's, and one player win in two rounds.
  Two tiers tell a place from another and from a sum. The window's part has three
  single-entry rounds over three blocks with a window of two blocks: credits fit
  before, in and after a window, and both windows a span can meet can be full. The purses are just enough for the pool to run short. The proofs carry
  the safety properties to all values.
- *Settlement.* Two rounds are what a batch needs for a stale row to be
  processed after another took time. Two attempts let the retry budget run out
  in the middle of opening and of settling. Two failures give a replaced
  transaction that mines late, or one failure on top of another's recovery; the
  bound only limits failures, no step depends on it.
  Two players are what a partial set of results needs.
- *Lobby.* Two connections of one wallet and one of another give every pair of
  rejoin and leave, and every mix of staked, unstaked, live and away in a lobby of
  two. A second lobby is what a fresh seat after a `release` needs.
  `lobby_closes` has one lobby, since lobbies share nothing but their players.
  The worker reports `open` in both runs, or nothing; a round that is dead comes
  from a failed INSERT in `lobby_closes`. `lobby_stakes` is `lobby_closes` without slow
  INSERTs. The reports `stalled` and `dead` only
  keep seats from being staked: with them both runs hold too, but take longer.

- *Game.* A round has one human and two bots, so that a bot acts after another in one
  tick and after the human, and two fragments of each of two rarities at two places,
  two to a chest: the low rarity mints at once, the high one needs a tick, so a chest
  may be pending that is not ripe. Two ticks. A seat holds at most three fragments, one less
  than there are, and the client may report none. Movement has a window of two units, speeds of four and
  eight, half of them with two fragments (the most), a bot's pace of three, a tolerance of
  one, five units of time (four for the free client), a boink and a boost: one fragment
  more, a client that reports two at once, and a boost that ends all make the cap fall
  within a window, by less or by more than the tolerance pays. Powerups: two seats, two places, room for two of a lifetime of three at
  intervals of two, so the field fills, skips a spawn and expires. Layout: a fragment
  of each of two rarities, six draws of which up to two are blocked, one attempt per place,
  two respawns, one other seat, two requests and two events under way: a respawn, a claim of
  the other and an answer may each overtake a request, and a fragment be asked for twice. A
  rarity of several fragments is the proofs' business. Collection: two collectors,
  two assets, two tiers, two places, with the set at two assets and the mint limit at two.
  Free lobbies: two of three seats, where two start the wait; two connections of a wallet
  and two guests, so a lobby fills, empties at any moment and loses a seat to a reload.
- *Services.* Accounts: two wallets, two requests in flight, one fault, room for one
  pending challenge and one open solo round, lifetimes of one and two hours of three.
  Limits: windows of three units with two requests or one socket, and a bucket of two
  a second, over ten units. Sender: three sends of two attempts, base fees under, at and
  over the floor, a stalled stranger or none. Roster: two wallets and a bot in the
  round, a third wallet that only enters, scores up to two, three tables of which one
  does not fit the cap. Tools: two at a time, three in all, one label, two seeds.

### Fairness

`Settlement!Fairness`: weak fairness of the worker's loop (an interval that keeps
firing and awaits that return) and of the chain mining what waits, and nothing else. The
game server's steps have none: no timer of its ends a lobby in which somebody waits unstaked,
a row that was replaced belongs to no lobby, a restart loses the lobbies and its queries
may fail. `ClosedRowsSettle` therefore begins at a row that was closed, and holds
whatever rows of lower id stay open.

`ArenaLobby!Fairness`: while a timer of a lobby is set, some timer of it ends. Players need not stay,
come back or enter, and the worker need not report. `lobby_closes` holds under
it because the first confirmed stake of a lobby in the map starts the wait, whose end leads
through the countdown to the round clock, or to an abandoned row.

The other modules state no fairness: their properties are safety.

## 4. Mutants

Operators marked `slip` are defects the code might have had (a dropped check, a
missing reset, a stale value). Each property has one that breaks it:
replacing the definition that follows by the slip makes TLC find the property
violated in its own run. They are not part of the model.

## 5. Proofs

The theorems are proved for every value of the constants that the assumption of their
module admits. Those assumptions give constants their types and say little more; what
they add is named below. `ArenaEscrowProofs` has the theorems of the escrow, for any
players, keys, rounds, purses, tiers, caps and placements (the players are finitely many,
as a sum over them needs, and the escrow is none of them; choices have their types). The
last three are of `ArenaEscrow`, `RoundLedger` and `ArenaEscrowHistory`:

| theorem | states |
|---|---|
| `TypeCorrect` | every variable keeps its type: no balance goes below zero |
| `Solvency` | what is owed is at most what is held |
| `ParametersAlwaysFit` | the tier table fits the round cap (`TableAlwaysFits`), operator and signer differ (`TwoKeysAlways`), the 192 bit total of a window loses nothing (`WindowsFit`) |
| `OnlySeatedArePlaced` | the escrow places only players seated in that round |
| `RoundFinality` | a commitment and a settled round never change |
| `PauseFreezes` | paused, nothing of a player moves and the pool keeps what is owed |
| `TotalAlwaysSums` | the running total is the sum of what the players may withdraw |
| `BalancesMoveTwoWays` | a balance goes by its owner's withdrawal, whole, or comes by one tier of one settled round the owner entered |
| `EscrowImplementsLedger` | every behaviour of the contract is one of `RoundLedger` |
| `WindowsBoundCredits` | while the owner leaves the caps: a window's record is what its blocks credited, and no span of a window's length credits more than two windows allow |

`SettlementProofs` has those of `Settlement`, for any players, rounds, retry budget, batch
size and number and kind of faults:

| theorem | states |
|---|---|
| `TypeCorrect` | the types of rows, batch, job, mempool and chain |
| `RowsFollowChain` | a row never says more than the chain has done, and only closed rounds settle |
| `RecordsAreTrue` | the record is what the escrow did |
| `PlacedPlayedAndPaid` | whoever is placed has a result and a stake |
| `StatusesMoveOn` | no dead letter revives and no opened round is asked to open again |
| `ChainImplementsLedger` | the chain of this model is one of `RoundLedger` |

`ServicesProofs` those of what surrounds a round: the sender, for any sends, attempts, fees
and floor above zero; any tools, labels and seeds; any windows, limits and rates; and the
settlement list, for any seats, scores, leavers and tables of natural prizes:

| theorem | states |
|---|---|
| `ReportsAreTrue` | nothing waits behind a stalled transaction, a send takes effect once, and what it reports happened |
| `SavedSeedsOpen` | a round file never holds a seed but the committed one, and nothing settles without it |
| `FloodsAreBounded` | no window's length lets more than two windows' worth through, no bucket more than burst and rate |
| `SettlementsAreAcceptable` | the signer and the escrow accept the list of what was read; its places are those of the whole round by score |
| `RosterTyped` | the types of the settlement list's state |
| `CliTypesHold`, `LimitTypesHold` | the types of tools and limiters |
| `ServicesPlayTheirParts` | a behaviour of `Services` is one of each of its parts |
| `ServicesTyped` | the types of everything around a round |

`ArenaLobbyProofs` those of the stakeable lobby, for any connections, wallets, seats
and number of lobbies. The last three assume `~SlowInserts`, without which they are false
(section 3); the first two do not:

| theorem | states |
|---|---|
| `LobbyTypeCorrect` | the types, and that a seat without a connection is a staked one |
| `PhasesAreInOrder` | phases once and in order, no clock of another phase |
| `EntrantsPlay` | staked seats entered; whoever plays is staked |
| `EveryPlayerIsRanked` | a live round loses nobody and counts nobody twice |
| `StakesSurvive` | a stake stays, with the connection that holds it |

`AccountsProofs` those of sign-in and scores, for any addresses, requests in flight,
ages, bounds and faults:

| theorem | states |
|---|---|
| `SignaturesAreSpent` | a signature opens at most one session, of the wallet that signed |
| `RoundsScoreOnce` | a round takes at most one score, its owner's, after its result is in |

`GameProofs` those of the game's parts: a round in play, for finitely many humans, bots and
fragments and any reports; the free lobby, for any connections, wallets, seat limits and
number of lobbies; the collection game, for finitely many collectors and assets and a
table that is not empty; the powerups, for any seats, places, types and times; the layout
and a client of it, for any fragments, obstacles, attempts and other seats:

| theorem | states |
|---|---|
| `RoundTyped` | the types of a round in play |
| `ScoresAreEarned` | a score is the price of what was claimed and minted, and a mint is covered by a full chest |
| `ClaimsStayCredited` | of each rarity the seats hold no more than was ever put out, and each holds all that is marked as its claim |
| `BotsAlwaysSee` | a bot acts on the round as the bots before it left it, and is refused for its distance only |
| `OpenRowsAreHeld` | an open row has a timer that will close it, a row given up can never be played, a completed one is of a round that ended |
| `SandboxInductiveAlways` | the inductive invariant behind it, which gives the types too (`SandboxTypes`) |
| `CollectionTyped` | the types of the collection game |
| `MapsPayOnce` | all final scores together are at most what the map is worth, found and minted once |
| `PowerupTyped` | the types of the powerups |
| `EventsTell` | what clients were told is the field, however late the ticks come |
| `LayoutTyped` | the types of the layout and its copies |
| `LayoutsReplay` | seed and log give the layout; no place is used twice; the server's copy and a client's places follow it, and where the client's claims differ a request of its own is why |
| `GamePlaysItsParts` | a behaviour of `Game` is one of each of its parts, so what is proved of a part holds in it |
| `GameTyped` | the types of the whole game |

`MovementProofs` those of the movement judge, for any speeds, growth, window, tolerance and
knockback, where the base speed, the window and the time of a knockback are above zero:

| theorem | states |
|---|---|
| `MoveTyped` | the types of the judge's state |
| `PathsAreCapped` | nobody is moved further than the cap, a tolerance per window, the boosts and the knockbacks allow |
| `FlagsFollowFalls` | a bot, and a walker up to its first flag, is flagged only when its cap fell within the window by more than the tolerance pays for |

`Sums` has what these rest on where they count. An induction over data is out of reach as
the library states it, with an operator as a parameter; for a set of subsets or of
numbers in place of the operator it is proved there once (`NaturalInduction`,
`FiniteInduction`: a least counterexample would have a smaller one), and from it what a
sum does when one term changes (`SumChange`), when it is split by owner (`SumByOwner`), and
what lies in between. `FoldsAs` gives the same for folds over sequences: a fold is the last
of the values it goes through, each made from the one before, so that what every step keeps the
fold has (`FoldSteps`), and one more element is one more step (`FoldTakes`).

The argument for the escrow. `TypeOK` is inductive on its own: the contract subtracts only under
guards (or Solidity's own check) that keep a balance natural, so `TypeCorrect`
needs no solvency. `Solvent` is not inductive
by itself, since its steps need the types of what they add and subtract; the
inductive invariant is `TypeOK /\ Solvent`. Its step is one case per action:
a settlement raises the total by at most the free pool, a pull lowers both sides
by the same amount, the pool's withdrawal leaves what is owed, every other
transfer moves money in. The total of a settlement is used only through the
guard that compares it with the free pool. The three parts of `ParametersFit` need the
parameters' guards only; `PlacedWereSeated` is inductive
with `TypeOK`, and its third conjunct (a seat or a settlement means the round is
open) is what makes opening a used id impossible. `RoundFinality` takes its step
from `TypeOK /\ PlacedWereSeated` (a settled round counts as open, so it cannot be
opened anew), and `PauseFreezes` from `TypeOK /\ Solvent`: the pool withdrawal, the
one movement left under a pause, leaves what is owed.

`EscrowImplementsLedger` maps every step under `TypeOK /\ Solvent /\
PlacedWereSeated`: one lemma per kind of action (`SeatIsEnter`, `OpenIsOpen`,
`SettleIsSettle`, `WithdrawIsPull`, `PoolStep`), and everything else leaves the
mapped variables alone. Solvency is what bounds the promised sum by the pool after
a settlement and after the owner's withdrawal, and `PlacedWereSeated` what makes a
round with any trace of use not fresh. That a settlement leaves whom it does not
name as they were is `NobodysCredit`, a sum over no index.

`TotalIsSum` is inductive with the types: the prizes of a settlement, summed over its list,
are the sum over the players of what each is credited (`SumByOwner`), so total and balances
grow by the same. `WindowsBoundCredits` keeps with every window that its `paid` is the sum
of what the blocks since its start credited (`Counts`), that what a span saw before the
window began is within the cap too (`Before`), and so that no span of a window's length sees
more than two (`Spans`). A change of caps
would compare old credits with a new limit, hence its hypothesis.

*Settlement.* `ChainInStep` speaks of rows and chain; what keeps it is what the worker
may still believe of what it read before its last await. `IInv` says so: nobody but the
worker moves the chain_status of the row it works on (`JobIsFresh`), a receipt or a read it
acts on is still true when it writes (`JobSaw`), the rest of the batch waits as PICK read
it, one entry per round (`BatchIsFresh`), and what is in the mempool, of whichever job, is a
transaction of results that stand (`MempoolFits`), so that an older one that
mines late does no harm. A crash forgets job and batch, and with them all these claims.
Without `BatchIsFresh` the failure write of a stale row is not excluded:
`StatusesMoveOn` is proved from it.

*Sender.* A transaction takes the nonce after the last mined one, so all that wait compete for
that nonce (`OneNonce`); what mines drops the rest and leaves nothing of its send behind
(`NoEcho`); a send has left no trace before it begins (`InOrder`). That a report is true
(`OutcomesAreTrue`) then follows, since a mined list only grows. The floor on fees must be
above zero, as the code's is (`FEE_FLOOR`, `tx.js:24`): a transaction can only be stalled below it.

*Roster.* The list is right because of what the worker read: the rows are a prefix of the
ranking whenever it looks, the ranking puts each seat where its score does (ranks in a finite
order are a bijection), and the list's places are those of the ranking (`RosterInv`). Its
prizes are of distinct places, so their sum is at most that of the whole table, whichever
stands when the escrow looks, and a table fits the cap.

*Stakeable lobby.* A handler makes one record of another, so the lemmas are about records.
`Fits` (types, `AwayIsStaked`, no clock of another phase) goes through every handler
whatever the INSERTs do, and gives types and phases. `StakesAreTrue` says a stake means that the
lobby is seen open and the chain agrees, a counting or live lobby has staked seats only,
and nobody has departed before the round or sits in it departed; with it goes what
the three action properties say of the step (`Steps`). It survives the one dangerous
step, an INSERT that answers and replaces the round, because a lobby whose round is being
issued has not been seen open (`NoneEarly`) and so holds no stake: this is exactly
what slow INSERTs break.

*Accounts.* An accepted nonce is in the store no more and none is drawn twice
(`NoncesAreSpent`), so sessions are at most the signatures. Of the score requests past
the closing UPDATE each has its row to itself (`OneWinner`): a status that only one UPDATE finds
open. `OpenIsBlank` is what a retried query needs.

*Free lobby.* `OpenRowIsHeld` is not inductive: that an open row is not lost at the end of a
timer needs which timers a status allows (`TimersFit`: nothing is issued for a lobby
that counts already, a row is never open while its INSERT is under way, only an active
lobby plays). With the types that is `SandboxInductive`. Every handler changes one
lobby, so there is a lemma for what each makes of a record that fits (`GivenUpFits`,
`LeavesFits`, `CountsFits`, `TakesFits`), one that carries it to all lobbies
(`OneHall`), and one for each action. The argument that matters is in `LeavesFits`:
the last seat to go gives the row up with every timer stopped, and the one timer that
may start later, after the INSERT, then brings its own row.

*Scores and claims.* What a seat has minted follows from its bag and its chests
(`Made`: the full chests its claims filled, less those still waiting), so score and mints are
functions of bag and chests in every state (`Earning`), and each handler moves both sides by the same.
`ClaimsAreCredited` forgets what is out at the moment and is not inductive: the invariant
counts the claimed fragments that are out as well (`Credited`). A mint puts its rarity
out again and is one more full set, a claim moves one fragment to one seat.

*Collection.* Two collectors may hold a lock on one asset, but one of them only finds it free:
what a score consists of is a sum over the assets minted by its owner (`PaidFor`), these sets
are disjoint, and who holds a lock has room for what it mints (`RoomFor`).

*Powerups.* `PowInv` says what the property says by members in place of sets, and adds what a
tick needs to keep it: the spawn time of what lies on the field is the one announced
(`BornThen`), and no announced spawn is within an interval of the next one due
(`NextApart`). A tick appends the events of what it spawned, let go and awarded, each once
(`TickSends`, from what `SetToSeq` gives), and nothing it lets go is awarded as well.

*Layout.* `LayoutInv` takes the property apart: the layout is the log replayed (`Follows`), whose
one more entry is one more step of the fold; no draw before the cursor places two
fragments, or lies on an obstacle without all its attempts blocked (`PlacesApart`), which placing a
fragment keeps since it draws from the cursor on; and the two copies are where it is, and differ
in a claim only as the property allows (`InTouch`). The client's is the view once its events have
arrived. What the server sends comes last among them, so it decides how its fragment is shown
then (`ToldLast`): a respawn sends one for each fragment it moved, and these are all of its rarity,
so it ends what `lost` and `refused` excuse with it. What the client collects ahead of its
events leaves the view as it was but for that fragment, which is hidden or as it was
(`Ahead`, which every event keeps), and its request is what accounts for it.

*Movement.* The window is a chain of the last steps, each from the end of the one before.
`MoveInv` allows what was walked before any of these steps began its due for that time
(`WalkAllowed`): base speed, a tolerance per window, and for every boost its extra speed over
its duration, one window and one silence. A judged window adds its span at the cap of the moment,
and either it is the first, or its first step began more than a window ago, which pays for the
tolerance. The unbounded invariant found what the instance had not: the earlier form of
`PathWithinCap`, without `silence`, is false for larger times, and was corrected.
For `FlagsFollowFalls` every step in the window is no longer than its time at the cap it kept to
(`Paced`), and a throw is paid from a budget that still lasts at the next report (`Thrown`).
So what the window holds exceeds its allowance by at most the fall of the cap, step by
step times the step's time, which is `Fall`.

*Bots.* The list of the world that a tick hands from bot to bot is what is unclaimed
(`BotsSeeTheRound` itself), given that a bot is never a shadow, whose claims and mints go
another way (`RoundFits`); the disjointness of humans and bots is an assumption of
`ArenaRound` (`ids.js:10`: a bot's id has a prefix and colons that no address or guest id has).

*Tools.* What is saved is right because of what a tool still waits for: the transaction in
flight is the first of its plan (`InflightFits`), so a receipt that says yes means that the
escrow holds this very seed (`ReceiptsFit`), and it keeps it. A tool that gives up leaves
a transaction that is nobody's: it may commit a seed that is in no file, and no later tool
can then save another seed under that label, since its own opening fails. The tools' assumption
that stakes have a greatest is for the allowance without a limit (`maxUint256`, `lib.mjs:204`),
which is the greatest stake here.

*Limiters.* Of what was let through before the current window began, no more than a
limit's worth lies within a window's length of its beginning (`WindowFits`): so a span that
reaches into two windows has at most two limits' worth, and none reaches into three. An entry
that is swept has run out, which leaves the same fact at the current time
(`OpensOver`). For a bucket the invariant counts from any admission on: what was admitted
since, and the shares it holds now, is paid for by burst and rate (`BucketFits`).

What stays with TLC:

- liveness, which rests on fairness: `ClosedRowsSettle`, `StakedRoundCloses`;
- that the five properties of the runs that expect a violation fail: a counterexample is
  TLC's to find.

Every other property of a run that passes is a theorem.

## 6. Not modelled

- *Geometry and steering*: where a bot goes, obstacle maps, spawn points
  (`game/spawns.js`) and `createPositionStream`. Positions are places or lengths.
- *The backfill with bots* at the stakeable lobby's countdown: no decision of the lobby
  reads them. In play they are seats of `ArenaRound`.
- *Bytes*: ABI, memo, SIWE and EIP-712 encodings, the generator's arithmetic,
  request shapes, wording.
- *Reads*: leaderboards, status pages, the escrow's display reads. They keep no state.
- *The landing page, the build, the lint and test gates, deployment and key generation.*
- *The client*, but for what it does with the fragments of a round (`Layout`): rendering,
  wallet prompts, its own counts and score, and joining a round that is on already.

## 7. Plan

1. The lobby composed with `Settlement`, so that a stake is followed from the seat
   to the payout; `Settlement` with the attempts of `Sender` under it.
2. Proofs: the composition of 1 against the two modules it joins.
