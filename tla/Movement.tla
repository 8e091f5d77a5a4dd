------------------------------- MODULE Movement -------------------------------
(***************************************************************************)
(* The movement judge (server/src/game/movement.js) and the three that feed it  *)
(* through applyMove (server/src/ws/gameSocket.js): a bot on the server's tick   *)
(* (botDriver.js), a player whose client reports where it walked to, and a       *)
(* client that reports anything.  Boinks grant a knockback budget and powerups   *)
(* a boost.                                                                     *)
(*                                                                             *)
(* The judge looks at lengths and times only, so a position is the length of      *)
(* the step to it and what is left of it after clamping: ratio * step is          *)
(* min(step, allowedStep).  One unit of time is MIN_STEP_MS; the other constants  *)
(* are scaled to it.                                                             *)
(***************************************************************************)
EXTENDS Integers, Sequences, FiniteSetsExt, Functions

CONSTANTS
    Base, Boost,     \* BASE_SPEED and BOOST_SPEED, per unit of time
    BotPace,         \* BOT_SPEED
    FullSize,        \* the fragments at which growth is complete
    Penalty,         \* and what it takes off the cap then, in percent
    MaxCarried,      \* maxFrags
    Loads,           \* how many a client may report to carry
    Window, Tolerance,
    Knock, KnockTime, BoostTime,
    MaxDt,           \* MAX_STEP_S, the longest tick a bot makes up for
    Jump,            \* the longest step the free client reports
    MaxGrants, MaxTime, \* bounds of a run: boinks and boosts, the clock,
    ClientTime       \* and the clock while the free client may report

ASSUME MovementAssumption ==
    /\ {Base, Boost, BotPace, FullSize, Penalty, MaxCarried, Window, Tolerance, Knock, KnockTime, BoostTime,
        MaxDt, Jump, MaxGrants, MaxTime, ClientTime} \subseteq Nat
    /\ Base <= Boost /\ Penalty <= 100 /\ Loads \subseteq 0 .. MaxCarried
    /\ 0 \notin {Base, FullSize, Window, KnockTime}

VARIABLES
    driver,     \* who moves the seat: "bot", "walker" or "client"
    clock,
    lastAt,     \* arrival of the last update, 0 before the first
    samples,    \* the window: from, to and d of each step, and the cap it kept to
    carried,    \* fragCount, as the seat claims and its client reports it
    knockback,  \* budget and until
    boostUntil, \* effects.speed
    lag,        \* how far the server holds a walker behind where it is
    carry,      \* how far the last boink still throws it
    violations, \* the updates that were flagged
    walked, pushed,  \* what the server ever accepted: walking, and as knockback
    silence,    \* the longest time between two updates
    grants, boosts, boostStart  \* what the run granted, and when the last boost began

judgeVars == <<lastAt, samples, carried, violations, walked, pushed, silence>>
grantVars == <<knockback, boostUntil, grants, boosts, boostStart>>
walkVars == <<lag, carry>>
moveVars == <<driver, clock, judgeVars, grantVars, walkVars>>

Least(a, b) == IF a <= b THEN a ELSE b
Most(a, b) == IF a >= b THEN a ELSE b
Lengths(ss) == SumFunction([i \in DOMAIN ss |-> ss[i].d])

(* growCap: a seat that carries more is slower, down to the full penalty. *)
GrowCap(cap, n) == cap - (cap * Least(n, FullSize) * Penalty) \div (FullSize * 100)

(* The cap of a seat that carries n fragments, at the time t. *)
CapAt(n, t) == GrowCap(IF boostUntil > t THEN Boost ELSE Base, n)
Cap(n) == CapAt(n, clock)

(* What a knockback pays of a step, once: the excess over walking. *)
Credit(step, cap) ==
    IF clock > knockback.until \/ knockback.budget <= 0 THEN 0
    ELSE Least(knockback.budget, Most(0, step - cap * Most(clock - lastAt, 1)))

(* The window: the oldest samples go that ended before it; the newest stays. *)
RecentNewestOnly(ss) == <<ss[Len(ss)]>>  \* slip: every update is judged alone
Recent(ss) == SubSeq(ss, Min({i \in DOMAIN ss : ss[i].to >= clock - Window}), Len(ss))
Allowance(ss, cap) == cap * Most(clock - ss[1].from, 1)

(* judgeMove: accepted is what the server moves of the step.  The sample remembers      *)
(* which cap the step kept to.                                                     *)
Judge(step, accepted, kept, cap) ==
    IF lastAt = 0 THEN
        /\ accepted = step
        /\ lastAt' = clock
        /\ UNCHANGED <<samples, knockback, violations, walked, pushed, silence>>
    ELSE
        LET credit == Credit(step, cap)
            ss == Recent(Append(samples, [from |-> lastAt, to |-> clock, d |-> step - credit,
                                          cap |-> kept]))
            before == Lengths(ss) - (step - credit)
            over == Lengths(ss) > Allowance(ss, cap) + Tolerance
        IN  /\ accepted = IF over THEN Least(step, Most(0, Allowance(ss, cap) - before) + credit)
                          ELSE step
            /\ violations' = violations + (IF over THEN 1 ELSE 0)
            /\ samples' = [ss EXCEPT ![Len(ss)].d = Most(0, accepted - credit)]
            /\ knockback' = [knockback EXCEPT !.budget = @ - credit]
            /\ lastAt' = clock /\ silence' = Most(silence, clock - lastAt)
            /\ walked' = walked + Most(0, accepted - credit)
            /\ pushed' = pushed + Least(accepted, credit)

-----------------------------------------------------------------------------
(* Who moves: not at all, just short of as far as it can, or as far. *)
UpTo(most) == {0, most - 1, most} \cap Nat

(* A jittered tick: the driver makes up for the time since the last one, and the bot    *)
(* may claim a fragment once it has moved.                                          *)
BotSpeedFlat == BotPace  \* slip: one pace, however much the bot carries
BotSpeed == Least(IF boostUntil > clock THEN 2 * BotPace ELSE BotPace, Cap(carried))

BotTick ==
    /\ driver = "bot" /\ clock > lastAt
    /\ \E step \in UpTo(BotSpeed * (IF lastAt = 0 THEN 1 ELSE Least(clock - lastAt, MaxDt))) :
          \E accepted \in 0 .. step : Judge(step, accepted, Cap(carried), Cap(carried))
    /\ \E claims \in {0, 1} : carried' = Least(carried + claims, MaxCarried)
    /\ UNCHANGED <<driver, clock, walkVars, boostUntil, grants, boosts, boostStart>>

(* A player who walks no faster than it could since its last update, with what it       *)
(* carried and the boost it had then, and reports at every unit where it is and what it *)
(* carries by now.  Its client keeps walking from there, not from where the server       *)
(* holds it.                                                                        *)
WalkerUpdate ==
    /\ driver = "walker" /\ clock > lastAt
    /\ \E n \in Loads :
          /\ carried' = n
          /\ LET told == CapAt(carried, lastAt)
             IN  \E move \in UpTo(told) :
                   \E accepted \in 0 .. lag + move + carry :
                       /\ Judge(lag + move + carry, accepted, Most(told, Cap(n)), Cap(n))
                       /\ lag' = lag + move + carry - accepted
    /\ carry' = 0
    /\ UNCHANGED <<driver, clock, boostUntil, grants, boosts, boostStart>>

(* Any client: any step and any number of fragments, at any time, several at once. *)
ClientUpdate ==
    /\ driver = "client"
    /\ clock <= ClientTime /\ Len(samples) <= Window
    /\ \E n \in Loads, step \in {Base, Jump}, accepted \in 0 .. Jump :
          carried' = n /\ Judge(step, accepted, 0, Cap(n))
    /\ UNCHANGED <<driver, clock, walkVars, boostUntil, grants, boosts, boostStart>>

(* The boink handler grants the budget; the client of a walker throws it up to     *)
(* as far, on top of its walk.                                                    *)
GrantKnockback ==
    /\ grants < MaxGrants
    /\ carry' = IF driver = "walker" THEN Knock ELSE carry
    /\ grants' = grants + 1
    /\ knockback' = [budget |-> Knock, until |-> clock + KnockTime]
    /\ UNCHANGED <<driver, clock, judgeVars, lag, boostUntil, boosts, boostStart>>

(* A speed powerup is picked up (effects.speed = now + 8 s). *)
TakeSpeed ==
    /\ boosts < MaxGrants
    /\ boosts' = boosts + 1
    /\ boostUntil' = clock + BoostTime /\ boostStart' = clock
    /\ UNCHANGED <<driver, clock, judgeVars, knockback, walkVars, grants>>

(* A steady driver does not let more than a tick it can make up for go by. *)
Pass ==
    /\ clock < MaxTime
    /\ driver = "walker" => lastAt = clock
    /\ driver = "bot" => clock - lastAt < MaxDt \/ lastAt = 0
    /\ clock' = clock + 1
    /\ UNCHANGED <<driver, judgeVars, grantVars, walkVars>>

MoveInit ==
    /\ driver \in {"bot", "walker", "client"}
    /\ clock = 1 /\ lastAt = 0
    /\ samples = <<>> /\ carried = 0 /\ violations = 0
    /\ knockback = [budget |-> 0, until |-> 0] /\ boostUntil = 0
    /\ lag = 0 /\ carry = 0 /\ walked = 0 /\ pushed = 0 /\ silence = 0
    /\ grants = 0 /\ boosts = 0 /\ boostStart = 0

MoveNext ==
    \/ BotTick \/ WalkerUpdate \/ ClientUpdate
    \/ GrantKnockback \/ TakeSpeed \/ Pass

MoveSpec == MoveInit /\ [][MoveNext]_moveVars

-----------------------------------------------------------------------------
(* The type of every variable. *)
MoveTypeOK ==
    /\ driver \in {"bot", "walker", "client"}
    /\ {clock, lastAt, boostUntil, lag, carry, violations, walked, pushed, silence, grants,
        boosts, boostStart} \subseteq Nat
    /\ samples \in Seq([from : Nat, to : Nat, d : Nat, cap : Nat])
    /\ carried \in 0 .. MaxCarried
    /\ knockback \in [budget : 0 .. Knock, until : Nat]

(* movement.js:34 "the server position moves only as far as the window           *)
(* allowance permits": whatever a client reports and however its updates arrive,  *)
(* from the first sighting on, which is taken as it comes, the server has moved it  *)
(* no further than a walk at the cap, one tolerance per window, and the knockbacks   *)
(* it was granted, each spent once.  A boost counts from the oldest step in the      *)
(* window when it began: for the window, and for as long as the client was ever      *)
(* silent.                                                                        *)
Elapsed == clock - 1
PathWithinCap ==
    /\ pushed <= Knock * grants
    /\ walked <= Base * (Elapsed + 1) + Tolerance * (Elapsed \div Window + 1)
                 + (Boost - Base) * (BoostTime + Window + silence) * boosts

(* By how much a cap is less than those the steps in the window kept to. *)
Fall(ss, cap) == SumFunction([i \in DOMAIN ss |-> (ss[i].cap - cap) * (ss[i].to - ss[i].from)])

(* botDriver.js:20, weakened to what the code keeps: a bot at its pace on any       *)
(* jittered tick is flagged only when its cap fell within the window, as a boost ran  *)
(* out or fragments were claimed, and by more than the tolerance pays for.  So is a   *)
(* player that walks at its cap, is thrown by boinks and reports steadily, until the   *)
(* first flag leaves it behind where it is.                                          *)
FlagOnlyAfterFall ==
    [][violations' > violations /\ driver # "client" =>
          \/ driver = "walker" /\ violations > 0
          \/ Fall(samples', Cap(IF driver = "bot" THEN carried ELSE carried')) > Tolerance]_moveVars
=============================================================================
