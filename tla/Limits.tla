--------------------------------- MODULE Limits ---------------------------------
(***************************************************************************)
(* The three limiters of the game server: the fixed windows per address on HTTP    *)
(* requests and on new sockets (server/src/index.js), and the token bucket per      *)
(* socket and event (createRateLimiter in server/src/ws/gameSocket.js).  One         *)
(* address and one bucket: they do not share state.                              *)
(*                                                                             *)
(* A bucket's tokens are counted in shares of a token, one per unit of time and    *)
(* token of its rate, so that its divisions stay whole.                          *)
(***************************************************************************)
EXTENDS Integers, Sequences, FiniteSetsExt

CONSTANTS
    WindowMs,          \* 60000
    HttpLimit, SocketLimit,
    SweepAfter,        \* 120000, the age at which the sweep drops an entry
    MaxPerSec, Second, \* the bucket's rate, and a second in units of time
    MaxAdmitted, LimitTime \* bounds of a run: attempts let through, and the clock

ASSUME LimitAssumption ==
    {WindowMs, HttpLimit, SocketLimit, SweepAfter, MaxPerSec, Second, MaxAdmitted, LimitTime} \subseteq Nat

Windowed == {"http", "socket"}
Limit == [http |-> HttpLimit, socket |-> SocketLimit]

VARIABLES
    limiter,            \* the one looked at: "http", "socket" or "bucket"
    limitTime,
    entry,              \* requestCounts or socketConnections: count and resetAt, or NoEntry
    shares, lastRefill, \* the bucket
    admitted            \* when the limiter let one through

limitVars == <<limiter, limitTime, entry, shares, lastRefill, admitted>>

NoEntry == [count |-> 0, resetAt |-> -1]
Opened == [count |-> 0, resetAt |-> limitTime + WindowMs]
Current == IF entry = NoEntry \/ limitTime > entry.resetAt THEN Opened ELSE entry
Admit(ok) == admitted' = IF ok THEN Append(admitted, limitTime) ELSE admitted

(* The middleware: a refused attempt counts as well; past the first that is refused *)
(* in a window the count no longer matters and stays.                            *)
Request ==
    /\ limiter \in Windowed /\ Len(admitted) < MaxAdmitted
    /\ Current.count <= Limit[limiter]
    /\ entry' = [Current EXCEPT !.count = @ + 1]
    /\ Admit(Current.count + 1 <= Limit[limiter])
    /\ UNCHANGED <<limiter, limitTime, shares, lastRefill>>

(* The timer that drops old entries of HTTP. *)
SweptAtOnce == TRUE  \* slip: entries of running windows go, too
SweptAway == limitTime > entry.resetAt + SweepAfter
SweepCounts ==
    /\ limiter = "http" /\ entry # NoEntry /\ SweptAway
    /\ entry' = NoEntry
    /\ UNCHANGED <<limiter, limitTime, shares, lastRefill, admitted>>

(* check() of a bucket. *)
RefilledUncapped == shares + (limitTime - lastRefill) * MaxPerSec  \* slip: no Math.min
Refilled == Min({MaxPerSec * Second, shares + (limitTime - lastRefill) * MaxPerSec})
Check ==
    /\ limiter = "bucket" /\ Len(admitted) < MaxAdmitted
    /\ shares' = IF Refilled < Second THEN Refilled ELSE Refilled - Second
    /\ lastRefill' = limitTime
    /\ Admit(Refilled >= Second)
    /\ UNCHANGED <<limiter, limitTime, entry>>

LimitPass ==
    /\ limitTime < LimitTime
    /\ limitTime' = limitTime + 1
    /\ UNCHANGED <<limiter, entry, shares, lastRefill, admitted>>

LimitInit ==
    /\ limiter \in Windowed \cup {"bucket"}
    /\ limitTime = 0
    /\ entry = NoEntry
    /\ shares = MaxPerSec * Second /\ lastRefill = 0
    /\ admitted = <<>>

LimitNext == Request \/ SweepCounts \/ Check \/ LimitPass

LimitSpec == LimitInit /\ [][LimitNext]_limitVars

-----------------------------------------------------------------------------
(* The type of every variable. *)
LimitTypeOK ==
    /\ limiter \in Windowed \cup {"bucket"}
    /\ limitTime \in Nat /\ lastRefill \in 0 .. limitTime
    /\ entry \in [count : Nat, resetAt : {-1} \cup Nat]
    /\ shares \in 0 .. MaxPerSec * Second
    /\ admitted \in Seq(Nat)

(* What the limiters really bound (server/src/index.js:74, :118, gameSocket.js:49): *)
(* no span as long as a window lets more than two windows' worth through, wherever   *)
(* it lies and whenever the sweep runs, and a bucket never more than its burst and    *)
(* its rate over the span.                                                         *)
NoFlood ==
    \A i \in DOMAIN admitted : \A j \in i .. Len(admitted) :
        LET span == admitted[j] - admitted[i]
        IN  IF limiter = "bucket"
            THEN Second * (j - i + 1) <= MaxPerSec * (Second + span)
            ELSE span <= WindowMs => j - i + 1 <= 2 * Limit[limiter]
=============================================================================
