-------------------------------- MODULE Powerups --------------------------------
(***************************************************************************)
(* The powerups of a round (server/src/game/powerups.js, tickPowerups in         *)
(* server/src/ws/gameSocket.js): on a tick one is spawned if due and there is      *)
(* room, what is too old goes, and what a seat stands on is awarded to the first   *)
(* such seat.  A client knows the field by the events it is sent.                 *)
(*                                                                             *)
(* Ticks may come late by any time, and seats walk between them.                  *)
(***************************************************************************)
EXTENDS Integers, Sequences, FiniteSets, FiniteSetsExt, SequencesExt, Functions

CONSTANTS
    SeatOrder,       \* the seats in the order of the lobby's Map
    Fields,          \* places, those within PW_COLLECT_R of each other being one
    Types,           \* PW_TYPES
    PwDuration,      \* PW_DURATIONS
    PwFirst, PwInterval, PwLifetime, PwMaxActive,
    PwMaxTime        \* bounds the clock

ASSUME PowerupAssumption ==
    /\ {PwFirst, PwInterval, PwLifetime, PwMaxActive, PwMaxTime} \subseteq Nat
    /\ PwDuration \in [Types -> Nat]
    /\ SeatOrder \in Seq(Range(SeatOrder))

VARIABLES
    pwTime,
    active,       \* id, type, at and spawnedAt of each powerup on the field
    nextId, nextSpawnAt,
    standing,     \* where a seat stands
    effects,      \* per seat and type: until when
    sent          \* the events, in order: kind, id, to, type and time

fieldVars == <<active, nextId, nextSpawnAt>>
powerupVars == <<pwTime, fieldVars, standing, effects, sent>>

PwSeats == Range(SeatOrder)
Event(kind, pw, to) == [kind |-> kind, id |-> pw.id, type |-> pw.type, to |-> to, time |-> pwTime]

(* spawnIfDue: a spawn that finds the field full is skipped. *)
Due == pwTime >= nextSpawnAt
Spawned ==
    IF Due /\ Cardinality(active) < PwMaxActive
    THEN {[id |-> nextId, type |-> t, at |-> p, spawnedAt |-> pwTime] : t \in Types, p \in Fields}
    ELSE {}

Expired(field) == {pw \in field : pwTime - pw.spawnedAt > PwLifetime}

(* pickups. *)
Takers(pw) == {i \in DOMAIN SeatOrder : standing[SeatOrder[i]] = pw.at}
TakenBy(field) == {[pw |-> pw, by |-> SeatOrder[Min(Takers(pw))]] : pw \in {q \in field : Takers(q) # {}}}
StillThere(field, taken) == field  \* slip: an award leaves it on the field
LeftAfter(field, taken) == field \ {t.pw : t \in taken}

(* tickPowerups, with the powerup it spawned, if any, in new. *)
TickWith(new) ==
    LET field == active \cup new
        gone  == Expired(field)
        taken == TakenBy(field \ gone)
    IN  /\ nextId' = nextId + Cardinality(new)
        /\ nextSpawnAt' = IF Due THEN pwTime + PwInterval ELSE nextSpawnAt
        /\ active' = LeftAfter(field \ gone, taken)
        /\ effects' = [s \in PwSeats |-> [t \in Types |->
              IF \E a \in taken : a.by = s /\ a.pw.type = t THEN pwTime + PwDuration[t] ELSE effects[s][t]]]
        /\ sent' = sent \o SetToSeq({Event("spawn", pw, "all") : pw \in new})
                        \o SetToSeq({Event("expire", pw, "all") : pw \in gone})
                        \o SetToSeq({Event("taken", a.pw, a.by) : a \in taken})

TickPowerups ==
    /\ \/ Spawned = {} /\ TickWith({})
       \/ \E pw \in Spawned : TickWith({pw})
    /\ UNCHANGED <<pwTime, standing>>

Step(s, place) ==
    /\ standing' = [standing EXCEPT ![s] = place]
    /\ UNCHANGED <<pwTime, fieldVars, effects, sent>>

PwPass ==
    /\ pwTime < PwMaxTime
    /\ pwTime' = pwTime + 1
    /\ UNCHANGED <<fieldVars, standing, effects, sent>>

PowerupInit ==
    /\ pwTime = 0
    /\ active = {} /\ nextId = 0 /\ nextSpawnAt = PwFirst
    /\ standing \in [PwSeats -> Fields]
    /\ effects = [s \in PwSeats |-> [t \in Types |-> 0]]
    /\ sent = <<>>

PowerupNext ==
    \/ TickPowerups \/ PwPass
    \/ \E s \in PwSeats, p \in Fields : Step(s, p)

PowerupSpec == PowerupInit /\ [][PowerupNext]_powerupVars

-----------------------------------------------------------------------------
(* The type of every variable. *)
PowerupTypeOK ==
    /\ pwTime \in Nat /\ nextId \in Nat /\ nextSpawnAt \in Nat
    /\ active \subseteq [id : 0 .. nextId - 1, type : Types, at : Fields, spawnedAt : 0 .. pwTime]
    /\ standing \in [PwSeats -> Fields]
    /\ effects \in [PwSeats -> [Types -> Nat]]
    /\ sent \in Seq([kind : {"spawn", "expire", "taken"}, id : 0 .. nextId - 1, type : Types,
                     to : PwSeats \cup {"all"}, time : 0 .. pwTime])

SentOf(kinds) == {i \in DOMAIN sent : sent[i].kind \in kinds}
Ids(evs) == {sent[i].id : i \in evs}
OnePerId(evs) == \A i, j \in evs : sent[i].id = sent[j].id => i = j

(* gameSocket.js:292 "spawn when due, expire, and award pickups by the server's    *)
(* own tracked positions": what clients were told is the field.  Every powerup is    *)
(* announced once and ends at most once, by its expiry or by one award; what has    *)
(* not ended lies on the field, never more than PW_MAX_ACTIVE; spawns are an         *)
(* interval apart, an award falls in the powerup's lifetime however late the tick     *)
(* came, and the effects of a seat are the latest of its awards.                     *)
EventsTellTheField ==
    LET spawns == SentOf({"spawn"})
        ends   == SentOf({"expire", "taken"})
        awards == SentOf({"taken"})
    IN  /\ Ids(spawns) = 0 .. nextId - 1 /\ OnePerId(spawns)
        /\ OnePerId(ends)
        /\ {pw.id : pw \in active} = Ids(spawns) \ Ids(ends)
        /\ Cardinality(active) <= PwMaxActive
        /\ \A i, j \in spawns : i < j => sent[j].time - sent[i].time >= PwInterval
        /\ \A i \in awards, j \in spawns :
              sent[i].id = sent[j].id => sent[i].time - sent[j].time <= PwLifetime
        /\ \A s \in PwSeats, t \in Types :
              effects[s][t] = Max({0} \cup {sent[i].time + PwDuration[t] :
                                    i \in {j \in awards : sent[j].to = s /\ sent[j].type = t}})
=============================================================================
