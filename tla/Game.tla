---------------------------------- MODULE Game ----------------------------------
(***************************************************************************)
(* The rules of the game side by side: a round in play, the movement judge, the      *)
(* powerups, the layout, the collection rules and the free lobby, each a module of    *)
(* its own that shares no state with the others.  A behaviour is one of the part it    *)
(* starts with.                                                                  *)
(***************************************************************************)
EXTENDS ArenaRound, Movement, Powerups, Layout, Collection, Sandbox

CONSTANT Parts      \* the parts that are looked at

VARIABLE part

-----------------------------------------------------------------------------
(* A part that is not looked at waits in one of its initial states. *)
AnyOf(S) == CHOOSE s \in S : TRUE
WaitsIn(name, var, states) == part # name => var = AnyOf(states)

GameInit ==
    /\ part \in Parts
    /\ RoundInit /\ WaitsIn("round", <<pos, frags>>,
          [Seats -> Places] \X [Frags -> [at : Places, by : {NoOne}]])
    /\ MoveInit /\ WaitsIn("movement", driver, {"bot", "walker", "client"})
    /\ PowerupInit /\ WaitsIn("powerups", standing, [PwSeats -> Fields])
    /\ LayoutInit /\ WaitsIn("layout", blocked, {{}})
    /\ CollectionInit /\ WaitsIn("collection", <<assets, spot>>, RolledAssets \X [Collectors -> Spots])
    /\ SandboxInit

GameNext ==
    /\ part' = part
    /\ \/ part = "round" /\ RoundNext
       \/ part # "round" /\ UNCHANGED roundVars
    /\ \/ part = "movement" /\ MoveNext
       \/ part # "movement" /\ UNCHANGED moveVars
    /\ \/ part = "powerups" /\ PowerupNext
       \/ part # "powerups" /\ UNCHANGED powerupVars
    /\ \/ part = "layout" /\ LayoutNext
       \/ part # "layout" /\ UNCHANGED layoutVars
    /\ \/ part = "collection" /\ CollectionNext
       \/ part # "collection" /\ UNCHANGED collectionVars
    /\ \/ part = "sandbox" /\ SandboxNext
       \/ part # "sandbox" /\ UNCHANGED hallVars

gameVars == <<part, roundVars, moveVars, powerupVars, layoutVars, collectionVars, hallVars>>

GameSpec == GameInit /\ [][GameNext]_gameVars

(* Every part keeps the types of its variables. *)
GameTypeOK ==
    /\ RoundTypeOK /\ MoveTypeOK /\ PowerupTypeOK
    /\ LayoutTypeOK /\ CollectionTypeOK /\ SandboxTypeOK
=============================================================================
