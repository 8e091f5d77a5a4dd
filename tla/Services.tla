-------------------------------- MODULE Services --------------------------------
(***************************************************************************)
(* What surrounds a round, side by side: the HTTP side, the limiters, the transaction *)
(* sender, the way from scores to prizes and the operator's tools, each a module of    *)
(* its own that shares no state with the others.  A behaviour is one of the part it    *)
(* starts with.                                                                  *)
(***************************************************************************)
EXTENDS Accounts, Limits, Sender, Roster, ArenaCli

CONSTANT Parts      \* the parts that are looked at

VARIABLE part

-----------------------------------------------------------------------------
(* A part that is not looked at waits in one of its initial states. *)
AnyOf(S) == CHOOSE s \in S : TRUE
WaitsIn(name, var, states) == part # name => var = AnyOf(states)

ServicesInit ==
    /\ part \in Parts
    /\ AccountsInit
    /\ LimitInit /\ WaitsIn("limits", limiter, Windowed \cup {"bucket"})
    /\ SenderInit /\ WaitsIn("sender", <<baseFee, queue>>, BaseFees \X {{}})
    /\ RosterInit /\ WaitsIn("roster", tiers, {<<4, 1>>})
    /\ CliInit /\ WaitsIn("tools", stakeNow, Stakes)

ServicesNext ==
    /\ part' = part
    /\ \/ part = "accounts" /\ AccountsNext
       \/ part # "accounts" /\ UNCHANGED accountVars
    /\ \/ part = "limits" /\ LimitNext
       \/ part # "limits" /\ UNCHANGED limitVars
    /\ \/ part = "sender" /\ SenderNext
       \/ part # "sender" /\ UNCHANGED senderVars
    /\ \/ part = "roster" /\ RosterNext
       \/ part # "roster" /\ UNCHANGED rosterVars
    /\ \/ part = "tools" /\ CliNext
       \/ part # "tools" /\ UNCHANGED cliVars

servicesVars == <<part, accountVars, limitVars, senderVars, rosterVars, cliVars>>

ServicesSpec == ServicesInit /\ [][ServicesNext]_servicesVars

(* Every part keeps the types of its variables. *)
ServicesTypeOK ==
    AccountsTypeOK /\ LimitTypeOK /\ SenderTypeOK /\ RosterTypeOK /\ CliTypeOK
=============================================================================
