------------------------------- MODULE MCTools -------------------------------
(****************************************************************************)
(* Instances of AgentTools.  Calls come one after another, and bash and the *)
(* servers have nothing to do with each other: a behaviour uses one of the  *)
(* two, so that no order of two things that are independent is checked.     *)
(* Whether CI denies matters where no terminal is; where the mode is fully  *)
(* autonomous it makes no difference whether one is.                        *)
(****************************************************************************)
EXTENDS AgentTools

CONSTANTS removal, listing, building, s1, s2, tool

VARIABLE focus  \* what the behaviour uses: "shell" or "servers"

FocusInit ==
    /\ Init /\ file = "absent" /\ focus \in {"shell", "servers"}
    /\ gate.fully_autonomous => gate.is_interactive
    /\ gate.is_interactive => ~gate.deny_mutating_in_ci
    /\ focus = "servers" =>
        profile = "balanced" /\ \A setting \in DOMAIN gate : ~gate[setting]

FocusNext ==
    /\ Next /\ UNCHANGED focus
    /\ IF focus = "shell" THEN UNCHANGED mcpVars
       ELSE UNCHANGED <<shellVars, profile, file, facts>>

FocusSpec == FocusInit /\ [][FocusNext]_<<vars, focus>>
=============================================================================
