------------------------------ MODULE MCPipes ------------------------------
(* The two places where bytes go through pipes, in one instance: a run     *)
(* with a control descriptor, or a command of the adapter.                 *)
EXTENDS ControlChannel, PumpIo

MCWord == <<"f", "h">>

PipesInit == (ControlInit /\ NoCommand) \/ (NoControl /\ PumpInit)

PipesNext ==
  \/ ControlNext /\ UNCHANGED pumpVars
  \/ PumpNext /\ UNCHANGED controlVars

PipesSpec ==
  /\ PipesInit
  /\ [][PipesNext]_<<controlVars, pumpVars>>
  /\ WF_controlVars(Poll /\ UNCHANGED pumpVars)
  /\ WF_pumpVars(Git /\ UNCHANGED controlVars)
  /\ WF_pumpVars(Adapter /\ UNCHANGED controlVars)
=============================================================================
