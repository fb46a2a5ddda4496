-------------------------------- MODULE MCHart --------------------------------
(***************************************************************************)
(* One hart that programs delegation the way firmware does, timers that     *)
(* expire within the run and a budget of a few instructions.                *)
(***************************************************************************)
EXTENDS Hart

MCMidelegs == {{1, 5}}
MCMedelegs == {{8, 13}}
MCCompares == {0, Deadline - 1, Never}
===============================================================================
