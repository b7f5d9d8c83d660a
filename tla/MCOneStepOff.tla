---------------------------- MODULE MCOneStepOff ----------------------------
(* The module TLC checks for the run of OneStepOff; its constants are        *)
(* numbers and switches, given in the configuration.                         *)
EXTENDS OneStepOff
=============================================================================
