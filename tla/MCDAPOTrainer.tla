---------------------------- MODULE MCDAPOTrainer ----------------------------
(* The module TLC checks for the runs of DAPOTrainer; their constants are    *)
(* numbers and switches, given in the configurations.                        *)
EXTENDS DAPOTrainer
=============================================================================
